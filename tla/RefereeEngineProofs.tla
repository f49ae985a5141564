------------------------ MODULE RefereeEngineProofs ------------------------
(***************************************************************************)
(* Safety of RefereeEngine for any number of sessions, connections, rounds *)
(* and messages: memory and tables agree about the round that waits, each  *)
(* verdict has one receipt, a session has one live contestant, and the     *)
(* whole implements RoundLedger.                                           *)
(*                                                                         *)
(* The invariant is proved in independent parts: types; connections;       *)
(* sessions; rounds, for which RoundSteps sorts the steps by what they do  *)
(* to the tables; overdue rounds; receipts.                                *)
(***************************************************************************)
EXTENDS RefereeEngine, FiniteSetTheorems, TLAPS

Row == [session : Sessions, revision : Revisions, timed : BOOLEAN,
        status : Statuses, actual : Verdicts \cup {None}]

-----------------------------------------------------------------------------
(* Types                                                                   *)

(* One round gets another status, in place.                                *)
LEMMA StatusSet ==
    ASSUME NEW seq \in Seq(Row), NEW r \in DOMAIN seq, NEW status \in Statuses
    PROVE  /\ [seq EXCEPT ![r].status = status] \in Seq(Row)
           /\ DOMAIN [seq EXCEPT ![r].status = status] = DOMAIN seq
           /\ Len([seq EXCEPT ![r].status = status]) = Len(seq)
<1>1. [seq EXCEPT ![r].status = status] = [seq EXCEPT ![r] = [@ EXCEPT !.status = status]]
  OBVIOUS
<1>2. seq[r] \in Row
  OBVIOUS
<1>3. [seq[r] EXCEPT !.status = status] \in Row
  BY <1>2 DEF Row
<1> QED BY <1>1, <1>3

(* One round gets its verdict and status, in place.                        *)
LEMMA Answering ==
    ASSUME NEW seq \in Seq(Row), NEW r \in DOMAIN seq, NEW status \in Statuses, NEW v \in Verdicts
    PROVE  LET after == [seq EXCEPT ![r].actual = v, ![r].status = status] IN
           after \in Seq(Row) /\ DOMAIN after = DOMAIN seq /\ Len(after) = Len(seq)
<1>0. seq[r] \in Row
  OBVIOUS
<1>1. [seq[r] EXCEPT !.actual = v, !.status = status] \in Row
  BY <1>0 DEF Row
<1>2. [seq EXCEPT ![r].actual = v, ![r].status = status]
        = [seq EXCEPT ![r] = [seq[r] EXCEPT !.actual = v, !.status = status]]
  OBVIOUS
<1> QED BY <1>1, <1>2

(* One round is added at the end.                                          *)
LEMMA Appending ==
    ASSUME NEW seq \in Seq(Row), NEW row \in Row
    PROVE  /\ Append(seq, row) \in Seq(Row)
           /\ DOMAIN Append(seq, row) = DOMAIN seq \cup {Len(seq) + 1}
           /\ Len(seq) + 1 \notin DOMAIN seq
           /\ Append(seq, row)[Len(seq) + 1] = row
           /\ \A r \in DOMAIN seq : Append(seq, row)[r] = seq[r]
  OBVIOUS

(* Every round is looked at, in place.                                     *)
LEMMA Recovering ==
    ASSUME NEW seq \in Seq(Row), NEW f, f = [r \in DOMAIN seq |-> f[r]],
           \A r \in DOMAIN seq : f[r] \in Row
    PROVE  f \in Seq(Row) /\ DOMAIN f = DOMAIN seq /\ Len(f) = Len(seq)
<1>1. DOMAIN seq = 1 .. Len(seq) /\ Len(seq) \in Nat
  OBVIOUS
<1>2. f \in [1 .. Len(seq) -> Row]
  BY <1>1
<1> QED BY <1>1, <1>2

Types ==
    /\ TypeOK
    /\ session # None => revision \in Revisions

(* The types hold in the empty database.                                   *)
LEMMA InitTypes == Init => Types
<1> SUFFICES ASSUME Init PROVE Types
  OBVIOUS
<1>1. rounds \in Seq(Row) /\ DOMAIN rounds = {} /\ Rounds = {}
  BY DEF Init, Rounds
<1> QED BY <1>1, RefereeConstants DEF Init, Types, TypeOK, Row

(* Every action keeps the types.                                           *)
LEMMA TypesStep == Types /\ [Next]_vars => Types'
<1> SUFFICES ASSUME Types, [Next]_vars PROVE Types'
  OBVIOUS
<1> USE RefereeConstants
<1>0. /\ rounds \in Seq(Row) /\ Len(rounds) \in Nat
      /\ Rounds = 1 .. Len(rounds)
      /\ \A dead : Close(dead) => alive' \in [Conns -> BOOLEAN]
      /\ \A r \in Rounds, status \in Statuses : SetStatus(r, status) =>
            rounds' \in Seq(Row) /\ DOMAIN rounds' = Rounds
  <2>1. rounds \in Seq(Row)
    BY DEF Types, TypeOK, Row
  <2>2. Len(rounds) \in Nat /\ Rounds = 1 .. Len(rounds)
    BY <2>1 DEF Rounds
  <2>3. \A dead : Close(dead) => alive' \in [Conns -> BOOLEAN]
    BY DEF Types, TypeOK, Close
  <2>4. ASSUME NEW r \in Rounds, NEW status \in Statuses, SetStatus(r, status)
        PROVE  rounds' \in Seq(Row) /\ DOMAIN rounds' = Rounds
    BY <2>1, <2>4, StatusSet DEF SetStatus, Rounds
  <2> QED BY <2>1, <2>2, <2>3, <2>4
<1>00. Types' <=> /\ rounds' \in Seq(Row)
                  /\ (session # None => revision \in Revisions)'
                  /\ opened' \in [Sessions -> {None, "OPEN", "CLOSED", "INTERRUPTED"}]
                  /\ receipts' \subseteq [session : Sessions, message : ResultMessages]
                  /\ acked' \subseteq [session : Sessions, message : ResultMessages]
                  /\ process' \in {"up", "closing", "down"} /\ listening' \in BOOLEAN
                  /\ session' \in Sessions \cup {None}
                  /\ revision' \in Revisions \cup {None}
                  /\ peer' \in Conns \cup {None}
                  /\ active' \in DOMAIN rounds' \cup {0} /\ started' \subseteq DOMAIN rounds'
                  /\ expired' \subseteq DOMAIN rounds'
                  /\ fatal' \in BOOLEAN /\ failing' \subseteq {"web", "peer"}
                  /\ thread' \in [Conns -> {"new", "open", "busy", "done"}]
                  /\ alive' \in [Conns -> BOOLEAN]
                  /\ member' \in [Conns -> Sessions \cup {None}]
                  /\ confirmed' \in Revisions \cup {None}
  BY DEF Types, TypeOK, Row, Rounds, Revisions
<1> USE DEF tables, engine, errors, peers, MayFail, MayFailLater, FailsLater, Commanding
<1>1. ASSUME NEW s \in Sessions, NewSession(s) PROVE Types'
  <2>1. /\ rounds' = rounds /\ receipts' = receipts /\ acked' = acked /\ member' = member
        /\ process' = process /\ listening' = listening /\ thread' = thread
    BY <1>1 DEF NewSession
  <2>2. opened' \in [Sessions -> {None, "OPEN", "CLOSED", "INTERRUPTED"}]
    BY <1>1 DEF NewSession, Types, TypeOK
  <2>3. fatal' = fatal /\ failing' \subseteq {"web", "peer"}
    BY <1>1 DEF NewSession, Types, TypeOK
  <2>4. /\ session' \in Sessions \cup {None} /\ revision' \in Revisions \cup {None}
        /\ (session # None => revision \in Revisions)'
        /\ active' \in Rounds \cup {0} /\ started' \subseteq Rounds /\ expired' \subseteq Rounds
    <3>1. 1 \in Revisions
      BY DEF Revisions
    <3>2. \/ session' = s /\ revision' = 1 /\ active' = 0 /\ started' = {} /\ expired' = {}
          \/ /\ session' = session /\ revision' = revision /\ active' = active
             /\ started' = started /\ expired' = expired
      BY <1>1 DEF NewSession
    <3> QED BY <3>1, <3>2 DEF Types, TypeOK
  <2>5. /\ peer' \in Conns \cup {None} /\ confirmed' \in Revisions \cup {None}
        /\ alive' \in [Conns -> BOOLEAN]
    BY <1>0, <1>1 DEF NewSession, Types, TypeOK
  <2> QED BY <1>0, <1>00, <2>1, <2>2, <2>3, <2>4, <2>5 DEF Types, TypeOK, Rounds
<1>2. CASE SetTarget
  BY <1>0, <1>00, <1>2 DEF SetTarget, Types, TypeOK, Revisions, Rounds
<1>3. ASSUME NEW timed \in BOOLEAN, StartRound(timed) PROVE Types'
  <2> DEFINE row(status) == [session |-> session, revision |-> revision, timed |-> timed,
                             status |-> status, actual |-> None]
  <2>1. row("WAITING") \in Row /\ row("INTERRUPTED") \in Row
    BY <1>3 DEF StartRound, Types, TypeOK, Row, Statuses
  <2>2. rounds' = Append(rounds, row("WAITING")) \/ rounds' = Append(rounds, row("INTERRUPTED"))
    BY <1>3 DEF StartRound
  <2>3. rounds' \in Seq(Row) /\ DOMAIN rounds' = Rounds \cup {Len(rounds) + 1}
    <3> HIDE DEF row
    <3> QED BY <1>0, <2>1, <2>2, Appending DEF Rounds
  <2> QED BY <1>0, <1>00, <1>3, <2>3 DEF StartRound, Types, TypeOK, Rounds
<1>4. ASSUME NEW status, CancelRound(status) PROVE Types'
  <2>1. active \in Rounds /\ status \in Statuses
    BY <1>4 DEF CancelRound, EndStatus, Statuses, Types, TypeOK
  <2>2. rounds' \in Seq(Row) /\ DOMAIN rounds' = Rounds
    BY <1>0, <1>4, <2>1 DEF CancelRound
  <2> QED BY <1>0, <1>00, <1>4, <2>2 DEF CancelRound, Types, TypeOK
<1>5. CASE EndSession
  BY <1>0, <1>00, <1>5 DEF EndSession, Types, TypeOK, Rounds
<1>6. CASE StartListener
  BY <1>0, <1>00, <1>6 DEF StartListener, Types, TypeOK, Rounds
<1>7. CASE StopListener
  <2>1. rounds' \in Seq(Row) /\ DOMAIN rounds' = Rounds
    BY <1>0, <1>7 DEF StopListener, EndsRound, Types, TypeOK, Statuses, Rounds
  <2> QED BY <1>0, <1>00, <1>7, <2>1 DEF StopListener, Types, TypeOK
<1>8. ASSUME NEW c \in Conns, Thread(c) PROVE Types'
  <2>1. CASE Connect(c)
    BY <1>0, <1>00, <2>1 DEF Connect, Types, TypeOK, Rounds
  <2>2. CASE TakeFrame(c)
    BY <1>0, <1>00, <2>2 DEF TakeFrame, Types, TypeOK, Rounds
  <2>3. CASE LoopEnds(c)
    BY <1>0, <1>00, <2>3 DEF LoopEnds, Types, TypeOK, Rounds
  <2>4. CASE ThreadEnds(c)
    BY <1>0, <1>00, <2>4 DEF ThreadEnds, Types, TypeOK, Rounds
  <2>5. CASE ReceiveFatal(c)
    BY <1>0, <1>00, <2>5 DEF ReceiveFatal, Handles, Types, TypeOK, Rounds
  <2>6. CASE ReceiveOther(c)
    BY <1>0, <1>00, <2>6 DEF ReceiveOther, Handles, Types, TypeOK, Rounds
  <2>7. CASE Hello(c)
    <3>1. /\ member' \in [Conns -> Sessions \cup {None}]
          /\ thread' \in [Conns -> {"new", "open", "busy", "done"}]
      BY <2>7 DEF Hello, Handles, Types, TypeOK
    <3>2. /\ alive' \in [Conns -> BOOLEAN] /\ peer' \in Conns \cup {None}
          /\ fatal' \in BOOLEAN /\ confirmed' = None /\ failing' = failing
      BY <1>0, <2>7 DEF Hello, Types, TypeOK
    <3> QED BY <1>0, <1>00, <2>7, <3>1, <3>2 DEF Hello, Types, TypeOK, Rounds
  <2>8. ASSUME NEW rev \in Revisions, TargetAck(c, rev) PROVE Types'
    BY <1>0, <1>00, <2>8 DEF TargetAck, Handles, Types, TypeOK, Rounds
  <2>9. ASSUME NEW m \in ResultMessages, ResultNew(c, m) PROVE Types'
    <3>0. m.round \in Rounds /\ rounds[m.round] \in Row /\ rounds[m.round].session = session
      BY <1>0, <2>9 DEF ResultNew, Accepts
    <3>1. m.round \in Rounds /\ m.verdict \in Verdicts /\ session \in Sessions
      BY <3>0 DEF ResultMessages, Row
    <3>2. rounds' \in Seq(Row) /\ DOMAIN rounds' = Rounds
      <4>1. rounds' = [rounds EXCEPT ![m.round].actual = m.verdict,
                         ![m.round].status = IF Late(m.round) THEN "LATE" ELSE "RECEIVED"]
        BY <2>9 DEF ResultNew
      <4> HIDE DEF Rounds
      <4> QED BY <1>0, <3>1, <4>1, Answering DEF Statuses, Rounds
    <3>3. [session |-> session, message |-> m] \in [session : Sessions, message : ResultMessages]
      BY <3>1
    <3> QED BY <1>0, <1>00, <2>9, <3>2, <3>3 DEF ResultNew, Handles, Types, TypeOK
  <2>10. ASSUME NEW m \in ResultMessages, ResultAgain(c, m) PROVE Types'
    <3>1. [session |-> session, message |-> m] \in [session : Sessions, message : ResultMessages]
      BY <2>10 DEF ResultAgain, Receipts, Types, TypeOK
    <3> QED BY <1>0, <1>00, <2>10, <3>1 DEF ResultAgain, Handles, Types, TypeOK, Rounds
  <2> QED BY <1>8, <2>1, <2>2, <2>3, <2>4, <2>5, <2>6, <2>7, <2>8, <2>9, <2>10 DEF Thread
<1>9. ASSUME NEW r \in Rounds, TimePasses(r) PROVE Types'
  BY <1>0, <1>00, <1>9 DEF TimePasses, Types, TypeOK, Rounds
<1>10. CASE Tick
  <2>1. rounds' \in Seq(Row) /\ DOMAIN rounds' = Rounds
    BY <1>0, <1>10 DEF Tick, Types, TypeOK, Statuses, Rounds
  <2> QED BY <1>0, <1>00, <1>10, <2>1 DEF Tick, Types, TypeOK
<1>11. CASE WebError \/ Fail \/ BeginClose
  BY <1>0, <1>00, <1>11 DEF WebError, Fail, BeginClose, Types, TypeOK, Rounds
<1>12. CASE CloseSession
  <2>1. rounds' \in Seq(Row) /\ DOMAIN rounds' = Rounds
    BY <1>0, <1>12 DEF CloseSession, Types, TypeOK, Statuses, Rounds
  <2> QED BY <1>0, <1>00, <1>12, <2>1 DEF CloseSession, Types, TypeOK
<1>13. CASE ProcessEnds
  BY <1>0, <1>00, <1>13 DEF ProcessEnds, Types, TypeOK, Rounds
<1>14. CASE Recover
  <2>1. \A r \in Rounds : rounds[r] \in Row
    BY <1>0 DEF Rounds
  <2>2. rounds' \in Seq(Row) /\ DOMAIN rounds' = Rounds
    <3>1. rounds' = [r \in Rounds |-> rounds'[r]]
      BY <1>14 DEF Recover
    <3>2. \A r \in Rounds : rounds'[r] \in Row
      BY <1>14, <2>1 DEF Recover, Row, Statuses
    <3> QED BY <1>0, <3>1, <3>2, Recovering DEF Rounds
  <2> QED BY <1>0, <1>00, <1>14, <2>2 DEF Recover, Types, TypeOK
<1>15. CASE UNCHANGED vars
  BY <1>0, <1>00, <1>15 DEF vars, Types, TypeOK, Rounds
<1> QED BY <1>1, <1>2, <1>3, <1>4, <1>5, <1>6, <1>7, <1>8, <1>9, <1>10, <1>11, <1>12, <1>13,
           <1>14, <1>15 DEF Next, Command

-----------------------------------------------------------------------------
(* Connections                                                             *)

(* No connection is a member before its handshake, nor of a session that   *)
(* was not created: a new session finds no members.                        *)
MembersKnown ==
    /\ \A c \in Conns : thread[c] = "new" => member[c] = None /\ ~alive[c]
    /\ \A c \in Conns : member[c] # None => opened[member[c]] # None
    /\ session # None => opened[session] # None

(* A handshake finds no other live member, and a new session no members at *)
(* all.                                                                    *)
LEMMA ContestantStep ==
    Types /\ MembersKnown /\ LiveContestant /\ [Next]_vars => (MembersKnown /\ LiveContestant)'
<1> SUFFICES ASSUME Types, MembersKnown, LiveContestant, [Next]_vars
             PROVE  MembersKnown' /\ LiveContestant'
  OBVIOUS
<1> USE RefereeConstants
<1>0. /\ opened \in [Sessions -> {None, "OPEN", "CLOSED", "INTERRUPTED"}]
      /\ thread \in [Conns -> {"new", "open", "busy", "done"}]
      /\ alive \in [Conns -> BOOLEAN] /\ member \in [Conns -> Sessions \cup {None}]
      /\ session \in Sessions \cup {None} /\ peer \in Conns \cup {None}
  BY DEF Types, TypeOK
(* What most steps do: threads go on, connections are closed               *)
<1>a. ASSUME UNCHANGED <<opened, session, peer, member>>,
             \A c \in Conns : thread'[c] = "new" => thread[c] = "new",
             \A c \in Conns : alive'[c] => alive[c]
      PROVE  MembersKnown' /\ LiveContestant'
  BY <1>0, <1>a DEF MembersKnown, LiveContestant
<1>b. \A dead : Close(dead) => \A c \in Conns : alive'[c] <=> alive[c] /\ c \notin dead
  BY DEF Close
<1> USE DEF tables, engine, errors, peers
<1>1. ASSUME NEW s \in Sessions, NewSession(s) PROVE MembersKnown' /\ LiveContestant'
  <2>1. /\ opened[s] = None /\ UNCHANGED <<member, thread>>
        /\ (\A c \in Conns : alive'[c] => alive[c] /\ c # peer) \/ UNCHANGED <<alive, peer>>
        /\ \/ session' = session
           \/ session' = s
    BY <1>1, <1>b DEF NewSession
  <2>2. /\ \A x \in Sessions : opened[x] # None => opened'[x] # None
        /\ session' = s => opened'[s] # None
    BY <1>0, <1>1 DEF NewSession, MembersKnown
  <2> QED BY <1>0, <1>1, <1>b, <2>1, <2>2 DEF NewSession, MembersKnown, LiveContestant
<1>2. CASE SetTarget
  BY <1>a, <1>b, <1>2 DEF SetTarget
<1>3. ASSUME NEW timed \in BOOLEAN, StartRound(timed) PROVE MembersKnown' /\ LiveContestant'
  BY <1>a, <1>b, <1>3 DEF StartRound
<1>4. ASSUME NEW status, CancelRound(status) PROVE MembersKnown' /\ LiveContestant'
  BY <1>a, <1>b, <1>4 DEF CancelRound
<1>5. CASE EndSession
  <2>1. \A x \in Sessions : opened[x] # None => opened'[x] # None
    BY <1>0, <1>5 DEF EndSession
  <2> QED BY <1>0, <1>5, <1>b, <2>1 DEF EndSession, MembersKnown, LiveContestant
<1>6. CASE StartListener
  BY <1>a, <1>6 DEF StartListener
<1>7. CASE StopListener
  BY <1>a, <1>b, <1>7 DEF StopListener
<1>8. ASSUME NEW c \in Conns, Thread(c) PROVE MembersKnown' /\ LiveContestant'
  <2>1. CASE Connect(c)
    <3>1. \A d \in Conns : d # c => (alive'[d] => alive[d]) /\ thread'[d] = thread[d]
      BY <1>0, <1>b, <2>1 DEF Connect
    <3> QED BY <1>0, <2>1, <3>1 DEF Connect, MembersKnown, LiveContestant
  <2>2. CASE TakeFrame(c)
    BY <1>0, <1>a, <2>2 DEF TakeFrame
  <2>3. CASE LoopEnds(c)
    BY <1>a, <1>b, <2>3 DEF LoopEnds
  <2>4. CASE ThreadEnds(c)
    <3>1. /\ \A d \in Conns : alive'[d] => alive[d] /\ ~alive[c]
          /\ \A d \in Conns : member'[d] = IF d = c THEN None ELSE member[d]
          /\ \A d \in Conns : thread'[d] = "new" => thread[d] = "new"
          /\ peer' = peer \/ peer = c
          /\ UNCHANGED <<opened, session>>
      BY <1>0, <1>b, <2>4 DEF ThreadEnds, MayFailLater, Lost
    <3> QED BY <1>0, <3>1 DEF MembersKnown, LiveContestant
  <2>5. CASE ReceiveFatal(c)
    BY <1>0, <1>a, <1>b, <2>5 DEF ReceiveFatal, Handles
  <2>6. CASE ReceiveOther(c)
    BY <1>0, <1>a, <1>b, <2>6 DEF ReceiveOther, Handles, MayFail
  <2>7. CASE Hello(c)
    <3>1. \A d \in Conns : alive[d] => member[d] # session
      BY <1>0, <2>7 DEF Hello, Connected, LiveContestant
    <3>2. /\ \A d \in Conns : alive'[d] => alive[d]
          /\ \A d \in Conns : thread'[d] = "new" => thread[d] = "new" /\ d # c
          /\ \A d \in Conns : d # c => member'[d] = member[d]
          /\ member'[c] = member[c] \/ (peer' = c /\ member'[c] = session)
          /\ session # None /\ UNCHANGED <<opened, session>>
      BY <1>0, <1>b, <2>7 DEF Hello, Handles, MayFail
    <3> QED BY <1>0, <3>1, <3>2 DEF MembersKnown, LiveContestant
  <2>8. ASSUME NEW rev \in Revisions, TargetAck(c, rev) PROVE MembersKnown' /\ LiveContestant'
    BY <1>0, <1>a, <1>b, <2>8 DEF TargetAck, Handles, MayFail
  <2>9. ASSUME NEW m \in ResultMessages, ResultNew(c, m) PROVE MembersKnown' /\ LiveContestant'
    BY <1>0, <1>a, <1>b, <2>9 DEF ResultNew, Handles, MayFail
  <2>10. ASSUME NEW m \in ResultMessages, ResultAgain(c, m) PROVE MembersKnown' /\ LiveContestant'
    BY <1>0, <1>a, <1>b, <2>10 DEF ResultAgain, Handles, MayFail
  <2> QED BY <1>8, <2>1, <2>2, <2>3, <2>4, <2>5, <2>6, <2>7, <2>8, <2>9, <2>10 DEF Thread
<1>9. ASSUME NEW r \in Rounds, TimePasses(r) PROVE MembersKnown' /\ LiveContestant'
  BY <1>a, <1>9 DEF TimePasses
<1>10. CASE Tick
  BY <1>a, <1>b, <1>10 DEF Tick, MayFail
<1>11. CASE WebError \/ Fail \/ BeginClose
  BY <1>a, <1>b, <1>11 DEF WebError, Fail, BeginClose
<1>12. CASE CloseSession
  <2>1. \A x \in Sessions : opened[x] # None => opened'[x] # None
    BY <1>0, <1>12 DEF CloseSession
  <2> QED BY <1>0, <1>12, <2>1 DEF CloseSession, MembersKnown, LiveContestant
<1>13. CASE ProcessEnds
  BY <1>0, <1>13 DEF ProcessEnds, MembersKnown, LiveContestant
<1>14. CASE Recover
  <2>1. \A x \in Sessions : opened[x] # None => opened'[x] # None
    BY <1>0, <1>14 DEF Recover
  <2> QED BY <1>0, <1>14, <2>1 DEF Recover, MembersKnown, LiveContestant
<1>15. CASE UNCHANGED vars
  BY <1>a, <1>15 DEF vars
<1> QED BY <1>1, <1>2, <1>3, <1>4, <1>5, <1>6, <1>7, <1>8, <1>9, <1>10, <1>11, <1>12, <1>13,
           <1>14, <1>15 DEF Next, Command

-----------------------------------------------------------------------------
(* Sessions                                                                *)

OpenSessions == {s \in Sessions : opened[s] = "OPEN"}

(* A process that is down has no memory and no threads. While no error of a command is on *)
(* its way, the open session is the one in memory.                         *)
SessionsAgree ==
    /\ \E s : OpenSessions \subseteq {s}
    /\ process # "down" => OpenSessions \subseteq {session}
    /\ process = "up" /\ ~fatal /\ "web" \notin failing => OpenSessions = {session} \ {None}
    /\ process = "down" => /\ session = None /\ active = 0 /\ ~fatal /\ failing = {}
                           /\ \A c \in Conns : thread[c] \in {"new", "done"}

(* A session is opened after the old one was closed, by a command that     *)
(* knew the open one.                                                      *)
LEMMA SessionsStep == Types /\ SessionsAgree /\ [Next]_vars => SessionsAgree'
<1> SUFFICES ASSUME Types, SessionsAgree, [Next]_vars PROVE SessionsAgree'
  OBVIOUS
<1> USE RefereeConstants
<1>0. /\ opened \in [Sessions -> {None, "OPEN", "CLOSED", "INTERRUPTED"}]
      /\ session \in Sessions \cup {None} /\ process \in {"up", "closing", "down"}
      /\ fatal \in BOOLEAN
  BY DEF Types, TypeOK
(* What most steps do: sessions and process stay, errors come or become    *)
(* fatal.                                                                  *)
<1>a. ASSUME UNCHANGED <<opened, process, session>>,
             process # "down" \/ UNCHANGED <<active, errors, thread>>,
             fatal => fatal', "web" \in failing => "web" \in failing' \/ fatal'
      PROVE  SessionsAgree'
  BY <1>a DEF SessionsAgree, OpenSessions, errors
(* What can be said of a process in which a session was open               *)
<1>b. ASSUME process # "down", process' = process, OpenSessions' \subseteq {session'},
             process = "up" => \/ "web" \in failing' \/ fatal'
                               \/ OpenSessions' = {session'} \ {None}
      PROVE  SessionsAgree'
  BY <1>b DEF SessionsAgree
<1>c. process = "down" => active = 0 /\ session = None /\ ~fatal /\ failing = {}
  BY DEF SessionsAgree
<1> USE DEF tables, engine, errors, peers
<1>1. ASSUME NEW s \in Sessions, NewSession(s) PROVE SessionsAgree'
  <2>1. /\ process = "up" /\ process' = process
        /\ OpenSessions = {session} \ {None}
    BY <1>1 DEF NewSession, Commanding, SessionsAgree
  <2> DEFINE closed == IF session = None THEN opened ELSE [opened EXCEPT ![session] = "CLOSED"]
  <2>2. /\ closed \in [Sessions -> {None, "OPEN", "CLOSED", "INTERRUPTED"}]
        /\ \A x \in Sessions : closed[x] # "OPEN"
    BY <1>0, <2>1 DEF OpenSessions
  <2>3. \/ opened' = closed /\ "web" \in failing'
        \/ opened' = [closed EXCEPT ![s] = "OPEN"] /\ session' = s
    BY <1>1 DEF NewSession, FailsLater
  <2> HIDE DEF closed
  <2>4. \/ OpenSessions' = {} /\ "web" \in failing'
        \/ OpenSessions' = {s} /\ session' = s
    BY <2>2, <2>3 DEF OpenSessions
  <2> QED BY <1>b, <2>1, <2>4
<1>2. CASE SetTarget
  BY <1>a, <1>c, <1>2 DEF SetTarget, MayFailLater, Commanding
<1>3. ASSUME NEW timed \in BOOLEAN, StartRound(timed) PROVE SessionsAgree'
  BY <1>a, <1>c, <1>3 DEF StartRound, MayFailLater, FailsLater, Commanding
<1>4. ASSUME NEW status, CancelRound(status) PROVE SessionsAgree'
  BY <1>a, <1>c, <1>4 DEF CancelRound, MayFailLater, Commanding
<1>5. CASE EndSession
  <2>1. /\ process = "up" /\ process' = process /\ session # None
        /\ OpenSessions = {session}
    BY <1>5 DEF EndSession, Commanding, SessionsAgree
  <2>2. OpenSessions' = {}
    BY <1>0, <1>5, <2>1 DEF EndSession, OpenSessions
  <2>3. "web" \in failing' \/ session' = None
    BY <1>5 DEF EndSession, FailsLater
  <2> QED BY <1>b, <2>1, <2>2, <2>3
<1>6. CASE StartListener
  BY <1>a, <1>6 DEF StartListener
<1>7. CASE StopListener
  <2>1. UNCHANGED <<opened, process, session>> /\ fatal' = fatal
    BY <1>7 DEF StopListener, MayFailLater, FailsLater
  <2>2. process # "down" /\ "web" \notin failing
    BY <1>7 DEF StopListener
  <2> QED BY <1>a, <2>1, <2>2
<1>8. ASSUME NEW c \in Conns, Thread(c) PROVE SessionsAgree'
  <2>1. process # "down"
    BY <1>8 DEF SessionsAgree, Thread, Connect, TakeFrame, LoopEnds, ThreadEnds, ReceiveFatal,
         ReceiveOther, Hello, TargetAck, ResultNew, ResultAgain, Handles
  <2>2. UNCHANGED <<opened, process, session>>
    BY <1>8 DEF Thread, Connect, TakeFrame, LoopEnds, ThreadEnds, ReceiveFatal, ReceiveOther,
         Hello, TargetAck, ResultNew, ResultAgain
  <2>3. (fatal => fatal') /\ failing \subseteq failing'
    <3>1. ASSUME MayFailLater("peer") PROVE (fatal => fatal') /\ failing \subseteq failing'
      BY <3>1 DEF MayFailLater
    <3>2. ASSUME NEW S, NEW p, MayFail(S, p) PROVE (fatal => fatal') /\ failing \subseteq failing'
      BY <3>2 DEF MayFail
    <3>3. CASE Connect(c) \/ TakeFrame(c) \/ LoopEnds(c)
      BY <3>1, <3>3 DEF Connect, TakeFrame, LoopEnds
    <3>4. CASE ThreadEnds(c)
      BY <3>1, <3>4 DEF ThreadEnds, FailsLater
    <3>5. CASE ReceiveFatal(c) \/ Hello(c)
      BY <3>2, <3>5 DEF ReceiveFatal, Hello
    <3>6. CASE ReceiveOther(c)
      BY <3>1, <3>2, <3>6 DEF ReceiveOther, FailsLater
    <3>7. ASSUME NEW rev, TargetAck(c, rev) PROVE (fatal => fatal') /\ failing \subseteq failing'
      BY <3>2, <3>7 DEF TargetAck
    <3>8. ASSUME NEW m, ResultNew(c, m) \/ ResultAgain(c, m)
          PROVE  (fatal => fatal') /\ failing \subseteq failing'
      BY <3>2, <3>8 DEF ResultNew, ResultAgain
    <3> QED BY <1>8, <3>3, <3>4, <3>5, <3>6, <3>7, <3>8 DEF Thread
  <2> QED BY <1>a, <2>1, <2>2, <2>3
<1>9. ASSUME NEW r \in Rounds, TimePasses(r) PROVE SessionsAgree'
  BY <1>a, <1>9 DEF TimePasses
<1>10. CASE Tick
  BY <1>a, <1>c, <1>10 DEF Tick, MayFail
<1>11. CASE WebError \/ Fail
  BY <1>a, <1>c, <1>11 DEF WebError, Fail, Commanding, FailsLater
<1>12. CASE BeginClose
  BY <1>12 DEF BeginClose, SessionsAgree, OpenSessions
<1>13. CASE CloseSession
  <2>1. OpenSessions' \subseteq OpenSessions
    BY <1>0, <1>13 DEF CloseSession, OpenSessions
  <2> QED BY <1>b, <1>13, <2>1 DEF CloseSession, SessionsAgree
<1>14. CASE ProcessEnds
  BY <1>14 DEF ProcessEnds, SessionsAgree, OpenSessions
<1>15. CASE Recover
  <2>1. OpenSessions' = {}
    BY <1>0, <1>15 DEF Recover, Interrupts, OpenSessions
  <2> QED BY <1>c, <1>15, <2>1 DEF Recover, SessionsAgree
<1>16. CASE UNCHANGED vars
  BY <1>a, <1>16 DEF vars
<1> QED BY <1>1, <1>2, <1>3, <1>4, <1>5, <1>6, <1>7, <1>8, <1>9, <1>10, <1>11, <1>12, <1>13,
           <1>14, <1>15, <1>16 DEF Next, Command

-----------------------------------------------------------------------------
(* Rounds                                                                  *)

WaitingRounds == {r \in Rounds : rounds[r].status = "WAITING"}

(* A round that waits has no verdict and belongs to an open session, so    *)
(* that the next process finds it; there is never a second one, not even   *)
(* in the tables a dead process has left.                                  *)
WaitingHasSession ==
    /\ \A r, q \in WaitingRounds : r = q
    /\ \A r \in WaitingRounds : rounds[r].actual = None /\ opened[rounds[r].session] = "OPEN"

(* What a step does to the tables of rounds and receipts: nothing          *)
Ledgers == <<rounds, receipts, acked>>
LeavesRounds ==
    /\ UNCHANGED Ledgers
    /\ \/ process # "down" /\ process' # "down" /\ active = 0 /\ active' = 0
       \/ UNCHANGED <<opened, session, revision, active, started>> /\ (process' # "down" => process # "down")
       \/ process # "down" /\ process' = "down" /\ UNCHANGED opened
(* or the active round ends without a verdict                              *)
EndsActive ==
    /\ process # "down" /\ process' = process /\ active # 0 /\ active' = 0
    /\ \E status \in {"CANCELLED", "INTERRUPTED", "TIMEOUT"} :
          SetStatus(active, status) /\ (status = "TIMEOUT" => Overdue(active))
    /\ UNCHANGED <<receipts, acked>>

(* Every step does one of five things to rounds and receipts.              *)
LEMMA RoundSteps ==
    Types /\ SessionsAgree /\ [Next]_vars =>
        \/ LeavesRounds \/ EndsActive \/ Recover
        \/ \E timed \in BOOLEAN : StartRound(timed)
        \/ \E c \in Conns, m \in ResultMessages : ResultNew(c, m) \/ ResultAgain(c, m)
<1> SUFFICES ASSUME Types, SessionsAgree, [Next]_vars,
                    ~ \E timed \in BOOLEAN : StartRound(timed),
                    ~ \E c \in Conns, m \in ResultMessages : ResultNew(c, m) \/ ResultAgain(c, m),
                    ~ Recover
             PROVE  LeavesRounds \/ EndsActive
  OBVIOUS
<1> USE DEF tables, engine, errors, peers, Ledgers
<1>1. CASE \/ \E s \in Sessions : NewSession(s)
           \/ SetTarget
           \/ EndSession
  BY <1>1 DEF NewSession, SetTarget, EndSession, Commanding, TargetFree, LeavesRounds
<1>2. ASSUME NEW status, CancelRound(status) PROVE EndsActive
  BY <1>2 DEF CancelRound, Commanding, EndStatus, EndsActive
<1>3. CASE StartListener \/ WebError \/ Fail \/ BeginClose \/ UNCHANGED vars
  BY <1>3 DEF StartListener, WebError, Fail, BeginClose, Commanding, LeavesRounds, vars
<1>4. CASE StopListener
  <2>1. process # "down" /\ process' = process /\ UNCHANGED <<receipts, acked, opened, session, revision, started>>
    BY <1>4 DEF StopListener
  <2>2. \/ active # 0 /\ active' = 0 /\ SetStatus(active, "INTERRUPTED")
        \/ UNCHANGED <<rounds, active>>
    BY <1>4 DEF StopListener, EndsRound
  <2> QED BY <2>1, <2>2 DEF LeavesRounds, EndsActive
<1>5. ASSUME NEW c \in Conns, Thread(c) PROVE LeavesRounds
  <2>1. \/ Connect(c) \/ TakeFrame(c) \/ LoopEnds(c) \/ ThreadEnds(c)
        \/ ReceiveFatal(c) \/ ReceiveOther(c) \/ Hello(c)
        \/ \E rev \in Revisions : TargetAck(c, rev)
    BY <1>5 DEF Thread
  <2> QED BY <2>1 DEF Connect, TakeFrame, LoopEnds, ThreadEnds, ReceiveFatal, ReceiveOther,
           Hello, TargetAck, LeavesRounds
<1>6. ASSUME NEW r, TimePasses(r) PROVE LeavesRounds
  BY <1>6 DEF TimePasses, LeavesRounds
<1>7. CASE Tick
  <2>1. process # "down"
    BY <1>7 DEF Tick, SessionsAgree
  <2> QED BY <1>7, <2>1 DEF Tick, LeavesRounds, EndsActive
<1>8. CASE CloseSession
  <2>1. process # "down" /\ process' = process /\ UNCHANGED <<receipts, acked>>
    BY <1>8 DEF CloseSession
  <2>2. \/ active # 0 /\ active' = 0 /\ SetStatus(active, "INTERRUPTED")
        \/ active = 0 /\ UNCHANGED <<rounds, active>>
    BY <1>8 DEF CloseSession
  <2> QED BY <2>1, <2>2 DEF LeavesRounds, EndsActive
<1>9. CASE ProcessEnds
  BY <1>9 DEF ProcessEnds, LeavesRounds
<1> QED BY <1>1, <1>2, <1>3, <1>4, <1>5, <1>6, <1>7, <1>8, <1>9 DEF Next, Command, Thread

(* What the end of the active round makes of each round                    *)
LEMMA ActiveEnded ==
    ASSUME Types, EndsActive
    PROVE  /\ active \in Rounds /\ DOMAIN rounds' = Rounds
           /\ \A r \in Rounds \ {active} : rounds'[r] = rounds[r]
           /\ rounds'[active].status \in {"CANCELLED", "INTERRUPTED", "TIMEOUT"}
           /\ rounds'[active].status = "TIMEOUT" => Overdue(active)
           /\ rounds'[active].actual = rounds[active].actual
           /\ rounds'[active].session = rounds[active].session
           /\ rounds'[active].timed = rounds[active].timed
<1>1. rounds \in Seq(Row)
  BY DEF Types, TypeOK, Row
<1>2. active \in Rounds
  BY DEF EndsActive, Types, TypeOK
<1>3. rounds[active] \in Row
  BY <1>1, <1>2 DEF Rounds
<1>4. PICK status \in {"CANCELLED", "INTERRUPTED", "TIMEOUT"} :
           /\ rounds' = [rounds EXCEPT ![active].status = status]
           /\ status = "TIMEOUT" => Overdue(active)
  BY DEF EndsActive, SetStatus
<1> QED BY <1>1, <1>2, <1>3, <1>4 DEF Rounds, Row

(* What the other steps make of each round                                 *)
LEMMA RoundsAfter ==
    ASSUME Types
    PROVE  /\ \A r \in Rounds : rounds[r] \in Row
           /\ \A timed \in BOOLEAN : StartRound(timed) =>
                 /\ DOMAIN rounds' = Rounds \cup {Len(rounds) + 1}
                 /\ Len(rounds) + 1 \notin Rounds /\ Len(rounds) + 1 # 0
                 /\ \A r \in Rounds : rounds'[r] = rounds[r]
                 /\ \E status \in {"WAITING", "INTERRUPTED"} :
                       /\ rounds' = Append(rounds, rounds'[Len(rounds) + 1])
                       /\ rounds'[Len(rounds) + 1] =
                            [session |-> session, revision |-> revision, timed |-> timed,
                             status |-> status, actual |-> None]
                       /\ active' = IF status = "WAITING" THEN Len(rounds) + 1 ELSE 0
           /\ \A c \in Conns, m \in ResultMessages : ResultNew(c, m) =>
                 /\ m.round \in Rounds /\ DOMAIN rounds' = Rounds
                 /\ \A r \in Rounds \ {m.round} : rounds'[r] = rounds[r]
                 /\ rounds'[m.round].status \in {"LATE", "RECEIVED"}
                 /\ Late(m.round) <=> rounds'[m.round].status = "LATE"
                 /\ rounds'[m.round].actual = m.verdict
                 /\ rounds'[m.round].session = rounds[m.round].session
                 /\ rounds'[m.round].session = session
           /\ Recover => /\ DOMAIN rounds' = Rounds
                         /\ \A r \in Rounds :
                              /\ rounds'[r].actual = rounds[r].actual
                              /\ rounds'[r].session = rounds[r].session
                              /\ \/ rounds'[r] = rounds[r]
                                 \/ rounds'[r].status = "INTERRUPTED" /\ rounds[r].status = "WAITING"
<1> USE RefereeConstants
<1>1. rounds \in Seq(Row) /\ Len(rounds) \in Nat /\ Rounds = 1 .. Len(rounds)
  <2>1. rounds \in Seq(Row)
    BY DEF Types, TypeOK, Row
  <2> QED BY <2>1 DEF Rounds
<1>2. \A r \in Rounds : rounds[r] \in Row
  BY <1>1
<1>4. ASSUME NEW timed \in BOOLEAN, StartRound(timed)
      PROVE  /\ DOMAIN rounds' = Rounds \cup {Len(rounds) + 1}
             /\ Len(rounds) + 1 \notin Rounds /\ Len(rounds) + 1 # 0
             /\ \A r \in Rounds : rounds'[r] = rounds[r]
             /\ \E status \in {"WAITING", "INTERRUPTED"} :
                   /\ rounds' = Append(rounds, rounds'[Len(rounds) + 1])
                   /\ rounds'[Len(rounds) + 1] =
                        [session |-> session, revision |-> revision, timed |-> timed,
                         status |-> status, actual |-> None]
                   /\ active' = IF status = "WAITING" THEN Len(rounds) + 1 ELSE 0
  <2> DEFINE row(status) == [session |-> session, revision |-> revision, timed |-> timed,
                             status |-> status, actual |-> None]
  <2>1. PICK status \in {"WAITING", "INTERRUPTED"} :
             /\ rounds' = Append(rounds, row(status))
             /\ active' = IF status = "WAITING" THEN Len(rounds) + 1 ELSE 0
    BY <1>4 DEF StartRound
  <2>2. row(status) \in Row
    BY <1>4 DEF StartRound, Types, TypeOK, Row, Statuses
  <2>3. /\ DOMAIN rounds' = Rounds \cup {Len(rounds) + 1}
        /\ Len(rounds) + 1 \notin Rounds
        /\ \A r \in Rounds : rounds'[r] = rounds[r]
        /\ rounds'[Len(rounds) + 1] = row(status)
    <3> HIDE DEF row
    <3> QED BY <1>1, <2>1, <2>2, Appending DEF Rounds
  <2> QED BY <1>1, <2>1, <2>3
<1>5. ASSUME NEW c \in Conns, NEW m \in ResultMessages, ResultNew(c, m)
      PROVE  /\ m.round \in Rounds /\ DOMAIN rounds' = Rounds
             /\ \A r \in Rounds \ {m.round} : rounds'[r] = rounds[r]
             /\ rounds'[m.round].status \in {"LATE", "RECEIVED"}
             /\ Late(m.round) <=> rounds'[m.round].status = "LATE"
             /\ rounds'[m.round].actual = m.verdict
             /\ rounds'[m.round].session = rounds[m.round].session
             /\ rounds'[m.round].session = session
  <2> DEFINE status == IF Late(m.round) THEN "LATE" ELSE "RECEIVED"
  <2>1. /\ rounds' = [rounds EXCEPT ![m.round].actual = m.verdict, ![m.round].status = status]
        /\ m.round \in Rounds /\ rounds[m.round].session = session
    BY <1>5 DEF ResultNew, Accepts
  <2>2. rounds[m.round] \in Row
    BY <1>2, <2>1
  <2>3. status \in {"LATE", "RECEIVED"} /\ (Late(m.round) <=> status = "LATE")
    OBVIOUS
  <2> HIDE DEF status
  <2> QED BY <1>1, <2>1, <2>2, <2>3 DEF Rounds, Row
<1>6. ASSUME Recover
      PROVE  /\ DOMAIN rounds' = Rounds
             /\ \A r \in Rounds :
                  /\ rounds'[r].actual = rounds[r].actual
                  /\ rounds'[r].session = rounds[r].session
                  /\ \/ rounds'[r] = rounds[r]
                     \/ rounds'[r].status = "INTERRUPTED" /\ rounds[r].status = "WAITING"
  <2>1. DOMAIN rounds' = Rounds
    BY <1>6 DEF Recover
  <2>2. ASSUME NEW r \in Rounds
        PROVE  \/ rounds'[r] = rounds[r]
               \/ /\ rounds[r].status = "WAITING"
                  /\ rounds'[r] = [rounds[r] EXCEPT !.status = "INTERRUPTED"]
    BY <1>6 DEF Recover
  <2> QED BY <1>2, <2>1, <2>2 DEF Row
<1> QED BY <1>2, <1>4, <1>5, <1>6

(* The waiting round of the table follows the engine's active round.       *)
LEMMA RoundsStep ==
    Types /\ SessionsAgree /\ WaitingHasSession /\ ActiveIsWaiting /\ [Next]_vars
        => (WaitingHasSession /\ ActiveIsWaiting)'
<1> SUFFICES ASSUME Types, SessionsAgree, WaitingHasSession, ActiveIsWaiting, [Next]_vars
             PROVE  WaitingHasSession' /\ ActiveIsWaiting'
  OBVIOUS
<1> USE RefereeConstants
<1>0. /\ active \in Rounds \cup {0} /\ 0 \notin Rounds /\ process \in {"up", "closing", "down"}
      /\ session \in Sessions \cup {None}
      /\ \A r \in Rounds : rounds[r] \in Row
  <2>1. rounds \in Seq(Row)
    BY DEF Types, TypeOK, Row
  <2> QED BY <2>1 DEF Types, TypeOK, Rounds
<1>1. process # "down" => WaitingRounds = {active} \ {0}
  BY DEF ActiveIsWaiting, WaitingRounds
<1>2. (process' # "down" => WaitingRounds' = {active'} \ {0}
          /\ (active' # 0 => rounds'[active'].session = session' /\ rounds'[active'].revision = revision'
                             /\ active' \in started'))
        => ActiveIsWaiting'
  BY DEF ActiveIsWaiting, WaitingRounds
<1>3. CASE LeavesRounds
  <2>1. WaitingRounds' = WaitingRounds
    BY <1>3 DEF LeavesRounds, Ledgers, WaitingRounds, Rounds
  <2>2. CASE process # "down" /\ process' # "down" /\ active = 0 /\ active' = 0
    BY <1>1, <1>2, <2>1, <2>2 DEF WaitingHasSession
  <2>3. CASE UNCHANGED <<opened, session, revision, active, started>> /\ (process' # "down" => process # "down")
    BY <1>1, <1>2, <1>3, <2>1, <2>3 DEF LeavesRounds, Ledgers, WaitingHasSession, ActiveIsWaiting
  <2>4. CASE process # "down" /\ process' = "down" /\ UNCHANGED opened
    BY <1>2, <1>3, <2>1, <2>4 DEF LeavesRounds, Ledgers, WaitingHasSession
  <2> QED BY <1>3, <2>2, <2>3, <2>4 DEF LeavesRounds
<1>4. CASE EndsActive
  <2>1. /\ process # "down" /\ active' = 0
        /\ DOMAIN rounds' = Rounds /\ \A r \in Rounds \ {active} : rounds'[r] = rounds[r]
        /\ active \in Rounds /\ rounds'[active].status # "WAITING"
    BY <1>4, ActiveEnded DEF EndsActive
  <2>2. WaitingRounds' = {}
    BY <1>1, <2>1 DEF WaitingRounds, Rounds
  <2> QED BY <1>2, <2>1, <2>2 DEF WaitingHasSession
<1>5. ASSUME NEW timed \in BOOLEAN, StartRound(timed) PROVE WaitingHasSession' /\ ActiveIsWaiting'
  <2>1. PICK status \in {"WAITING", "INTERRUPTED"} :
             /\ rounds'[Len(rounds) + 1] =
                  [session |-> session, revision |-> revision, timed |-> timed,
                   status |-> status, actual |-> None]
             /\ active' = IF status = "WAITING" THEN Len(rounds) + 1 ELSE 0
    BY <1>5, RoundsAfter
  <2>2. /\ DOMAIN rounds' = Rounds \cup {Len(rounds) + 1}
        /\ Len(rounds) + 1 \notin Rounds /\ Len(rounds) + 1 # 0
        /\ \A r \in Rounds : rounds'[r] = rounds[r]
    BY <1>5, RoundsAfter
  <2>3. /\ WaitingRounds = {} /\ session # None /\ UNCHANGED <<opened, session, revision>>
        /\ started' = started \cup {Len(rounds) + 1} /\ opened[session] = "OPEN"
    BY <1>0, <1>1, <1>5 DEF StartRound, Commanding, SessionsAgree, OpenSessions, engine
  <2>4. WaitingRounds' = {active'} \ {0}
    BY <2>1, <2>2, <2>3 DEF WaitingRounds, Rounds
  <2>5. active' # 0 => /\ active' = Len(rounds) + 1 /\ rounds'[active'].session = session
                       /\ rounds'[active'].revision = revision /\ rounds'[active'].actual = None
    BY <2>1
  <2> QED BY <1>2, <2>3, <2>4, <2>5 DEF WaitingHasSession
<1>6. ASSUME NEW c \in Conns, NEW m \in ResultMessages, ResultNew(c, m)
      PROVE  WaitingHasSession' /\ ActiveIsWaiting'
  <2>1. /\ m.round \in Rounds /\ DOMAIN rounds' = Rounds
        /\ \A r \in Rounds \ {m.round} : rounds'[r] = rounds[r]
        /\ rounds'[m.round].status # "WAITING"
    BY <1>6, RoundsAfter
  <2>2. /\ UNCHANGED <<opened, session, revision, started, process>>
        /\ active' = IF active = m.round THEN 0 ELSE active
    BY <1>6 DEF ResultNew
  <2>3. WaitingRounds' = WaitingRounds \ {m.round}
    BY <2>1 DEF WaitingRounds, Rounds
  <2>4. WaitingHasSession'
    BY <2>1, <2>2, <2>3 DEF WaitingHasSession, WaitingRounds
  <2>5. ActiveIsWaiting'
    BY <1>0, <1>1, <1>2, <2>1, <2>2, <2>3 DEF ActiveIsWaiting
  <2> QED BY <2>4, <2>5
<1>7. ASSUME NEW c \in Conns, NEW m \in ResultMessages, ResultAgain(c, m)
      PROVE  WaitingHasSession' /\ ActiveIsWaiting'
  BY <1>7 DEF ResultAgain, engine, WaitingHasSession, ActiveIsWaiting, WaitingRounds, Rounds
<1>8. CASE Recover
  <2>1. /\ DOMAIN rounds' = Rounds /\ \A r \in Rounds : rounds'[r].session = rounds[r].session
        /\ \A r \in Rounds : rounds'[r] = rounds[r] \/ rounds'[r].status = "INTERRUPTED"
    BY <1>8, RoundsAfter
  <2>2. active' = 0
    BY <1>8 DEF Recover, SessionsAgree, engine
  <2>3. \A r \in WaitingRounds : rounds'[r].status # "WAITING"
    BY <1>0, <1>8 DEF Recover, Interrupts, WaitingHasSession, WaitingRounds, Row
  <2>4. WaitingRounds' = {}
    BY <2>1, <2>3 DEF WaitingRounds, Rounds
  <2> QED BY <1>2, <2>2, <2>4 DEF WaitingHasSession
<1> QED BY <1>3, <1>4, <1>5, <1>6, <1>7, <1>8, RoundSteps

(* A round that missed its limit has passed it for as long as the engine   *)
(* remembers the round: its answer will be late.                           *)
TimeoutIsOverdue == \A r \in started : rounds[r].status = "TIMEOUT" => Overdue(r)

(* A limit that has passed is forgotten only with the rounds themselves.   *)
LEMMA TimeGoesOn ==
    [Next]_vars => \/ started' = {}
                   \/ started' = started /\ expired \subseteq expired'
                   \/ started' = started \cup {Len(rounds) + 1} /\ expired' = expired
                      /\ \E timed \in BOOLEAN : StartRound(timed)
<1> SUFFICES ASSUME [Next]_vars, ~ \E timed \in BOOLEAN : StartRound(timed)
             PROVE  started' = {} \/ (started' = started /\ expired \subseteq expired')
  BY DEF StartRound
<1> USE DEF tables, engine, errors, peers
<1>1. CASE Command
  <2>1. CASE \E s \in Sessions : NewSession(s)
    BY <2>1 DEF NewSession
  <2>2. CASE SetTarget \/ EndSession \/ StartListener \/ StopListener
    BY <2>2 DEF SetTarget, EndSession, StartListener, StopListener
  <2>3. ASSUME NEW status, CancelRound(status) PROVE started' = started /\ expired' = expired
    BY <2>3 DEF CancelRound
  <2> QED BY <1>1, <2>1, <2>2, <2>3 DEF Command
<1>2. ASSUME NEW c \in Conns, Thread(c) PROVE started' = started /\ expired' = expired
  <2>1. CASE \/ Connect(c) \/ TakeFrame(c) \/ LoopEnds(c) \/ ThreadEnds(c)
             \/ ReceiveFatal(c) \/ ReceiveOther(c) \/ Hello(c)
    BY <2>1 DEF Connect, TakeFrame, LoopEnds, ThreadEnds, ReceiveFatal, ReceiveOther, Hello
  <2>2. ASSUME NEW rev, TargetAck(c, rev) PROVE started' = started /\ expired' = expired
    BY <2>2 DEF TargetAck
  <2>3. ASSUME NEW m, ResultNew(c, m) \/ ResultAgain(c, m) PROVE started' = started /\ expired' = expired
    BY <2>3 DEF ResultNew, ResultAgain
  <2> QED BY <1>2, <2>1, <2>2, <2>3 DEF Thread
<1>3. ASSUME NEW r, TimePasses(r) PROVE started' = started /\ expired \subseteq expired'
  BY <1>3 DEF TimePasses
<1>4. CASE Tick \/ WebError \/ Fail \/ BeginClose \/ CloseSession \/ ProcessEnds \/ Recover \/ UNCHANGED vars
  BY <1>4 DEF Tick, WebError, Fail, BeginClose, CloseSession, ProcessEnds, Recover, vars
<1> QED BY <1>1, <1>2, <1>3, <1>4 DEF Next

(* Only the timer makes a TIMEOUT, and only when the limit has passed.     *)
LEMMA TimeoutStep == Types /\ SessionsAgree /\ TimeoutIsOverdue /\ [Next]_vars => TimeoutIsOverdue'
<1> SUFFICES ASSUME Types, SessionsAgree, TimeoutIsOverdue, [Next]_vars, started' # {}
             PROVE  TimeoutIsOverdue'
  BY DEF TimeoutIsOverdue
<1>0. started \subseteq Rounds
  BY DEF Types, TypeOK
<1>1. ASSUME NEW r \in started, NEW t \in started', r = t, expired \subseteq expired',
             rounds'[r] = rounds[r] \/ rounds'[r].status # "TIMEOUT"
                \/ (Overdue(r) /\ rounds'[r].timed = rounds[r].timed)
      PROVE  rounds'[r].status = "TIMEOUT" => Overdue(r)'
  BY <1>1 DEF TimeoutIsOverdue, Overdue
<1>2. CASE LeavesRounds
  <2>1. (started' = started /\ expired \subseteq expired') \/ \E timed \in BOOLEAN : StartRound(timed)
    BY TimeGoesOn
  <2>2. CASE started' = started /\ expired \subseteq expired'
    BY <1>1, <1>2, <2>2 DEF LeavesRounds, Ledgers, TimeoutIsOverdue
  <2>3. ASSUME NEW timed \in BOOLEAN, StartRound(timed) PROVE FALSE
    BY <1>2, <2>3, RoundsAfter DEF LeavesRounds, Ledgers, Rounds
  <2> QED BY <2>1, <2>2, <2>3
<1>3. ASSUME NEW timed \in BOOLEAN, StartRound(timed) PROVE TimeoutIsOverdue'
  <2>1. /\ started' = started \cup {Len(rounds) + 1} /\ expired' = expired
        /\ \A r \in Rounds : rounds'[r] = rounds[r]
    BY <1>3, RoundsAfter DEF StartRound
  <2>2. rounds'[Len(rounds) + 1].status # "TIMEOUT"
    <3>1. PICK status \in {"WAITING", "INTERRUPTED"} :
               rounds'[Len(rounds) + 1] = [session |-> session, revision |-> revision, timed |-> timed,
                                           status |-> status, actual |-> None]
      BY <1>3, RoundsAfter
    <3> QED BY <3>1
  <2> QED BY <1>0, <1>1, <2>1, <2>2 DEF TimeoutIsOverdue
<1>4. ASSUME ~ \E timed \in BOOLEAN : StartRound(timed),
             \A r \in Rounds : rounds'[r] = rounds[r] \/ rounds'[r].status # "TIMEOUT"
                                \/ (Overdue(r) /\ rounds'[r].timed = rounds[r].timed)
      PROVE  TimeoutIsOverdue'
  <2>1. started' = started /\ expired \subseteq expired'
    BY <1>4, TimeGoesOn
  <2>2. \A r \in started' : rounds'[r].status = "TIMEOUT" => Overdue(r)'
    BY <1>0, <1>1, <1>4, <2>1
  <2> QED BY <2>2 DEF TimeoutIsOverdue
<1>5. CASE EndsActive
  <2>1. active \in Rounds /\ DOMAIN rounds' = Rounds
    BY <1>5, ActiveEnded
  <2>2. \A timed \in BOOLEAN : ~ StartRound(timed)
    BY <2>1, RoundsAfter
  <2>3. ASSUME NEW r \in Rounds
        PROVE  \/ rounds'[r] = rounds[r] \/ rounds'[r].status # "TIMEOUT"
               \/ Overdue(r) /\ rounds'[r].timed = rounds[r].timed
    BY <1>5, ActiveEnded
  <2> QED BY <1>4, <2>2, <2>3
<1>6. ASSUME NEW c \in Conns, NEW m \in ResultMessages, ResultNew(c, m) PROVE TimeoutIsOverdue'
  <2>1. /\ m.round \in Rounds /\ DOMAIN rounds' = Rounds
        /\ \A r \in Rounds \ {m.round} : rounds'[r] = rounds[r]
        /\ rounds'[m.round].status \in {"LATE", "RECEIVED"}
    BY <1>6, RoundsAfter
  <2>2. \A timed \in BOOLEAN : ~ StartRound(timed)
    BY <2>1, RoundsAfter
  <2> QED BY <1>4, <2>1, <2>2
<1>7. ASSUME NEW c \in Conns, NEW m \in ResultMessages, ResultAgain(c, m) PROVE TimeoutIsOverdue'
  BY <1>7 DEF ResultAgain, engine, TimeoutIsOverdue, Overdue
<1>8. CASE Recover
  <2>1. DOMAIN rounds' = Rounds /\ \A r \in Rounds : rounds'[r] = rounds[r] \/ rounds'[r].status # "TIMEOUT"
    BY <1>8, RoundsAfter
  <2>2. \A timed \in BOOLEAN : ~ StartRound(timed)
    BY <2>1, RoundsAfter
  <2> QED BY <1>4, <2>1, <2>2
<1> QED BY <1>2, <1>3, <1>5, <1>6, <1>7, <1>8, RoundSteps

(* Without a listener there is no connection, and no round waits unless    *)
(* the engine is fatal.                                                    *)
QuietWithoutListener == ~listening => (\A c \in Conns : ~alive[c]) /\ (active = 0 \/ fatal)

(* The timer thread ends with the listener, after the round.               *)
LEMMA ListenerStep ==
    Types /\ SessionsAgree /\ QuietWithoutListener /\ [Next]_vars => QuietWithoutListener'
<1> SUFFICES ASSUME Types, SessionsAgree, QuietWithoutListener, [Next]_vars, ~listening'
             PROVE  (\A c \in Conns : ~alive'[c]) /\ (active' = 0 \/ fatal')
  BY DEF QuietWithoutListener
<1> USE DEF tables, engine, errors, peers
<1>b. \A dead : Close(dead) => \A c \in Conns : alive'[c] <=> alive[c] /\ c \notin dead
  BY DEF Close
<1>0. peer \in Conns \cup {None} /\ (\A c \in Conns : c # None)
  BY RefereeConstants DEF Types, TypeOK
<1> DEFINE Quiet == (\A c \in Conns : ~alive'[c]) /\ (active' = 0 \/ fatal')
(* What most steps do                                                      *)
<1>a. ASSUME listening' = listening, \A c \in Conns : alive'[c] => alive[c],
             active' = active \/ active' = 0, fatal => fatal'
      PROVE  Quiet
  BY <1>a DEF QuietWithoutListener
<1>1. CASE \E s \in Sessions : NewSession(s)
  BY <1>a, <1>b, <1>1 DEF NewSession, Commanding
<1>2. CASE SetTarget \/ EndSession
  BY <1>a, <1>b, <1>2 DEF SetTarget, EndSession, MayFailLater, FailsLater
<1>3. ASSUME NEW timed, StartRound(timed) PROVE Quiet
  <2>1. Connected /\ listening' = listening
    BY <1>3 DEF StartRound, Ready
  <2> QED BY <1>0, <2>1 DEF Connected, QuietWithoutListener
<1>4. ASSUME NEW status, CancelRound(status) PROVE Quiet
  BY <1>a, <1>b, <1>4 DEF CancelRound, MayFailLater
<1>5. CASE StartListener \/ WebError \/ BeginClose \/ UNCHANGED vars
  BY <1>a, <1>5 DEF StartListener, WebError, FailsLater, BeginClose, vars
<1>6. CASE StopListener
  <2>1. Close(Conns) /\ (active' = 0 \/ (active' = active /\ ~EndsRound)) /\ fatal' = fatal
    BY <1>6 DEF StopListener, MayFailLater
  <2> QED BY <1>b, <2>1 DEF EndsRound
<1>7. ASSUME NEW c \in Conns, Thread(c) PROVE Quiet
  <2>0. ASSUME NEW S, NEW p, MayFail(S, p) PROVE (\A d \in Conns : alive'[d] => alive[d]) /\ (fatal => fatal')
    BY <1>b, <2>0 DEF MayFail
  <2>1. CASE Connect(c)
    BY <2>1 DEF Connect
  <2>2. CASE TakeFrame(c) \/ LoopEnds(c)
    BY <1>a, <1>b, <2>2 DEF TakeFrame, LoopEnds, MayFailLater
  <2>3. CASE ThreadEnds(c)
    BY <1>a, <2>3 DEF ThreadEnds, MayFailLater, FailsLater
  <2>4. CASE ReceiveFatal(c) \/ Hello(c)
    BY <1>a, <1>b, <2>0, <2>4 DEF ReceiveFatal, Hello
  <2>5. CASE ReceiveOther(c)
    BY <1>a, <1>b, <2>0, <2>5 DEF ReceiveOther, MayFailLater, FailsLater
  <2>6. ASSUME NEW rev, TargetAck(c, rev) PROVE Quiet
    BY <1>a, <2>0, <2>6 DEF TargetAck
  <2>7. ASSUME NEW m, ResultNew(c, m) \/ ResultAgain(c, m) PROVE Quiet
    BY <1>a, <2>0, <2>7 DEF ResultNew, ResultAgain
  <2> QED BY <1>7, <2>1, <2>2, <2>3, <2>4, <2>5, <2>6, <2>7 DEF Thread
<1>8. ASSUME NEW r, TimePasses(r) PROVE Quiet
  BY <1>a, <1>8 DEF TimePasses
<1>9. CASE Tick \/ Fail
  BY <1>a, <1>b, <1>9 DEF Tick, Fail, MayFail
<1>10. CASE CloseSession
  BY <1>a, <1>10 DEF CloseSession
<1>11. CASE ProcessEnds \/ Recover
  BY <1>a, <1>11 DEF ProcessEnds, Recover
<1> QED BY <1>1, <1>2, <1>3, <1>4, <1>5, <1>6, <1>7, <1>8, <1>9, <1>10, <1>11 DEF Next, Command

-----------------------------------------------------------------------------
(* Receipts                                                                *)

(* ReceiptsMatch without counting                                          *)
ReceiptsPair ==
    /\ \A x \in receipts :
          /\ x.message.round \in Rounds
          /\ rounds[x.message.round].actual = x.message.verdict
          /\ rounds[x.message.round].session = x.session
    /\ \A x, y \in receipts : x.message.round = y.message.round => x = y
    /\ \A r \in Rounds : rounds[r].actual # None => \E x \in receipts : x.message.round = r
    /\ \A x, y \in receipts : x.session = y.session /\ x.message.msg = y.message.msg => x = y
    /\ acked \subseteq receipts

(* The pairing implies the counted form.                                   *)
LEMMA PairsMatch == Types /\ ReceiptsPair => ReceiptsMatch
<1> SUFFICES ASSUME Types, ReceiptsPair PROVE ReceiptsMatch
  OBVIOUS
<1>1. ASSUME NEW r \in Rounds
      PROVE  Cardinality({x \in receipts : x.message.round = r}) = IF rounds[r].actual = None THEN 0 ELSE 1
  <2> DEFINE of == {x \in receipts : x.message.round = r}
  <2>1. CASE rounds[r].actual = None
    <3>1. of = {}
      BY <2>1, RefereeConstants DEF ReceiptsPair, Types, TypeOK, ResultMessages
    <3> QED BY <2>1, <3>1, FS_EmptySet
  <2>2. CASE rounds[r].actual # None
    <3>1. PICK x \in receipts : x.message.round = r
      BY <2>2 DEF ReceiptsPair
    <3>2. of = {x}
      BY <3>1 DEF ReceiptsPair
    <3> QED BY <2>2, <3>2, FS_Singleton
  <2> QED BY <2>1, <2>2
<1> QED BY <1>1 DEF ReceiptsPair, ReceiptsMatch

(* Receipts are added with the verdict, never otherwise.                   *)
LEMMA ReceiptsStep == Types /\ SessionsAgree /\ ReceiptsPair /\ [Next]_vars => ReceiptsPair'
<1> SUFFICES ASSUME Types, SessionsAgree, ReceiptsPair, [Next]_vars PROVE ReceiptsPair'
  OBVIOUS
<1> USE RefereeConstants
(* Rounds keep their verdicts and sessions; the tables' receipts stay.     *)
<1>1. ASSUME UNCHANGED <<receipts, acked>>, Rounds \subseteq DOMAIN rounds',
             \A r \in Rounds : rounds'[r].actual = rounds[r].actual /\ rounds'[r].session = rounds[r].session,
             \A r \in DOMAIN rounds' \ Rounds : rounds'[r].actual = None
      PROVE  ReceiptsPair'
  BY <1>1 DEF ReceiptsPair, Rounds
<1>2. CASE LeavesRounds
  BY <1>2 DEF LeavesRounds, Ledgers, ReceiptsPair, Rounds
<1>3. CASE EndsActive
  <2>1. UNCHANGED <<receipts, acked>>
    BY <1>3 DEF EndsActive
  <2>2. DOMAIN rounds' = Rounds
    BY <1>3, ActiveEnded
  <2>3. \A r \in Rounds : rounds'[r].actual = rounds[r].actual /\ rounds'[r].session = rounds[r].session
    BY <1>3, ActiveEnded
  <2> QED BY <1>1, <2>1, <2>2, <2>3
<1>4. ASSUME NEW timed \in BOOLEAN, StartRound(timed) PROVE ReceiptsPair'
  <2>1. UNCHANGED <<receipts, acked>>
    BY <1>4 DEF StartRound
  <2>2. \A r \in DOMAIN rounds' \ Rounds : rounds'[r].actual = None
    <3>1. PICK status \in {"WAITING", "INTERRUPTED"} :
               rounds'[Len(rounds) + 1] = [session |-> session, revision |-> revision, timed |-> timed,
                                           status |-> status, actual |-> None]
      BY <1>4, RoundsAfter
    <3>2. DOMAIN rounds' = Rounds \cup {Len(rounds) + 1}
      BY <1>4, RoundsAfter
    <3> QED BY <3>1, <3>2
  <2>3. Rounds \subseteq DOMAIN rounds' /\ \A r \in Rounds : rounds'[r] = rounds[r]
    BY <1>4, RoundsAfter
  <2> QED BY <1>1, <2>1, <2>2, <2>3
<1>5. ASSUME NEW c \in Conns, NEW m \in ResultMessages, ResultNew(c, m) PROVE ReceiptsPair'
  <2> DEFINE new == [session |-> session, message |-> m]
  <2>1. /\ m.round \in Rounds /\ DOMAIN rounds' = Rounds
        /\ \A r \in Rounds \ {m.round} : rounds'[r] = rounds[r]
        /\ rounds'[m.round].actual = m.verdict /\ rounds'[m.round].session = session
    BY <1>5, RoundsAfter
  <2>2. /\ receipts' = receipts \cup {new} /\ acked' \subseteq acked \cup {new}
        /\ rounds[m.round].actual = None
        /\ \A x \in receipts : ~ (x.session = session /\ x.message.msg = m.msg)
    BY <1>5 DEF ResultNew, Accepts, Receipts
  <2>3. \A x \in receipts : x.message.round # m.round
    BY <2>2 DEF ReceiptsPair, Types, TypeOK, ResultMessages
  <2>4. new.session = session /\ new.message = m
    OBVIOUS
  <2> HIDE DEF new
  <2>5. \A x \in receipts' : /\ x.message.round \in DOMAIN rounds'
                             /\ rounds'[x.message.round].actual = x.message.verdict
                             /\ rounds'[x.message.round].session = x.session
    BY <2>1, <2>2, <2>3, <2>4 DEF ReceiptsPair
  <2>6. \A x, y \in receipts' : x.message.round = y.message.round => x = y
    BY <2>2, <2>3, <2>4 DEF ReceiptsPair
  <2>7. \A r \in DOMAIN rounds' : rounds'[r].actual # None => \E x \in receipts' : x.message.round = r
    BY <2>1, <2>2, <2>4 DEF ReceiptsPair
  <2>8. \A x, y \in receipts' : x.session = y.session /\ x.message.msg = y.message.msg => x = y
    BY <2>2, <2>4 DEF ReceiptsPair
  <2> QED BY <2>2, <2>5, <2>6, <2>7, <2>8 DEF ReceiptsPair, Rounds
<1>6. ASSUME NEW c \in Conns, NEW m \in ResultMessages, ResultAgain(c, m) PROVE ReceiptsPair'
  <2>1. [session |-> session, message |-> m] \in receipts
    BY <1>6 DEF ResultAgain, Receipts, Types, TypeOK
  <2>2. /\ UNCHANGED <<rounds, receipts>>
        /\ acked' \subseteq acked \cup {[session |-> session, message |-> m]}
    BY <1>6 DEF ResultAgain
  <2> QED BY <2>1, <2>2 DEF ReceiptsPair, Rounds
<1>7. CASE Recover
  <2>1. UNCHANGED <<receipts, acked>>
    BY <1>7 DEF Recover
  <2> QED BY <1>1, <1>7, <2>1, RoundsAfter
<1> QED BY <1>2, <1>3, <1>4, <1>5, <1>6, <1>7, RoundSteps

-----------------------------------------------------------------------------
(* The invariant                                                           *)

RefereeInv ==
    Types /\ MembersKnown /\ LiveContestant /\ SessionsAgree
          /\ WaitingHasSession /\ ActiveIsWaiting /\ TimeoutIsOverdue
          /\ QuietWithoutListener /\ ReceiptsPair

(* No command, message, time limit, failed write, late callback, crash or  *)
(* recovery (core.py, storage.py, network.py) breaks the invariant.        *)
THEOREM AlwaysRefereeInv == Spec => []RefereeInv
<1>1. Init => RefereeInv
  <2> SUFFICES ASSUME Init PROVE RefereeInv
    OBVIOUS
  <2>1. Rounds = {} /\ WaitingRounds = {} /\ OpenSessions = {}
    BY RefereeConstants DEF Init, Rounds, WaitingRounds, OpenSessions
  <2>2. MembersKnown /\ LiveContestant
    BY DEF Init, MembersKnown, LiveContestant
  <2>3. SessionsAgree
    BY <2>1 DEF Init, SessionsAgree
  <2>4. WaitingHasSession /\ ActiveIsWaiting
    BY <2>1 DEF Init, WaitingHasSession, ActiveIsWaiting, WaitingRounds
  <2>5. ReceiptsPair
    BY <2>1 DEF Init, ReceiptsPair
  <2>6. TimeoutIsOverdue /\ QuietWithoutListener
    BY DEF Init, TimeoutIsOverdue, QuietWithoutListener
  <2> QED BY <2>2, <2>3, <2>4, <2>5, <2>6, InitTypes DEF RefereeInv
<1>2. RefereeInv /\ [Next]_vars => RefereeInv'
  BY TypesStep, ContestantStep, SessionsStep, RoundsStep, TimeoutStep, ListenerStep, ReceiptsStep
     DEF RefereeInv
<1> QED BY <1>1, <1>2, PTL DEF Spec

(* Every table and every field of the engine keeps its type; the active    *)
(* and the timed rounds exist.                                             *)
THEOREM TypeCorrect == Spec => []TypeOK
<1>1. RefereeInv => TypeOK
  BY DEF RefereeInv, Types
<1> QED BY <1>1, AlwaysRefereeInv, PTL

(* A connection that is alive and passed the handshake of the session in   *)
(* force is the engine's peer (_hello, disconnected).                      *)
THEOREM OneContestant == Spec => []LiveContestant
<1>1. RefereeInv => LiveContestant
  BY DEF RefereeInv
<1> QED BY <1>1, AlwaysRefereeInv, PTL

(* While a process runs, the engine's active round is the only one the     *)
(* table says is waiting, for the session and the target in force.         *)
THEOREM MemoryAndTablesAgree == Spec => []ActiveIsWaiting
<1>1. RefereeInv => ActiveIsWaiting
  BY DEF RefereeInv
<1> QED BY <1>1, AlwaysRefereeInv, PTL

(* A round that waits is watched by the timer thread (network.py:_timer)   *)
(* as long as the engine is not fatal.                                     *)
THEOREM EveryWaitIsTimed == Spec => []WaitingHasTimer
<1>1. RefereeInv => WaitingHasTimer
  BY DEF RefereeInv, QuietWithoutListener, WaitingHasTimer
<1> QED BY <1>1, AlwaysRefereeInv, PTL

(* Verdicts and receipts are one transaction of record_result: each        *)
(* verdict has one receipt, a msg_id counts once in a session, and         *)
(* whatever was acknowledged has its receipt.                              *)
THEOREM OneReceiptForAVerdict == Spec => []ReceiptsMatch
<1>1. RefereeInv => ReceiptsMatch
  BY PairsMatch DEF RefereeInv
<1> QED BY <1>1, AlwaysRefereeInv, PTL

(* At most one session is open in the table, and it is the one in memory   *)
(* unless a write failed (create_session, close_session, recovery).        *)
THEOREM OnlyOneSessionOpen == Spec => []OneOpenSession
<1>1. RefereeInv => OneOpenSession
  <2> SUFFICES ASSUME Types, SessionsAgree PROVE OneOpenSession
    BY DEF RefereeInv
  <2>1. PICK s : OpenSessions \subseteq {s}
    BY DEF SessionsAgree
  <2>2. OpenSessions = {} \/ OpenSessions = {s}
    BY <2>1
  <2>3. Cardinality(OpenSessions) \in {0, 1}
    BY <2>2, FS_EmptySet, FS_Singleton
  <2> QED BY <2>3 DEF OneOpenSession, OpenSessions, SessionsAgree
<1> QED BY <1>1, AlwaysRefereeInv, PTL

-----------------------------------------------------------------------------
(* Refinement                                                              *)

LedgerRounds == [r \in Rounds |-> [status |-> rounds[r].status, verdict |-> rounds[r].actual]]
LedgerAcked == {<<x.message.round, x.message.verdict>> : x \in acked}

(* A step that leaves the tables leaves the ledger.                        *)
LEMMA LedgerKept ==
    ASSUME UNCHANGED <<rounds, acked>>
    PROVE  UNCHANGED <<LedgerRounds, LedgerAcked>>
  BY DEF LedgerRounds, LedgerAcked, Rounds

(* A change of one round is a change of that round in the ledger.          *)
LEMMA LedgerMoves ==
    ASSUME NEW r \in Rounds, DOMAIN rounds' = Rounds,
           \A q \in Rounds \ {r} : /\ rounds'[q].status = rounds[q].status
                                   /\ rounds'[q].actual = rounds[q].actual
    PROVE  LedgerRounds' = [LedgerRounds EXCEPT ![r] =
                              [status |-> rounds'[r].status, verdict |-> rounds'[r].actual]]
  BY DEF LedgerRounds, Rounds

(* An acknowledgement of the engine is one of the ledger.                  *)
LEMMA LedgerAcks ==
    ASSUME NEW x, acked' = acked \cup {x}
    PROVE  LedgerAcked' = LedgerAcked \cup {<<x.message.round, x.message.verdict>>}
  BY DEF LedgerAcked

(* The referee implements RoundLedger: one waiting round, one verdict for  *)
(* a round, late answers only after the limit, no acknowledgement of       *)
(* anything else than the round's verdict.                                 *)
THEOREM ImplementsLedger == Spec => KeepsLedger
<1> USE RefereeConstants
<1>1. Init => Ledger!Init
  <2> SUFFICES ASSUME Init PROVE Ledger!Init
    OBVIOUS
  <2>1. Rounds = {} /\ acked = {}
    BY DEF Init, Rounds
  <2>2. LedgerRounds = <<>> /\ LedgerAcked = {}
    BY <2>1 DEF LedgerRounds, LedgerAcked
  <2> QED BY <2>2 DEF Ledger!Init, LedgerRounds, LedgerAcked
<1>2. RefereeInv /\ [Next]_vars => [Ledger!Next]_<<LedgerRounds, LedgerAcked>>
  <2> SUFFICES ASSUME RefereeInv, [Next]_vars
               PROVE  Ledger!Next \/ UNCHANGED <<LedgerRounds, LedgerAcked>>
    OBVIOUS
  <2>0. /\ Types /\ SessionsAgree /\ WaitingHasSession /\ ActiveIsWaiting /\ ReceiptsPair
        /\ \A r \in Rounds : rounds[r] \in Row
        /\ DOMAIN LedgerRounds = Rounds
        /\ \A r \in Rounds : LedgerRounds[r] = [status |-> rounds[r].status, verdict |-> rounds[r].actual]
    BY RoundsAfter DEF RefereeInv, LedgerRounds
  <2>1. Ledger!Next <=>
            \/ \E state \in {Ledger!Waiting} \cup Ledger!Void :
                  /\ \A r \in DOMAIN LedgerRounds : LedgerRounds[r] # Ledger!Waiting
                  /\ LedgerRounds' = Append(LedgerRounds, state)
                  /\ LedgerAcked' = LedgerAcked
            \/ \E r \in DOMAIN LedgerRounds :
                  \/ Ledger!Expire(r) \/ Ledger!Cancel(r)
                  \/ \E v \in Verdicts : Ledger!Answer(r, v) \/ Ledger!Acknowledge(r, v)
    BY DEF Ledger!Next, Ledger!Start, LedgerRounds, LedgerAcked
  <2>2. CASE LeavesRounds
    BY <2>2, LedgerKept DEF LeavesRounds, Ledgers
  (* a round that waits ends without a verdict                             *)
  <2>3. ASSUME NEW r \in Rounds, rounds[r].status = "WAITING", DOMAIN rounds' = Rounds,
               \A q \in Rounds \ {r} : rounds'[q] = rounds[q],
               rounds'[r].status \in {"CANCELLED", "INTERRUPTED", "TIMEOUT"},
               rounds'[r].actual = rounds[r].actual, acked' = acked
        PROVE  Ledger!Next
    <3>1. rounds[r].actual = None
      BY <2>0, <2>3 DEF WaitingHasSession, WaitingRounds
    <3>2. LedgerRounds' = [LedgerRounds EXCEPT ![r] = [status |-> rounds'[r].status, verdict |-> None]]
      BY <2>3, <3>1, LedgerMoves
    <3>3. LedgerRounds[r] = Ledger!Waiting /\ LedgerAcked' = LedgerAcked
      BY <2>0, <2>3, <3>1 DEF Ledger!Waiting, LedgerAcked
    <3>4. Ledger!Expire(r) \/ Ledger!Cancel(r)
      <4>1. CASE rounds'[r].status = "TIMEOUT"
        BY <3>2, <3>3, <4>1 DEF Ledger!Expire, Ledger!Becomes, Ledger!Waiting, LedgerRounds, LedgerAcked
      <4>2. CASE rounds'[r].status \in {"CANCELLED", "INTERRUPTED"}
        BY <3>2, <3>3, <4>2 DEF Ledger!Cancel, Ledger!Becomes, Ledger!Void, LedgerRounds, LedgerAcked
      <4> QED BY <2>3, <4>1, <4>2
    <3> QED BY <2>0, <2>1, <3>4
  <2>4. CASE EndsActive
    <3>1. active \in Rounds /\ rounds[active].status = "WAITING"
      BY <2>0, <2>4 DEF EndsActive, ActiveIsWaiting
    <3>2. acked' = acked
      BY <2>4 DEF EndsActive
    <3> QED BY <2>0, <2>3, <2>4, <3>1, <3>2, ActiveEnded
  <2>5. CASE Recover
    <3>1. UNCHANGED acked /\ DOMAIN rounds' = Rounds
      BY <2>0, <2>5, RoundsAfter DEF Recover
    <3>2. CASE \E r \in WaitingRounds : rounds'[r].status = "INTERRUPTED"
      <4>1. PICK r \in WaitingRounds : rounds'[r].status = "INTERRUPTED"
        BY <3>2
      <4>2. \A q \in Rounds \ {r} : rounds[q].status # "WAITING"
        BY <2>0, <4>1 DEF WaitingHasSession, WaitingRounds
      <4>3. /\ r \in Rounds /\ rounds[r].status = "WAITING" /\ rounds'[r].actual = rounds[r].actual
            /\ \A q \in Rounds \ {r} : rounds'[q] = rounds[q]
        BY <2>0, <2>5, <4>1, <4>2, RoundsAfter DEF WaitingRounds
      <4> QED BY <2>3, <3>1, <4>1, <4>3
    <3>3. CASE ~ \E r \in WaitingRounds : rounds'[r].status = "INTERRUPTED"
      <4>1. \A r \in Rounds : rounds'[r] = rounds[r]
        BY <2>0, <2>5, <3>3, RoundsAfter DEF WaitingRounds
      <4>2. LedgerRounds' = LedgerRounds /\ LedgerAcked' = LedgerAcked
        BY <3>1, <4>1 DEF LedgerRounds, LedgerAcked, Rounds
      <4> QED BY <4>2
    <3> QED BY <3>2, <3>3
  <2>6. ASSUME NEW timed \in BOOLEAN, StartRound(timed) PROVE Ledger!Next
    <3>1. PICK status \in {"WAITING", "INTERRUPTED"} :
               rounds'[Len(rounds) + 1] = [session |-> session, revision |-> revision, timed |-> timed,
                                           status |-> status, actual |-> None]
      BY <2>0, <2>6, RoundsAfter
    <3> DEFINE state == [status |-> status, verdict |-> None]
    <3>2. /\ DOMAIN rounds' = Rounds \cup {Len(rounds) + 1}
          /\ \A r \in Rounds : rounds'[r] = rounds[r]
      BY <2>0, <2>6, RoundsAfter
    <3>3. Rounds = 1 .. Len(rounds) /\ Len(rounds) \in Nat
      <4>1. rounds \in Seq(Row)
        BY <2>0 DEF Types, TypeOK, Row
      <4> QED BY <4>1 DEF Rounds
    <3>4. LedgerRounds' = [r \in Rounds \cup {Len(rounds) + 1} |->
                             IF r = Len(rounds) + 1 THEN state ELSE LedgerRounds[r]]
      BY <2>0, <3>1, <3>2, <3>3 DEF LedgerRounds, Rounds
    <3>5. LedgerRounds' = Append(LedgerRounds, state)
      <4>1. LedgerRounds \in Seq({LedgerRounds[r] : r \in Rounds})
        BY <3>3 DEF LedgerRounds
      <4>2. Len(LedgerRounds) = Len(rounds)
        BY <2>0, <3>3, <4>1
      <4> QED BY <2>0, <3>3, <3>4, <4>1, <4>2
    <3>6. LedgerAcked' = LedgerAcked
      BY <2>6 DEF StartRound, LedgerAcked
    <3>7. \A r \in DOMAIN LedgerRounds : LedgerRounds[r] # Ledger!Waiting
      BY <2>0, <2>6 DEF StartRound, Commanding, ActiveIsWaiting, Ledger!Waiting
    <3>8. state \in {Ledger!Waiting} \cup Ledger!Void
      BY DEF Ledger!Waiting, Ledger!Void
    <3> QED BY <2>1, <3>5, <3>6, <3>7, <3>8
  <2>7. ASSUME NEW c \in Conns, NEW m \in ResultMessages, ResultNew(c, m) PROVE Ledger!Next
    <3>1. /\ m.round \in Rounds /\ DOMAIN rounds' = Rounds /\ m.verdict \in Verdicts
          /\ \A r \in Rounds \ {m.round} : rounds'[r] = rounds[r]
          /\ rounds'[m.round].status \in {"LATE", "RECEIVED"} /\ rounds'[m.round].actual = m.verdict
      BY <2>0, <2>7, RoundsAfter DEF ResultMessages
    <3>2. /\ rounds[m.round].actual = None /\ rounds[m.round].status \in {"WAITING", "TIMEOUT"}
          /\ rounds[m.round].status = "TIMEOUT" => rounds'[m.round].status = "LATE"
      <4>1. /\ rounds[m.round].actual = None /\ rounds[m.round].status \in {"WAITING", "TIMEOUT"}
            /\ m.round \in started
        BY <2>7 DEF ResultNew, Accepts
      <4>2. Late(m.round) <=> rounds'[m.round].status = "LATE"
        BY <2>0, <2>7, RoundsAfter
      <4> QED BY <2>0, <4>1, <4>2 DEF RefereeInv, TimeoutIsOverdue, Overdue, Late
    <3>3. LedgerRounds' = [LedgerRounds EXCEPT ![m.round] =
                             [status |-> rounds'[m.round].status, verdict |-> m.verdict]]
      BY <3>1, LedgerMoves
    <3>4. LedgerAcked' \in {LedgerAcked, LedgerAcked \cup {<<m.round, m.verdict>>}}
      <4>1. acked' = acked \/ acked' = acked \cup {[session |-> session, message |-> m]}
        BY <2>7 DEF ResultNew
      <4> QED BY <4>1, LedgerAcks DEF LedgerAcked
    <3>5. Ledger!Answer(m.round, m.verdict)
      BY <2>0, <3>1, <3>2, <3>3, <3>4
         DEF Ledger!Answer, Ledger!Becomes, Ledger!Answered, Ledger!Waiting, LedgerRounds, LedgerAcked
    <3> QED BY <2>0, <2>1, <3>1, <3>5
  <2>8. ASSUME NEW c \in Conns, NEW m \in ResultMessages, ResultAgain(c, m)
        PROVE  Ledger!Next \/ UNCHANGED <<LedgerRounds, LedgerAcked>>
    <3>1. PICK x \in receipts : x.message = m
      BY <2>8 DEF ResultAgain, Receipts
    <3>2. m.round \in Rounds /\ rounds[m.round].actual = m.verdict /\ m.verdict \in Verdicts
      BY <2>0, <3>1 DEF ReceiptsPair, ResultMessages
    <3>3. rounds' = rounds
      BY <2>8 DEF ResultAgain
    <3>4. acked' = acked \/ acked' = acked \cup {[session |-> session, message |-> m]}
      BY <2>8 DEF ResultAgain
    <3>5. CASE acked' = acked
      BY <3>3, <3>5, LedgerKept
    <3>6. CASE acked' = acked \cup {[session |-> session, message |-> m]}
      <4>1. LedgerAcked' = LedgerAcked \cup {<<m.round, m.verdict>>} /\ LedgerRounds' = LedgerRounds
        <5>1. LedgerAcked' = LedgerAcked \cup {<<[session |-> session, message |-> m].message.round,
                                                 [session |-> session, message |-> m].message.verdict>>}
          BY <3>6, LedgerAcks
        <5>2. LedgerRounds' = LedgerRounds
          BY <3>3 DEF LedgerRounds, Rounds
        <5> QED BY <5>1, <5>2
      <4>2. Ledger!Acknowledge(m.round, m.verdict)
        BY <2>0, <3>2, <4>1 DEF Ledger!Acknowledge, LedgerRounds, LedgerAcked
      <4> QED BY <2>0, <2>1, <3>2, <4>2
    <3> QED BY <3>4, <3>5, <3>6
  <2> QED BY <2>0, <2>2, <2>4, <2>5, <2>6, <2>7, <2>8, RoundSteps
<1>3. [Ledger!Next]_<<LedgerRounds, LedgerAcked>>
        => [Ledger!Next]_<<[r \in Rounds |-> [status |-> rounds[r].status, verdict |-> rounds[r].actual]],
                           {<<x.message.round, x.message.verdict>> : x \in acked}>>
  BY DEF LedgerRounds, LedgerAcked
<1> QED BY <1>1, <1>2, <1>3, AlwaysRefereeInv, PTL DEF Spec, KeepsLedger, Ledger!Spec
=============================================================================
