------------------------ MODULE StationEngineProofs ------------------------
(***************************************************************************)
(* Proofs about StationEngine for every number of connections, stations,   *)
(* messages and rows, and every cap. Each claim is part of one inductive   *)
(* invariant, EngineInv, whose other parts say what a thread's place in    *)
(* the code implies about its memory.                                      *)
(***************************************************************************)
EXTENDS StationEngine, TLAPS

Gone == {"new", "leaving", "cutoff", "exiting", "done"}
InHand == {"frame"} \cup Holding

(* A connection is open only between its accept and the end of its loop.   *)
ClosedWhenGone == \A c \in Conns : pc[c] \in Gone => ~alive[c]

(* A connection that has not been accepted is not identified.              *)
NewIsBlank == \A c \in Conns : pc[c] = "new" => key[c] = None

(* A thread inside receive has a frame, and a result when it records.      *)
HandIsFrame ==
    \A c \in Conns :
        /\ pc[c] \in InHand => hand[c] \in Frames
        /\ pc[c] = "recording" => hand[c] \in Results

(* The loop goes on only below the limit of errors.                        *)
BelowLimit ==
    \A c \in Conns : pc[c] \in {"new", "reading"} \cup InHand => errors[c] < ErrorLimit

(* What a connection remembers as its last result is a row it stored.      *)
LastIsOwnRow ==
    \A c \in Conns : last[c] # 0 => last[c] \in DOMAIN rows /\ rows[last[c]].by = c

(* After a storage failure no thread is inside receive.                    *)
FatalIsAlone == fatal => LockFree

(* stop() has listed every connection that is left when it joins them.     *)
AllListed ==
    /\ runtime = "joining" => ClientsLeft \subseteq joined
    /\ runtime = "closed" => ClientsLeft = {}

Places == ClosedWhenGone /\ NewIsBlank /\ HandIsFrame /\ BelowLimit

EngineInv ==
    /\ TypeOK /\ Places
    /\ LiveOwner /\ FatalCutsOff /\ FatalIsAlone
    /\ LastIsOwnRow /\ AllListed

-----------------------------------------------------------------------------

LEMMA InitHolds == Init => EngineInv
<1> SUFFICES ASSUME Init PROVE EngineInv
    OBVIOUS
<1>1. TypeOK
    <2>1. 0 \in 0 .. ErrorLimit /\ 0 \in Nat
        BY EngineConstants
    <2>2. <<>> \in Seq([key : Keys, msg : MsgIds, content : Contents, by : Conns])
        OBVIOUS
    <2>3. QED
        BY <2>1, <2>2 DEF Init, TypeOK
<1>2. Places
    BY EngineConstants
       DEF Init, Places, ClosedWhenGone, NewIsBlank, HandIsFrame, BelowLimit, InHand, Holding
<1>3. LiveOwner /\ FatalCutsOff /\ FatalIsAlone /\ LastIsOwnRow /\ AllListed
    BY DEF Init, LiveOwner, FatalCutsOff, FatalIsAlone, LastIsOwnRow, AllListed
<1>4. QED
    BY <1>1, <1>2, <1>3 DEF EngineInv

(* Append to, and an element of, a sequence over a set.                    *)
LEMMA AppendInSeq ==
    ASSUME NEW S, NEW s \in Seq(S), NEW e \in S
    PROVE  Append(s, e) \in Seq(S)
OBVIOUS

LEMMA ElementOfSeq ==
    ASSUME NEW S, NEW s \in Seq(S), NEW i \in 1 .. Len(s)
    PROVE  s[i] \in S
OBVIOUS

(* Every step keeps the types and what the threads' places imply.          *)
LEMMA PlacesKept == TypeOK /\ Places /\ [Next]_vars => TypeOK' /\ Places'
<1> SUFFICES ASSUME TypeOK, Places, [Next]_vars
             PROVE  TypeOK' /\ Places'
    OBVIOUS
<1> USE EngineConstants DEF TypeOK, Places, ClosedWhenGone, NewIsBlank, HandIsFrame, BelowLimit,
        Gone, InHand, Holding, Leave, service, memory, stored
<1>1. ASSUME NEW c \in Conns, Accept(c)
      PROVE  TypeOK' /\ Places'
    BY <1>1 DEF Accept
<1>2. ASSUME NEW c \in Conns, NEW f \in Frames, PopFrame(c, f)
      PROVE  TypeOK' /\ Places'
    BY <1>2 DEF PopFrame
<1>3. ASSUME NEW c \in Conns, IdleTimeout(c) \/ LoopSeesClose(c) \/ LoopEnds(c)
      PROVE  TypeOK' /\ Places'
    <2>1. pc[c] = "reading"
        BY <1>3 DEF IdleTimeout, LoopSeesClose, LoopEnds
    <2>2. \/ pc' = [pc EXCEPT ![c] = "leaving"] /\ alive' = [alive EXCEPT ![c] = FALSE]
          \/ pc' = [pc EXCEPT ![c] = "failed"] /\ alive' = alive
        BY <1>3 DEF IdleTimeout, LoopSeesClose, LoopEnds
    <2>3. UNCHANGED <<runtime, fatal, joined, peers, key, last, errors, hand, rows, acked>>
        BY <1>3 DEF IdleTimeout, LoopSeesClose, LoopEnds
    <2>4. TypeOK'
        BY <2>2, <2>3
    <2>5. ClosedWhenGone' /\ NewIsBlank'
        BY <2>1, <2>2, <2>3
    <2>6. HandIsFrame' /\ BelowLimit'
        BY <2>1, <2>2, <2>3
    <2>7. QED
        BY <2>4, <2>5, <2>6
<1>4. ASSUME NEW c \in Conns, ReceiveFatal(c)
      PROVE  TypeOK' /\ Places'
    BY <1>4 DEF ReceiveFatal
<1>5. ASSUME NEW c \in Conns, ReceiveValid(c)
      PROVE  TypeOK' /\ Places'
    <2>1. hand[c] \in Frames
        BY <1>5 DEF ReceiveValid
    <2>2. Identifies(hand[c]) => hand[c].key \in Keys
        BY <2>1 DEF Identifies, Frames, Hellos, Results, Others
    <2>3. hand[c].type = "result" => hand[c] \in Results
        BY <2>1 DEF Frames, Hellos, Results, Others
    <2>4. /\ peers' \in [Keys -> Conns \cup {None}]
          /\ key' \in [Conns -> Keys \cup {None}]
          /\ \A d \in Conns : d # c => key'[d] = key[d]
        <3>1. CASE Identifies(hand[c]) /\ key[c] = None
            <4>1. hand[c].key \in Keys
                BY <2>2, <3>1
            <4>2. /\ peers' = [peers EXCEPT ![hand[c].key] = c]
                  /\ key' = [key EXCEPT ![c] = hand[c].key]
                BY <1>5, <3>1 DEF ReceiveValid, Bind
            <4>3. QED
                BY <4>1, <4>2
        <3>2. CASE ~(Identifies(hand[c]) /\ key[c] = None)
            BY <1>5, <3>2 DEF ReceiveValid, Bind
        <3>3. QED
            BY <3>1, <3>2
    <2>5. pc' \in {[pc EXCEPT ![c] = "recording"], [pc EXCEPT ![c] = "replying"],
                   [pc EXCEPT ![c] = "failed"]}
        BY <1>5 DEF ReceiveValid
    <2>6. pc' = [pc EXCEPT ![c] = "recording"] => hand[c] \in Results
        BY <1>5, <2>3 DEF ReceiveValid
    <2>7. pc[c] = "frame" /\ UNCHANGED <<runtime, fatal, joined, alive, last, errors, hand, rows, acked>>
        BY <1>5 DEF ReceiveValid
    <2>8. TypeOK'
        BY <2>4, <2>5, <2>7
    <2>9. ClosedWhenGone' /\ NewIsBlank' /\ BelowLimit'
        BY <2>4, <2>5, <2>7
    <2>10. HandIsFrame'
        BY <2>1, <2>5, <2>6, <2>7
    <2>11. QED
        BY <2>8, <2>9, <2>10
<1>6. ASSUME NEW c \in Conns, ReceiveInvalid(c)
      PROVE  TypeOK' /\ Places'
    BY <1>6 DEF ReceiveInvalid
<1>7. ASSUME NEW c \in Conns, Record(c)
      PROVE  TypeOK' /\ Places'
    <2>1. hand[c] \in Results
        BY <1>7 DEF Record
    <2>2. rows' \in Seq([key : Keys, msg : MsgIds, content : Contents, by : Conns])
        <3> DEFINE RowSet == [key : Keys, msg : MsgIds, content : Contents, by : Conns]
                   row == [key |-> hand[c].key, msg |-> hand[c].msg,
                           content |-> hand[c].content, by |-> c]
        <3>1. rows \in Seq(RowSet)
            OBVIOUS
        <3>2. row \in RowSet
            BY <2>1 DEF Results
        <3>3. rows' = Append(rows, row) \/ rows' = rows
            BY <1>7 DEF Record
        <3> HIDE DEF RowSet, row
        <3>4. rows' \in Seq(RowSet)
            BY ONLY <3>1, <3>2, <3>3, AppendInSeq
        <3>5. QED
            BY <3>4 DEF RowSet
    <2>3. last' \in [Conns -> Nat]
        BY <1>7 DEF Record, RememberNew, Known
    <2>4. pc' \in {[pc EXCEPT ![c] = "replying"], [pc EXCEPT ![c] = "refusing"],
                   [pc EXCEPT ![c] = "failed"]}
        BY <1>7 DEF Record
    <2>5. pc[c] = "recording" /\ UNCHANGED <<runtime, fatal, joined, peers, alive, key, errors, hand, acked>>
        BY <1>7 DEF Record
    <2>6. TypeOK'
        BY <2>2, <2>3, <2>4, <2>5
    <2>7. ClosedWhenGone' /\ NewIsBlank' /\ BelowLimit'
        BY <2>4, <2>5
    <2>8. HandIsFrame'
        BY <2>1, <2>4, <2>5
    <2>9. QED
        BY <2>6, <2>7, <2>8
<1>8. ASSUME NEW c \in Conns, Reply(c)
      PROVE  TypeOK' /\ Places'
    <2>1. hand[c] \in Frames
        BY <1>8 DEF Reply
    <2>2. hand[c].type = "result" => hand[c] \in Results
        BY <2>1 DEF Frames, Hellos, Results, Others
    <2>3. hand[c].type = "result" => Entry(hand[c]) \in [key : Keys, msg : MsgIds, content : Contents]
        BY <2>2 DEF Entry, Results
    <2>4. acked' \subseteq [key : Keys, msg : MsgIds, content : Contents]
        BY <1>8, <2>3 DEF Reply
    <2>5. \/ pc' \in {[pc EXCEPT ![c] = "reading"], [pc EXCEPT ![c] = "failed"]} /\ alive' = alive
          \/ Leave(c)
        BY <1>8 DEF Reply
    <2>6. /\ pc[c] = "replying" /\ hand' = [hand EXCEPT ![c] = None]
          /\ UNCHANGED <<runtime, fatal, joined, peers, key, last, errors, rows>>
        BY <1>8 DEF Reply
    <2>7. TypeOK'
        BY <2>4, <2>5, <2>6
    <2>8. Places'
        BY <2>5, <2>6
    <2>9. QED
        BY <2>7, <2>8
<1>9. ASSUME NEW c \in Conns, Refuse(c)
      PROVE  TypeOK' /\ Places'
    <2>1. /\ pc[c] = "refusing" /\ errors[c] < ErrorLimit /\ hand' = [hand EXCEPT ![c] = None]
          /\ UNCHANGED <<runtime, fatal, joined, peers, key, last, rows, acked>>
        BY <1>9 DEF Refuse
    <2>2. CASE errors' = [errors EXCEPT ![c] = @ + 1] /\ errors[c] + 1 >= ErrorLimit /\ Leave(c)
        BY <2>1, <2>2
    <2>3. CASE /\ errors' = [errors EXCEPT ![c] = @ + 1] /\ ~(errors[c] + 1 >= ErrorLimit)
               /\ pc' = [pc EXCEPT ![c] = "reading"] /\ alive' = alive
        BY <2>1, <2>3
    <2>4. CASE Leave(c) /\ errors' = errors
        BY <2>1, <2>4
    <2>5. CASE pc' = [pc EXCEPT ![c] = "failed"] /\ alive' = alive /\ errors' = errors
        BY <2>1, <2>5
    <2>6. QED
        BY <1>9, <2>2, <2>3, <2>4, <2>5 DEF Refuse, AtLimit
<1>10. ASSUME NEW c \in Conns, Fail(c)
       PROVE  TypeOK' /\ Places'
    BY <1>10 DEF Fail, CloseOwners
<1>11. ASSUME NEW c \in Conns, Cleanup(c)
       PROVE  TypeOK' /\ Places'
    BY <1>11 DEF Cleanup, Frees
<1>12. ASSUME NEW c \in Conns, Exit(c)
       PROVE  TypeOK' /\ Places'
    BY <1>12 DEF Exit
<1>13. ASSUME NEW c \in Conns, CloseClient(c)
       PROVE  TypeOK' /\ Places'
    BY <1>13 DEF CloseClient
<1>14. ASSUME WebFail
       PROVE  TypeOK' /\ Places'
    BY <1>14 DEF WebFail, CloseOwners
<1>15. ASSUME BeginStop \/ ListClients \/ CloseStore \/ JoinTimeout
       PROVE  TypeOK' /\ Places'
    BY <1>15 DEF BeginStop, ListClients, CloseStore, JoinTimeout, ClientsLeft
<1>16. ASSUME ProcessEnds \/ Restart
       PROVE  TypeOK' /\ Places'
    <2>1. CASE ProcessEnds
        <3>0. 0 \in 0 .. ErrorLimit /\ 0 \in Nat
            OBVIOUS
        <3>1. TypeOK'
            BY <2>1, <3>0 DEF ProcessEnds
        <3>2. \A c \in Conns : pc'[c] \in {"new", "done"} /\ ~alive'[c]
            BY <2>1 DEF ProcessEnds
        <3>3. \A c \in Conns : key'[c] = None /\ errors'[c] < ErrorLimit
            BY <2>1 DEF ProcessEnds
        <3>4. ClosedWhenGone' /\ NewIsBlank'
            BY <3>2, <3>3
        <3>5. HandIsFrame'
            BY <3>2
        <3>6. BelowLimit'
            BY <3>3
        <3>7. QED
            BY <3>1, <3>4, <3>5, <3>6
    <2>2. CASE Restart
        BY <2>2 DEF Restart
    <2>3. QED
        BY <1>16, <2>1, <2>2
<1>17. ASSUME UNCHANGED vars
       PROVE  TypeOK' /\ Places'
    BY <1>17 DEF vars
<1>18. QED
    BY <1>1, <1>2, <1>3, <1>4, <1>5, <1>6, <1>7, <1>8, <1>9, <1>10, <1>11, <1>12, <1>13,
       <1>14, <1>15, <1>16, <1>17 DEF Next, Thread

-----------------------------------------------------------------------------

(* Only five kinds of steps identify, open or free anything, or set fatal: *)
(* the others at most close connections.                                   *)
Quiet ==
    /\ UNCHANGED <<peers, key, fatal>>
    /\ \A d \in Conns : alive'[d] => alive[d]

LEMMA StepKinds ==
    ASSUME TypeOK, [Next]_vars
    PROVE  \/ Quiet
           \/ \E c \in Conns : Accept(c) \/ ReceiveValid(c) \/ Cleanup(c) \/ Fail(c)
           \/ WebFail \/ ProcessEnds
<1> USE DEF TypeOK, Quiet, Leave, service, memory, stored
<1>1. ASSUME NEW c \in Conns, NEW f \in Frames, PopFrame(c, f)
      PROVE  Quiet
    BY <1>1 DEF PopFrame
<1>2. ASSUME NEW c \in Conns, IdleTimeout(c) \/ LoopSeesClose(c) \/ LoopEnds(c)
      PROVE  Quiet
    BY <1>2 DEF IdleTimeout, LoopSeesClose, LoopEnds
<1>3. ASSUME NEW c \in Conns, ReceiveFatal(c) \/ ReceiveInvalid(c)
      PROVE  Quiet
    BY <1>3 DEF ReceiveFatal, ReceiveInvalid
<1>4. ASSUME NEW c \in Conns, Record(c)
      PROVE  Quiet
    BY <1>4 DEF Record
<1>5. ASSUME NEW c \in Conns, Reply(c) \/ Refuse(c)
      PROVE  Quiet
    BY <1>5 DEF Reply, Refuse
<1>6. ASSUME NEW c \in Conns, Exit(c) \/ CloseClient(c)
      PROVE  Quiet
    BY <1>6 DEF Exit, CloseClient
<1>7. ASSUME BeginStop \/ ListClients \/ CloseStore \/ JoinTimeout \/ Restart
      PROVE  Quiet
    BY <1>7 DEF BeginStop, ListClients, CloseStore, JoinTimeout, Restart
<1>8. ASSUME UNCHANGED vars
      PROVE  Quiet
    BY <1>8 DEF vars
<1>9. QED
    BY <1>1, <1>2, <1>3, <1>4, <1>5, <1>6, <1>7, <1>8 DEF Next, Thread

(* fail() closes every identified connection, because each live one is the *)
(* owner of its slot.                                                      *)
LEMMA OwnersClosed ==
    ASSUME TypeOK, LiveOwner, NEW c, CloseOwners(c), UNCHANGED <<peers, key>>
    PROVE  \A d \in Conns : (alive'[d] => alive[d]) /\ (alive'[d] => key'[d] = None)
BY DEF CloseOwners, FailedClosing, Owners, LiveOwner, TypeOK

LEMMA LiveOwnerKept ==
    TypeOK /\ Places /\ LiveOwner /\ [Next]_vars => LiveOwner'
<1> SUFFICES ASSUME TypeOK, Places, LiveOwner, [Next]_vars
             PROVE  LiveOwner'
    OBVIOUS
<1>1. ASSUME Quiet
      PROVE  LiveOwner'
    BY <1>1 DEF Quiet, LiveOwner
<1>2. ASSUME NEW c \in Conns, Accept(c)
      PROVE  LiveOwner'
    BY <1>2 DEF Accept, TypeOK, LiveOwner, Places, NewIsBlank
<1>3. ASSUME NEW c \in Conns, ReceiveValid(c)
      PROVE  LiveOwner'
  <2> DEFINE k == hand[c].key
  <2>1. CASE Identifies(hand[c]) /\ key[c] = None
    <3>1. k \in Keys /\ ~OtherOwner(c, k)
        BY <1>3, <2>1 DEF ReceiveValid, Invalid, Identifies, TypeOK, Places, HandIsFrame,
              InHand, Frames, Hellos, Results, Others
    <3>2. ASSUME NEW d \in Conns, d # c, alive[d], key[d] = k
          PROVE  FALSE
      <4>1. k # None /\ d # None
          BY <3>1, EngineConstants
      <4>2. peers[k] = d
          BY <3>2, <4>1 DEF LiveOwner
      <4>3. QED
          BY <3>1, <3>2, <4>1, <4>2 DEF OtherOwner
    <3>3. /\ peers' = [peers EXCEPT ![k] = c]
          /\ key' = [key EXCEPT ![c] = k]
          /\ alive' = alive
        BY <1>3, <2>1 DEF ReceiveValid, Bind
    <3>4. ASSUME NEW d \in Conns, alive'[d], key'[d] # None
          PROVE  peers'[key'[d]] = d
      <4>1. CASE d = c
          BY <3>1, <3>3, <4>1 DEF TypeOK
      <4>2. CASE d # c
          BY <3>2, <3>3, <3>4, <4>2 DEF TypeOK, LiveOwner
      <4>3. QED
          BY <4>1, <4>2
    <3>5. QED
        BY <3>4 DEF LiveOwner
  <2>2. CASE ~(Identifies(hand[c]) /\ key[c] = None)
      BY <1>3, <2>2 DEF ReceiveValid, Bind, LiveOwner
  <2>3. QED
      BY <2>1, <2>2
<1>4. ASSUME NEW c \in Conns, Cleanup(c)
      PROVE  LiveOwner'
  <2>1. ~alive[c] /\ UNCHANGED <<alive, key>>
      BY <1>4 DEF Cleanup, Places, ClosedWhenGone, Gone
  <2>2. \/ peers' = peers
        \/ Frees(c) /\ peers' = [peers EXCEPT ![key[c]] = None]
      BY <1>4 DEF Cleanup
  <2>3. QED
      BY <2>1, <2>2 DEF Frees, LiveOwner, TypeOK
<1>5. ASSUME NEW c \in Conns, Fail(c)
      PROVE  LiveOwner'
    BY <1>5, OwnersClosed DEF Fail, LiveOwner
<1>6. ASSUME WebFail
      PROVE  LiveOwner'
    BY <1>6, OwnersClosed DEF WebFail, LiveOwner
<1>7. ASSUME ProcessEnds
      PROVE  LiveOwner'
    BY <1>7 DEF ProcessEnds, LiveOwner
<1>8. QED
    BY <1>1, <1>2, <1>3, <1>4, <1>5, <1>6, <1>7, StepKinds

LEMMA FatalCutsOffKept ==
    TypeOK /\ Places /\ LiveOwner /\ FatalCutsOff /\ [Next]_vars => FatalCutsOff'
<1> SUFFICES ASSUME TypeOK, Places, LiveOwner, FatalCutsOff, [Next]_vars
             PROVE  FatalCutsOff'
    OBVIOUS
<1>1. ASSUME Quiet
      PROVE  FatalCutsOff'
    BY <1>1 DEF Quiet, FatalCutsOff
<1>2. ASSUME NEW c \in Conns, Accept(c)
      PROVE  FatalCutsOff'
    BY <1>2 DEF Accept, service, TypeOK, FatalCutsOff
<1>3. ASSUME NEW c \in Conns, ReceiveValid(c)
      PROVE  FatalCutsOff'
    BY <1>3 DEF ReceiveValid, Refused, service, FatalCutsOff
<1>4. ASSUME NEW c \in Conns, Cleanup(c)
      PROVE  FatalCutsOff'
    BY <1>4 DEF Cleanup, service, FatalCutsOff
<1>5. ASSUME NEW c \in Conns, Fail(c)
      PROVE  FatalCutsOff'
    BY <1>5, OwnersClosed DEF Fail, FatalCutsOff
<1>6. ASSUME WebFail
      PROVE  FatalCutsOff'
    BY <1>6, OwnersClosed DEF WebFail, FatalCutsOff
<1>7. ASSUME ProcessEnds
      PROVE  FatalCutsOff'
    BY <1>7 DEF ProcessEnds, FatalCutsOff
<1>8. QED
    BY <1>1, <1>2, <1>3, <1>4, <1>5, <1>6, <1>7, StepKinds

-----------------------------------------------------------------------------

LEMMA FatalIsAloneKept ==
    TypeOK /\ FatalIsAlone /\ [Next]_vars => FatalIsAlone'
<1> SUFFICES ASSUME TypeOK, FatalIsAlone, [Next]_vars
             PROVE  FatalIsAlone'
    OBVIOUS
<1> USE DEF FatalIsAlone, LockFree, Holding, TypeOK, Leave, service
<1>1. ASSUME NEW c \in Conns, Accept(c)
      PROVE  FatalIsAlone'
    BY <1>1 DEF Accept
<1>2. ASSUME NEW c \in Conns, NEW f \in Frames, PopFrame(c, f)
      PROVE  FatalIsAlone'
    BY <1>2 DEF PopFrame
<1>3. ASSUME NEW c \in Conns, IdleTimeout(c) \/ LoopSeesClose(c) \/ LoopEnds(c)
      PROVE  FatalIsAlone'
    BY <1>3 DEF IdleTimeout, LoopSeesClose, LoopEnds
<1>4. ASSUME NEW c \in Conns, ReceiveFatal(c) \/ ReceiveInvalid(c) \/ ReceiveValid(c)
      PROVE  FatalIsAlone'
    BY <1>4 DEF ReceiveFatal, ReceiveInvalid, ReceiveValid, Refused
<1>5. ASSUME NEW c \in Conns, Record(c) \/ Reply(c) \/ Refuse(c)
      PROVE  FatalIsAlone'
    BY <1>5 DEF Record, Reply, Refuse
<1>6. ASSUME NEW c \in Conns, Fail(c)
      PROVE  FatalIsAlone'
    BY <1>6 DEF Fail
<1>7. ASSUME NEW c \in Conns, Cleanup(c)
      PROVE  FatalIsAlone'
    BY <1>7 DEF Cleanup
<1>8. ASSUME NEW c \in Conns, Exit(c) \/ CloseClient(c)
      PROVE  FatalIsAlone'
    BY <1>8 DEF Exit, CloseClient
<1>9. ASSUME WebFail \/ ProcessEnds
      PROVE  FatalIsAlone'
    BY <1>9 DEF WebFail, ProcessEnds
<1>10. ASSUME BeginStop \/ ListClients \/ CloseStore \/ JoinTimeout \/ Restart
       PROVE  FatalIsAlone'
    BY <1>10 DEF BeginStop, ListClients, CloseStore, JoinTimeout, Restart, memory
<1>11. ASSUME UNCHANGED vars
       PROVE  FatalIsAlone'
    BY <1>11 DEF vars, memory
<1>12. QED
    BY <1>1, <1>2, <1>3, <1>4, <1>5, <1>6, <1>7, <1>8, <1>9, <1>10, <1>11 DEF Next, Thread

(* Rows and what connections remember of them change when a thread records *)
(* and when the process ends.                                              *)
LEMMA RowsChange ==
    ASSUME TypeOK, [Next]_vars
    PROVE  \/ UNCHANGED <<rows, last>>
           \/ \E c \in Conns : Record(c)
           \/ ProcessEnds
<1> USE DEF service, memory, stored
<1>1. ASSUME NEW c \in Conns, NEW f \in Frames, PopFrame(c, f)
      PROVE  UNCHANGED <<rows, last>>
    BY <1>1 DEF PopFrame
<1>2. ASSUME NEW c \in Conns, Accept(c) \/ IdleTimeout(c) \/ LoopSeesClose(c) \/ LoopEnds(c)
      PROVE  UNCHANGED <<rows, last>>
    BY <1>2 DEF Accept, IdleTimeout, LoopSeesClose, LoopEnds
<1>3. ASSUME NEW c \in Conns, ReceiveFatal(c) \/ ReceiveInvalid(c) \/ ReceiveValid(c)
      PROVE  UNCHANGED <<rows, last>>
    BY <1>3 DEF ReceiveFatal, ReceiveInvalid, ReceiveValid
<1>4. ASSUME NEW c \in Conns, Reply(c) \/ Refuse(c) \/ Fail(c)
      PROVE  UNCHANGED <<rows, last>>
    BY <1>4 DEF Reply, Refuse, Fail
<1>5. ASSUME NEW c \in Conns, Cleanup(c) \/ Exit(c) \/ CloseClient(c)
      PROVE  UNCHANGED <<rows, last>>
    BY <1>5 DEF Cleanup, Exit, CloseClient
<1>6. ASSUME WebFail \/ BeginStop \/ ListClients \/ CloseStore \/ JoinTimeout \/ Restart
      PROVE  UNCHANGED <<rows, last>>
    BY <1>6 DEF WebFail, BeginStop, ListClients, CloseStore, JoinTimeout, Restart
<1>7. ASSUME UNCHANGED vars
      PROVE  UNCHANGED <<rows, last>>
    BY <1>7 DEF vars
<1>8. QED
    BY <1>1, <1>2, <1>3, <1>4, <1>5, <1>6, <1>7 DEF Next, Thread

(* A row is only ever added at the end.                                    *)
LEMMA LastIsOwnRowKept ==
    TypeOK /\ Places /\ LastIsOwnRow /\ [Next]_vars => LastIsOwnRow'
<1> SUFFICES ASSUME TypeOK, Places, LastIsOwnRow, [Next]_vars
             PROVE  LastIsOwnRow'
    OBVIOUS
<1>1. CASE UNCHANGED <<rows, last>>
    BY <1>1 DEF LastIsOwnRow
<1>2. CASE ProcessEnds
    BY <1>2 DEF ProcessEnds, LastIsOwnRow
<1>3. ASSUME NEW c \in Conns, Record(c)
      PROVE  LastIsOwnRow'
  <2> DEFINE n == Len(rows) + 1
             row == [key |-> hand[c].key, msg |-> hand[c].msg, content |-> hand[c].content, by |-> c]
  <2>0. rows \in Seq([key : Keys, msg : MsgIds, content : Contents, by : Conns])
      BY DEF TypeOK
  <2>1. CASE rows' = Append(rows, row) /\ RememberNew(c, n)
    <3>1. last' = [last EXCEPT ![c] = n]
        BY <2>1 DEF RememberNew
    <3>2. /\ n \in DOMAIN rows' /\ rows'[n] = row
          /\ \A i \in DOMAIN rows : i \in DOMAIN rows' /\ rows'[i] = rows[i]
        BY <2>0, <2>1
    <3>3. ASSUME NEW d \in Conns, last'[d] # 0
          PROVE  last'[d] \in DOMAIN rows' /\ rows'[last'[d]].by = d
        BY <3>1, <3>2, <3>3 DEF LastIsOwnRow, TypeOK
    <3>4. QED
        BY <3>3 DEF LastIsOwnRow
  <2>2. ASSUME NEW i \in Known(c, hand[c]), RememberNew(c, i), UNCHANGED rows
        PROVE  LastIsOwnRow'
    <3>1. i # n
        BY <2>0 DEF Known
    <3>2. QED
        BY <2>2, <3>1 DEF RememberNew, LastIsOwnRow
  <2>3. CASE UNCHANGED <<rows, last>>
      BY <2>3 DEF LastIsOwnRow
  <2>4. QED
      BY <1>3, <2>1, <2>2, <2>3 DEF Record
<1>4. QED
    BY <1>1, <1>2, <1>3, RowsChange

(* No thread but those listed is left, because the accept thread looks at  *)
(* stopping again under the lock that stop() lists the clients under.      *)
LEMMA AllListedKept ==
    TypeOK /\ AllListed /\ [Next]_vars => AllListed'
<1> SUFFICES ASSUME TypeOK, AllListed, [Next]_vars
             PROVE  AllListed'
    OBVIOUS
<1> DEFINE Fewer == UNCHANGED <<runtime, joined>> /\ ClientsLeft' \subseteq ClientsLeft
<1> USE DEF ClientsLeft, Leave, TypeOK, Holding, service, memory
<1>1. ASSUME NEW c \in Conns, NEW f \in Frames, PopFrame(c, f)
      PROVE  Fewer
    BY <1>1 DEF PopFrame
<1>2. ASSUME NEW c \in Conns, IdleTimeout(c) \/ LoopSeesClose(c) \/ LoopEnds(c)
      PROVE  Fewer
    BY <1>2 DEF IdleTimeout, LoopSeesClose, LoopEnds
<1>3. ASSUME NEW c \in Conns, ReceiveFatal(c) \/ ReceiveInvalid(c) \/ ReceiveValid(c)
      PROVE  Fewer
    BY <1>3 DEF ReceiveFatal, ReceiveInvalid, ReceiveValid
<1>4. ASSUME NEW c \in Conns, Record(c) \/ Reply(c) \/ Refuse(c)
      PROVE  Fewer
    BY <1>4 DEF Record, Reply, Refuse
<1>5. ASSUME NEW c \in Conns, Fail(c) \/ Cleanup(c)
      PROVE  Fewer
    BY <1>5 DEF Fail, Cleanup
<1>6. ASSUME NEW c \in Conns, Exit(c) \/ CloseClient(c)
      PROVE  Fewer
    BY <1>6 DEF Exit, CloseClient
<1>7. ASSUME WebFail \/ UNCHANGED vars
      PROVE  Fewer
    BY <1>7 DEF WebFail, vars
<1>8. CASE Fewer
    BY <1>8 DEF AllListed
<1>9. ASSUME NEW c \in Conns, Accept(c)
      PROVE  AllListed'
    BY <1>9 DEF Accept, Serving, AllListed
<1>10. CASE BeginStop \/ ListClients \/ JoinTimeout
    BY <1>10 DEF BeginStop, ListClients, JoinTimeout, AllListed
<1>11. CASE CloseStore
    BY <1>11 DEF CloseStore, AllListed
<1>12. CASE ProcessEnds \/ Restart
    BY <1>12 DEF ProcessEnds, Restart, AllListed
<1>13. QED
    BY <1>1, <1>2, <1>3, <1>4, <1>5, <1>6, <1>7, <1>8, <1>9, <1>10, <1>11, <1>12
       DEF Next, Thread

LEMMA StepKeeps == EngineInv /\ [Next]_vars => EngineInv'
BY PlacesKept, LiveOwnerKept, FatalCutsOffKept, FatalIsAloneKept, LastIsOwnRowKept, AllListedKept
   DEF EngineInv

THEOREM AlwaysEngineInv == Spec => []EngineInv
<1>1. EngineInv /\ [Next]_vars => EngineInv'
    BY StepKeeps
<1>2. QED
    BY InitHolds, <1>1, PTL DEF Spec

-----------------------------------------------------------------------------

(* The receiver's memory and tables have their types in every behaviour.   *)
THEOREM TypeCorrect == Spec => []TypeOK
BY AlwaysEngineInv, PTL DEF EngineInv

(* The station slots: a live identified connection owns its slot, so no    *)
(* station has two (StationEngine.receive and disconnected).               *)
THEOREM SlotsHaveOneOwner == Spec => []LiveOwner
BY AlwaysEngineInv, PTL DEF EngineInv

(* A storage failure disconnects every station (StationEngine.fail).       *)
THEOREM FailureCutsOff == Spec => []FatalCutsOff
BY AlwaysEngineInv, PTL DEF EngineInv

(* The display's last_is_current is about the connection now at the        *)
(* station (StationEngine.snapshot): its last_result_id names its own row. *)
THEOREM CurrentIsAlwaysOwn == Spec => []CurrentIsOwn
<1>1. EngineInv => CurrentIsOwn
  <2> SUFFICES ASSUME EngineInv, NEW k \in Keys, ShownCurrent(k)
               PROVE  rows[last[peers[k]]].by = peers[k]
      BY DEF CurrentIsOwn
  <2>1. peers[k] \in Conns /\ last[peers[k]] \in DOMAIN rows
      BY DEF ShownCurrent, Latest, EngineInv, TypeOK
  <2>2. last[peers[k]] # 0
      BY <2>1 DEF EngineInv, TypeOK
  <2>3. QED
      BY <2>1, <2>2 DEF EngineInv, LastIsOwnRow
<1>2. QED
    BY AlwaysEngineInv, <1>1, PTL

(* The store is never closed under a running thread (StationService.stop). *)
THEOREM ClosedIsAlwaysQuiet == Spec => []ClosedIsQuiet
BY AlwaysEngineInv, PTL DEF EngineInv, AllListed, ClosedIsQuiet

(* No observation is stored after a storage failure, not even from a frame *)
(* that was already read: receive looks at fatal under the lock, and fail  *)
(* sets it under the same lock.                                            *)
THEOREM NothingStoredAfterFailure == Spec => FatalFreezes
<1>1. EngineInv /\ [Next]_vars => (fatal /\ fatal' => rows' = rows)
  <2> SUFFICES ASSUME EngineInv, [Next]_vars, fatal, fatal'
               PROVE  rows' = rows
      OBVIOUS
  <2>1. ASSUME NEW c \in Conns, Record(c)
        PROVE  FALSE
      BY <2>1 DEF Record, EngineInv, FatalIsAlone, LockFree, Holding
  <2>2. CASE ProcessEnds
      BY <2>2 DEF ProcessEnds
  <2>3. QED
      BY <2>1, <2>2, RowsChange DEF EngineInv
<1>2. QED
    BY AlwaysEngineInv, <1>1, PTL DEF Spec, FatalFreezes

-----------------------------------------------------------------------------
(* The receiver implements ObservationLog.                                 *)

(* What is about to be acknowledged is stored, word for word.              *)
ReplyIsStored ==
    \A c \in Conns :
        pc[c] = "replying" /\ hand[c].type = "result" =>
            \E i \in DOMAIN rows : EntryOf(rows[i]) = Entry(hand[c])

(* The log and the acknowledgements change in two places.                  *)
LEMMA LogChanges ==
    ASSUME TypeOK, [Next]_vars
    PROVE  UNCHANGED <<rows, acked>> \/ \E c \in Conns : Record(c) \/ Reply(c)
<1> USE DEF service, memory, stored
<1>1. ASSUME NEW c \in Conns, NEW f \in Frames, PopFrame(c, f)
      PROVE  UNCHANGED <<rows, acked>>
    BY <1>1 DEF PopFrame
<1>2. ASSUME NEW c \in Conns, Accept(c) \/ IdleTimeout(c) \/ LoopSeesClose(c) \/ LoopEnds(c)
      PROVE  UNCHANGED <<rows, acked>>
    BY <1>2 DEF Accept, IdleTimeout, LoopSeesClose, LoopEnds
<1>3. ASSUME NEW c \in Conns, ReceiveFatal(c) \/ ReceiveInvalid(c) \/ ReceiveValid(c)
      PROVE  UNCHANGED <<rows, acked>>
    BY <1>3 DEF ReceiveFatal, ReceiveInvalid, ReceiveValid
<1>4. ASSUME NEW c \in Conns, Refuse(c) \/ Fail(c)
      PROVE  UNCHANGED <<rows, acked>>
    BY <1>4 DEF Refuse, Fail
<1>5. ASSUME NEW c \in Conns, Cleanup(c) \/ Exit(c) \/ CloseClient(c)
      PROVE  UNCHANGED <<rows, acked>>
    BY <1>5 DEF Cleanup, Exit, CloseClient
<1>6. ASSUME WebFail \/ BeginStop \/ ListClients \/ CloseStore \/ JoinTimeout
                \/ ProcessEnds \/ Restart
      PROVE  UNCHANGED <<rows, acked>>
    BY <1>6 DEF WebFail, BeginStop, ListClients, CloseStore, JoinTimeout, ProcessEnds, Restart
<1>7. ASSUME UNCHANGED vars
      PROVE  UNCHANGED <<rows, acked>>
    BY <1>7 DEF vars
<1>8. QED
    BY <1>1, <1>2, <1>3, <1>4, <1>5, <1>6, <1>7 DEF Next, Thread

(* store.record, as the reply sees it                                      *)
LEMMA RecordStores ==
    ASSUME TypeOK, Places, NEW c \in Conns, Record(c)
    PROVE  /\ pc'[c] = "replying" =>
                \E i \in DOMAIN rows' : EntryOf(rows'[i]) = Entry(hand[c])
           /\ \A i \in DOMAIN rows : i \in DOMAIN rows' /\ rows'[i] = rows[i]
           /\ pc' = [pc EXCEPT ![c] = pc'[c]] /\ hand' = hand
<1> DEFINE n == Len(rows) + 1
           row == [key |-> hand[c].key, msg |-> hand[c].msg, content |-> hand[c].content, by |-> c]
<1>0. rows \in Seq([key : Keys, msg : MsgIds, content : Contents, by : Conns])
    BY DEF TypeOK
<1>1. pc' = [pc EXCEPT ![c] = pc'[c]] /\ hand' = hand
    BY DEF Record, TypeOK
<1>2. CASE rows' = Append(rows, row)
  <2>1. n \in DOMAIN rows' /\ rows'[n] = row
      BY <1>0, <1>2
  <2>2. EntryOf(row) = Entry(hand[c])
      BY DEF EntryOf, Entry
  <2>3. \A i \in DOMAIN rows : i \in DOMAIN rows' /\ rows'[i] = rows[i]
      BY <1>0, <1>2
  <2>4. QED
      BY <1>1, <2>1, <2>2, <2>3
<1>3. ASSUME NEW i \in Known(c, hand[c]), rows[i].content = hand[c].content, rows' = rows
      PROVE  \E j \in DOMAIN rows' : EntryOf(rows'[j]) = Entry(hand[c])
    BY <1>3 DEF Known, EntryOf, Entry
<1>4. CASE pc' # [pc EXCEPT ![c] = "replying"] /\ rows' = rows
    BY <1>1, <1>4
<1>5. QED
    BY <1>1, <1>2, <1>3, <1>4 DEF Record, TypeOK

LEMMA ReplyIsStoredKept ==
    TypeOK /\ Places /\ ReplyIsStored /\ [Next]_vars => ReplyIsStored'
<1> SUFFICES ASSUME TypeOK, Places, ReplyIsStored, [Next]_vars
             PROVE  ReplyIsStored'
    OBVIOUS
<1> DEFINE Same == /\ UNCHANGED rows
                   /\ \A d \in Conns :
                         pc'[d] = "replying" => \/ pc[d] = "replying" /\ hand'[d] = hand[d]
                                               \/ hand'[d].type # "result"
<1> USE DEF Leave, TypeOK, Holding, service, memory, stored
<1>1. ASSUME NEW c \in Conns, NEW f \in Frames, PopFrame(c, f)
      PROVE  Same
    BY <1>1 DEF PopFrame
<1>2. ASSUME NEW c \in Conns, Accept(c) \/ IdleTimeout(c) \/ LoopSeesClose(c) \/ LoopEnds(c)
      PROVE  Same
    BY <1>2 DEF Accept, IdleTimeout, LoopSeesClose, LoopEnds
<1>3. ASSUME NEW c \in Conns, ReceiveFatal(c) \/ ReceiveInvalid(c)
      PROVE  Same
    BY <1>3 DEF ReceiveFatal, ReceiveInvalid
<1>4. ASSUME NEW c \in Conns, ReceiveValid(c)
      PROVE  Same
    BY <1>4 DEF ReceiveValid
<1>5. ASSUME NEW c \in Conns, Reply(c) \/ Refuse(c)
      PROVE  Same
    BY <1>5 DEF Reply, Refuse
<1>6. ASSUME NEW c \in Conns, Fail(c) \/ Cleanup(c)
      PROVE  Same
    BY <1>6 DEF Fail, Cleanup
<1>7. ASSUME NEW c \in Conns, Exit(c) \/ CloseClient(c)
      PROVE  Same
    BY <1>7 DEF Exit, CloseClient
<1>8. ASSUME WebFail \/ BeginStop \/ ListClients \/ CloseStore \/ JoinTimeout \/ Restart
      PROVE  Same
    BY <1>8 DEF WebFail, BeginStop, ListClients, CloseStore, JoinTimeout, Restart
<1>9. ASSUME ProcessEnds
      PROVE  Same
    BY <1>9 DEF ProcessEnds
<1>10. ASSUME UNCHANGED vars
       PROVE  Same
    BY <1>10 DEF vars
<1>11. CASE Same
    BY <1>11 DEF ReplyIsStored
<1>12. ASSUME NEW c \in Conns, Record(c)
       PROVE  ReplyIsStored'
  <2> SUFFICES ASSUME NEW d \in Conns, pc'[d] = "replying", hand'[d].type = "result"
               PROVE  \E i \in DOMAIN rows' : EntryOf(rows'[i]) = Entry(hand'[d])
      BY DEF ReplyIsStored
  <2>1. CASE d = c
      BY <1>12, <2>1, RecordStores
  <2>2. CASE d # c
      <3>1. pc[d] = "replying" /\ hand'[d] = hand[d]
          BY <1>12, <2>2, RecordStores
      <3>2. PICK i \in DOMAIN rows : EntryOf(rows[i]) = Entry(hand[d])
          BY <3>1 DEF ReplyIsStored
      <3>3. QED
          BY <1>12, <3>1, <3>2, RecordStores
  <2>3. QED
      BY <2>1, <2>2
<1>13. QED
    BY <1>1, <1>2, <1>3, <1>4, <1>5, <1>6, <1>7, <1>8, <1>9, <1>10, <1>11, <1>12
       DEF Next, Thread

(* Storing a new row accepts its entry.                                    *)
LEMMA RecordAccepts ==
    ASSUME TypeOK, Places, NEW c \in Conns, Record(c)
    PROVE  \/ \E e \in [key : Keys, msg : MsgIds, content : Contents] : Log!Accept(e)
           \/ UNCHANGED <<rows, acked>>
<1> DEFINE f == hand[c]
           row == [key |-> f.key, msg |-> f.msg, content |-> f.content, by |-> c]
           mapped == [i \in DOMAIN rows |-> EntryOf(rows[i])]
<1>0. rows \in Seq([key : Keys, msg : MsgIds, content : Contents, by : Conns])
    BY DEF TypeOK
<1>1. acked' = acked
    BY DEF Record
<1>2. CASE Known(c, f) = {} /\ rows' = Append(rows, row)
  <2>1. f \in Results
      BY DEF Record, Places, HandIsFrame
  <2>2. Entry(f) \in [key : Keys, msg : MsgIds, content : Contents]
      BY <2>1 DEF Entry, Results
  <2>3. mapped \in Seq([key : Keys, msg : MsgIds, content : Contents])
    <3> DEFINE E == [key : Keys, msg : MsgIds, content : Contents]
               n == Len(rows)
    <3>1. DOMAIN rows = 1 .. n /\ n \in Nat
        BY <1>0
    <3>2. \A i \in 1 .. n : EntryOf(rows[i]) \in E
      <4> TAKE i \in 1 .. n
      <4>1. rows[i] \in [key : Keys, msg : MsgIds, content : Contents, by : Conns]
          BY <1>0, ElementOfSeq
      <4>2. QED
          BY <4>1 DEF EntryOf
    <3>3. mapped \in [1 .. n -> E]
        BY <3>1, <3>2
    <3> HIDE DEF E, n, mapped
    <3>4. mapped \in Seq(E)
        BY <3>1, <3>3
    <3>5. QED
        BY <3>4 DEF E
  <2>4. Len(mapped) = Len(rows)
      BY <1>0, <2>3
  <2>5. EntryOf(row) = Entry(f)
      BY DEF EntryOf, Entry
  <2>6. [i \in DOMAIN rows' |-> EntryOf(rows'[i])] = Append(mapped, Entry(f))
    <3>1. DOMAIN rows' = 1 .. Len(rows) + 1
        BY <1>0, <1>2
    <3>2. \A i \in 1 .. Len(rows) : rows'[i] = rows[i]
        BY <1>0, <1>2
    <3>3. rows'[Len(rows) + 1] = row
        BY <1>0, <1>2
    <3>4. Append(mapped, Entry(f)) =
             [i \in 1 .. Len(rows) + 1 |-> IF i = Len(rows) + 1 THEN Entry(f) ELSE mapped[i]]
        BY <2>2, <2>3, <2>4
    <3>5. DOMAIN rows = 1 .. Len(rows) /\ Len(rows) \in Nat
        BY <1>0
    <3>6. QED
        BY <2>5, <3>1, <3>2, <3>3, <3>4, <3>5
  <2>7. \A i \in DOMAIN mapped : ~(mapped[i].key = Entry(f).key /\ mapped[i].msg = Entry(f).msg)
      BY <1>2 DEF Known, EntryOf, Entry
  <2>8. QED
      BY <1>1, <2>2, <2>6, <2>7 DEF Log!Accept
<1>3. CASE rows' = rows
    BY <1>1, <1>3
<1>4. QED
    BY <1>2, <1>3 DEF Record

(* The receiver keeps the promise of ObservationLog: every step appends    *)
(* one new entry, acknowledges one that is in the log, or changes neither. *)
THEOREM ImplementsLog == Spec => KeepsLog
<1>1. Init => Log!Init
    BY DEF Init, Log!Init
<1>2. Init => ReplyIsStored
    BY DEF Init, ReplyIsStored
<1>3. EngineInv /\ ReplyIsStored /\ [Next]_vars => [Log!Next]_<<[i \in DOMAIN rows |-> EntryOf(rows[i])], acked>>
  <2> SUFFICES ASSUME EngineInv, ReplyIsStored, [Next]_vars
               PROVE  [Log!Next]_<<[i \in DOMAIN rows |-> EntryOf(rows[i])], acked>>
      OBVIOUS
  <2>1. ASSUME NEW c \in Conns, Record(c)
        PROVE  Log!Next \/ UNCHANGED <<rows, acked>>
      BY <2>1, RecordAccepts DEF EngineInv, Log!Next
  <2>2. ASSUME NEW c \in Conns, Reply(c)
        PROVE  Log!Next \/ UNCHANGED <<rows, acked>>
    <3>1. rows' = rows
        BY <2>2 DEF Reply
    <3>2. CASE acked' = acked \cup {Entry(hand[c])} /\ hand[c].type = "result"
      <4>1. pc[c] = "replying" /\ hand[c] \in Results
          BY <2>2, <3>2 DEF Reply, EngineInv, Places, HandIsFrame, InHand, Holding, Frames,
                Hellos, Results, Others
      <4>2. PICK i \in DOMAIN rows : EntryOf(rows[i]) = Entry(hand[c])
          BY <3>2, <4>1 DEF ReplyIsStored
      <4>3. Entry(hand[c]) \in [key : Keys, msg : MsgIds, content : Contents]
          BY <4>1 DEF Entry, Results
      <4>4. Log!Acknowledge(Entry(hand[c]))
          BY <3>1, <3>2, <4>2 DEF Log!Acknowledge, Log!Entered
      <4>5. QED
          BY <4>3, <4>4 DEF Log!Next
    <3>3. CASE acked' = acked
        BY <3>1, <3>3
    <3>4. QED
        BY <2>2, <3>2, <3>3 DEF Reply
  <2>3. QED
      BY <2>1, <2>2, LogChanges DEF EngineInv
<1>4. EngineInv /\ ReplyIsStored /\ [Next]_vars => ReplyIsStored'
    BY ReplyIsStoredKept DEF EngineInv
<1>5. QED
    BY AlwaysEngineInv, <1>1, <1>2, <1>3, <1>4, PTL DEF Spec, KeepsLog, Log!Spec

=============================================================================
