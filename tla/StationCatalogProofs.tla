----------------------- MODULE StationCatalogProofs -----------------------
(***************************************************************************)
(* Theorems about StationCatalog for every set of stations, boxes,         *)
(* barcodes, requests and messages, and any number of revisions.           *)
(***************************************************************************)
EXTENDS StationCatalog, TLAPS

-----------------------------------------------------------------------------
(* Lemmas about the operators.                                             *)

(* A list of boxes is a function from box ids to barcodes.                 *)
LEMMA BoxesAreFunctions ==
    ASSUME NEW f \in Boxes
    PROVE  /\ DOMAIN f \subseteq BoxIds
           /\ f = [b \in DOMAIN f |-> f[b]]
           /\ \A b \in DOMAIN f : f[b] \in Barcodes
  BY DEF Boxes

(* The converse, to build a list.                                          *)
LEMMA FunctionsAreBoxes ==
    ASSUME NEW S \in SUBSET BoxIds, NEW f \in [S -> Barcodes]
    PROVE  f \in Boxes
  BY DEF Boxes

(* A legacy row reads as a one-item list that every station selected.      *)
LEMMA LegacyType ==
    ASSUME NEW code \in Codes
    PROVE  /\ LegacyBoxes(code) \in Boxes
           /\ LegacySelections(code) \in Selections
           /\ DOMAIN LegacyBoxes(code) = IF code = Blank THEN {} ELSE {LEGACY}
<1>1. CASE code = Blank
  <2>1. LegacyBoxes(code) = [b \in {} |-> code]
    BY <1>1 DEF LegacyBoxes
  <2>2. LegacyBoxes(code) \in [{} -> Barcodes]
    BY <2>1
  <2>. QED BY <1>1, <2>1, <2>2, FunctionsAreBoxes DEF LegacySelections, Selections
<1>2. CASE code # Blank
  <2>1. LegacyBoxes(code) \in [{LEGACY} -> Barcodes]
    BY <1>2 DEF LegacyBoxes, Codes
  <2>2. {LEGACY} \in SUBSET BoxIds
    BY CatalogConstants
  <2>. QED BY <1>2, <2>1, <2>2, FunctionsAreBoxes, CatalogConstants
         DEF LegacySelections, Selections
<1>. QED BY <1>1, <1>2

(* Every stored row reads as a list with selections.                       *)
LEMMA CatalogType ==
    ASSUME NEW row \in Rows
    PROVE  CatalogFromRow(row) \in Catalogs
<1>1. CASE row \in OldRows
  BY <1>1, LegacyType DEF OldRows, CatalogFromRow, Catalogs
<1>2. CASE row \in ListRows
  <2>1. row.boxes # NULL
    BY <1>2, CatalogConstants DEF ListRows, Boxes
  <2>. QED BY <1>2, <2>1 DEF ListRows, CatalogFromRow, Catalogs
<1>. QED BY <1>1, <1>2 DEF Rows

(* A row of _change_catalog reads as what was written.                     *)
LEMMA NewRowRead ==
    ASSUME NEW boxes \in Boxes, NEW selections \in Selections
    PROVE  /\ NewRow(boxes, selections) \in ListRows
           /\ CatalogFromRow(NewRow(boxes, selections)) = [boxes |-> boxes, selections |-> selections]
<1>1. Common(boxes, selections) \in Codes
  <2>. DEFINE sole == {b \in DOMAIN boxes : DOMAIN boxes = {b} /\ \A s \in Stations : selections[s] = b}
  <2>1. CASE sole = {}
    BY <2>1 DEF Common, Codes
  <2>2. CASE sole # {}
    <3>1. (CHOOSE b \in sole : TRUE) \in DOMAIN boxes
      BY <2>2
    <3>. QED BY <2>2, <3>1, BoxesAreFunctions DEF Common, Codes
  <2>. QED BY <2>1, <2>2
<1>2. boxes # NULL
  BY CatalogConstants DEF Boxes
<1>. QED BY <1>1, <1>2 DEF NewRow, ListRows, CatalogFromRow

(* What an accepted request writes.                                        *)
LEMMA BuildType ==
    ASSUME NEW request \in Requests, NEW current \in Catalogs
    PROVE  \E boxes \in Boxes, selections \in Selections :
              Build(request, current) = NewRow(boxes, selections)
<1>. current.boxes \in Boxes /\ current.selections \in Selections
  BY DEF Catalogs
<1>1. CASE request \in StandardRequests
  BY <1>1, LegacyType DEF StandardRequests, Build
<1>2. CASE request \in CatalogRequests
  <2>1. request.boxes \in Boxes /\ request.op = "catalog"
    BY <1>2, CatalogConstants DEF CatalogRequests, Boxes
  <2>2. [s \in Stations |-> KeptSelection(current, request.boxes, s)] \in Selections
    BY DEF Selections, KeptSelection
  <2>. QED BY <2>1, <2>2 DEF Build
<1>3. CASE request \in SelectRequests
  <2>1. request.op = "select" /\ request.box \in BoxIds \cup {NoBox}
    BY <1>3 DEF SelectRequests
  <2>2. [current.selections EXCEPT ![request.station] = request.box] \in Selections
    BY <2>1 DEF Selections
  <2>. QED BY <2>1, <2>2 DEF Build
<1>. QED BY <1>1, <1>2, <1>3 DEF Requests

(* What record() stores beside a message.                                  *)
LEMMA JudgementType ==
    ASSUME NEW catalog \in Catalogs, NEW r \in Nat, NEW m \in Messages
    PROVE  Judgement(catalog, r, m) \in [revision : Int, box : BoxIds \cup {NoBox},
                                         standard : Codes, status : Statuses]
<1>. DEFINE b == catalog.selections[m.station]
<1>1. catalog.boxes \in Boxes /\ m.station \in Stations /\ m.reading \in Codes
  BY DEF Catalogs, Messages
<1>2. (IF b \in DOMAIN catalog.boxes THEN b ELSE NoBox) \in BoxIds \cup {NoBox}
  BY <1>1, BoxesAreFunctions
<1>3. (IF b \in DOMAIN catalog.boxes THEN catalog.boxes[b] ELSE Blank) \in Codes
  BY <1>1, BoxesAreFunctions DEF Codes
<1>4. Verdict(catalog, m.station, m.reading) \in Statuses
  BY DEF Verdict, Statuses
<1>. QED BY <1>2, <1>3, <1>4 DEF Judgement, Codes, Statuses

-----------------------------------------------------------------------------
(* Type correctness.                                                       *)

LEMMA CurrentType ==
    ASSUME TypeOK
    PROVE  /\ Revision \in Nat
           /\ \A r \in 0 .. Revision : CatalogAt(r) \in Catalogs
           /\ Current \in Catalogs
<1>1. Revision \in Nat
  BY DEF TypeOK, Revision
<1>2. ASSUME NEW r \in 0 .. Revision PROVE CatalogAt(r) \in Catalogs
  <2>1. standards[r + 1] \in Rows
    BY <1>1 DEF TypeOK, Revision
  <2>. QED BY <2>1, CatalogType DEF CatalogAt
<1>. QED BY <1>1, <1>2 DEF Current

(* An answer keeps the type of the answers.                                *)
AnswerTypes == [request : Requests, revision : Int, ahead : BOOLEAN,
                code : {"OK", "REQUEST_CONFLICT", "STATE_CHANGED", "UNKNOWN_BOX"}]
LEMMA AnswerKeepsType ==
    ASSUME NEW request \in Requests, NEW r \in Int,
           NEW code \in {"OK", "REQUEST_CONFLICT", "STATE_CHANGED", "UNKNOWN_BOX"},
           answers \subseteq AnswerTypes, Answer(request, code, r)
    PROVE  answers' \subseteq AnswerTypes
<1>. DEFINE later == request.revision > Revision
<1>1. later \in BOOLEAN
  OBVIOUS
<1>2. [request |-> request, code |-> code, revision |-> r, ahead |-> later] \in AnswerTypes
  BY <1>1 DEF AnswerTypes
<1>. QED BY <1>2 DEF Answer

(* Every reachable state has its type: rows, requests, observations and    *)
(* answers are those the schema and the handlers allow.                    *)
THEOREM TypeCorrect == Spec => []TypeOK
<1>1. Init => TypeOK
  <2>. SUFFICES ASSUME Init PROVE TypeOK
    OBVIOUS
  <2>. [barcode |-> Blank, boxes |-> NULL, selections |-> NULL] \in Rows
    BY DEF Rows, OldRows, Codes
  <2>1. CASE /\ standards = <<[barcode |-> Blank, boxes |-> NULL, selections |-> NULL]>>
             /\ updates = {}
    BY <2>1 DEF Init, TypeOK
  <2>2. ASSUME NEW request \in StandardRequests,
               standards = <<[barcode |-> Blank, boxes |-> NULL, selections |-> NULL],
                             [barcode |-> request.barcode, boxes |-> NULL, selections |-> NULL]>>,
               updates = {[request |-> request, revision |-> 1]}
        PROVE  TypeOK
    <3>1. [barcode |-> request.barcode, boxes |-> NULL, selections |-> NULL] \in Rows
      BY DEF Rows, OldRows, StandardRequests
    <3>. QED BY <2>2, <3>1 DEF Init, TypeOK, Requests
  <2>. QED BY <2>1, <2>2 DEF Init
<1>2. TypeOK /\ [Next]_vars => TypeOK'
  <2>. SUFFICES ASSUME TypeOK, [Next]_vars PROVE TypeOK'
    OBVIOUS
  <2>0. answers \subseteq AnswerTypes
    BY DEF TypeOK, AnswerTypes
  <2>1. ASSUME NEW request \in Requests, Replay(request) PROVE TypeOK'
    <3>1. answers' \subseteq AnswerTypes
      <4>1. PICK u \in updates :
              \/ Answer(request, "OK", u.revision)
              \/ Answer(request, "REQUEST_CONFLICT", -1)
        BY <2>1 DEF Replay
      <4>2. u.revision \in Int /\ -1 \in Int
        BY DEF TypeOK
      <4>. QED BY <2>0, <4>1, <4>2, AnswerKeepsType
    <3>. QED BY <2>1, <3>1 DEF Replay, TypeOK, AnswerTypes
  <2>2. ASSUME NEW request \in Requests, Refuse(request) PROVE TypeOK'
    <3>1. answers' \subseteq AnswerTypes
      BY <2>0, <2>2, AnswerKeepsType DEF Refuse
    <3>. QED BY <2>2, <3>1 DEF Refuse, TypeOK, AnswerTypes
  <2>3. ASSUME NEW request \in Requests, Apply(request) PROVE TypeOK'
    <3>1. Revision \in Nat /\ Current \in Catalogs
      BY CurrentType
    <3>2. Build(request, Current) \in Rows
      BY <3>1, BuildType, NewRowRead DEF Rows
    <3>3. standards' \in Seq(Rows) /\ Len(standards') >= 1
      BY <2>3, <3>2 DEF Apply, TypeOK
    <3>4. updates' \subseteq [request : Requests, revision : Nat]
      BY <2>3, <3>1 DEF Apply, TypeOK
    <3>5. answers' \subseteq AnswerTypes
      BY <2>0, <2>3, <3>1, AnswerKeepsType DEF Apply
    <3>. QED BY <2>3, <3>1, <3>3, <3>4, <3>5 DEF Apply, TypeOK, AnswerTypes
  <2>4. ASSUME NEW m \in Messages, RecordNew(m) PROVE TypeOK'
    <3>1. Judgement(Current, Revision, m) \in
            [revision : Int, box : BoxIds \cup {NoBox}, standard : Codes, status : Statuses]
      BY CurrentType, JudgementType
    <3>. QED BY <2>4, <3>1 DEF RecordNew, TypeOK
  <2>5. ASSUME NEW m \in Messages, RecordAgain(m) PROVE TypeOK'
    BY <2>5 DEF RecordAgain, TypeOK
  <2>6. CASE UNCHANGED vars
    BY <2>6 DEF vars, TypeOK
  <2>. QED BY <2>1, <2>2, <2>3, <2>4, <2>5, <2>6 DEF Next
<1>. QED BY <1>1, <1>2, PTL DEF Spec

-----------------------------------------------------------------------------
(* What a step does to the revisions already written.                      *)

(* Apply appends one revision and leaves the older ones as they are.       *)
LEMMA ApplyEffect ==
    ASSUME TypeOK, NEW request \in Requests, Apply(request)
    PROVE  /\ Revision' = Revision + 1
           /\ \A r \in 0 .. Revision : CatalogAt(r)' = CatalogAt(r)
           /\ \A r \in 0 .. Revision' :
                 r \in 0 .. Revision \/ CatalogAt(r)' = CatalogFromRow(Build(request, Current))
<1>1. Revision \in Nat /\ Len(standards) \in Nat /\ Len(standards) = Revision + 1
  BY CurrentType DEF Revision, TypeOK
<1>2. standards' = Append(standards, Build(request, Current))
  BY DEF Apply
<1>3. Revision' = Revision + 1
  BY <1>1, <1>2 DEF Revision, TypeOK
<1>4. ASSUME NEW r \in 0 .. Revision PROVE CatalogAt(r)' = CatalogAt(r)
  <2>1. standards'[r + 1] = standards[r + 1]
    BY <1>1, <1>2 DEF TypeOK
  <2>. QED BY <2>1 DEF CatalogAt, CatalogFromRow
<1>5. standards'[(Revision + 1) + 1] = Build(request, Current)
  BY <1>1, <1>2 DEF TypeOK
<1>6. ASSUME NEW r \in 0 .. Revision', r \notin 0 .. Revision
      PROVE  CatalogAt(r)' = CatalogFromRow(Build(request, Current))
  <2>1. r = Revision + 1
    BY <1>1, <1>3, <1>6
  <2>. QED BY <1>5, <2>1 DEF CatalogAt, CatalogFromRow
<1>. QED BY <1>1, <1>3, <1>4, <1>6

(* The list a request writes, case by case.                                *)
LEMMA BuildRead ==
    ASSUME NEW request \in Requests, NEW current \in Catalogs
    PROVE  LET new == CatalogFromRow(Build(request, current)) IN
           \/ /\ request.op = "standard" /\ request.barcode \in Codes
              /\ new = [boxes |-> LegacyBoxes(request.barcode),
                        selections |-> LegacySelections(request.barcode)]
           \/ /\ request.op = "catalog"
              /\ new = [boxes |-> request.boxes,
                        selections |-> [s \in Stations |-> KeptSelection(current, request.boxes, s)]]
           \/ /\ request.op = "select" /\ request.station \in Stations
              /\ request.box \in BoxIds \cup {NoBox}
              /\ new = [boxes |-> current.boxes,
                        selections |-> [current.selections EXCEPT ![request.station] = request.box]]
<1>. current.boxes \in Boxes /\ current.selections \in Selections
  BY DEF Catalogs
<1>1. CASE request \in StandardRequests
  BY <1>1, LegacyType, NewRowRead DEF StandardRequests, Build
<1>2. CASE request \in CatalogRequests
  <2>1. request.boxes \in Boxes /\ request.op = "catalog"
    BY <1>2, CatalogConstants DEF CatalogRequests, Boxes
  <2>2. [s \in Stations |-> KeptSelection(current, request.boxes, s)] \in Selections
    BY DEF Selections, KeptSelection
  <2>. QED BY <2>1, <2>2, NewRowRead DEF Build
<1>3. CASE request \in SelectRequests
  <2>1. request.op = "select" /\ request.box \in BoxIds \cup {NoBox} /\ request.station \in Stations
    BY <1>3 DEF SelectRequests
  <2>2. [current.selections EXCEPT ![request.station] = request.box] \in Selections
    BY <2>1 DEF Selections
  <2>. QED BY <2>1, <2>2, NewRowRead DEF Build
<1>. QED BY <1>1, <1>2, <1>3 DEF Requests

(* All other steps leave the revisions alone.                              *)
LEMMA OtherSteps ==
    ASSUME UNCHANGED standards
    PROVE  Revision' = Revision /\ \A r : CatalogAt(r)' = CatalogAt(r)
  BY DEF Revision, CatalogAt, CatalogFromRow

(* The revisions a new or a migrated database starts with.                 *)
LEMMA InitialCatalogs ==
    ASSUME Init
    PROVE  /\ Revision \in {0, 1}
           /\ \A r \in 0 .. Revision :
                 \E code \in Codes : CatalogAt(r) = [boxes |-> LegacyBoxes(code),
                                                     selections |-> LegacySelections(code)]
<1>1. CASE standards = <<[barcode |-> Blank, boxes |-> NULL, selections |-> NULL]>>
  BY <1>1 DEF Revision, CatalogAt, CatalogFromRow, Codes
<1>2. ASSUME NEW request \in StandardRequests,
             standards = <<[barcode |-> Blank, boxes |-> NULL, selections |-> NULL],
                           [barcode |-> request.barcode, boxes |-> NULL, selections |-> NULL]>>
      PROVE  /\ Revision = 1
             /\ \A r \in 0 .. 1 :
                   \E code \in Codes : CatalogAt(r) = [boxes |-> LegacyBoxes(code),
                                                       selections |-> LegacySelections(code)]
  <2>1. request.barcode \in Codes /\ Blank \in Codes
    BY DEF StandardRequests, Codes
  <2>2. Revision = 1
    BY <1>2 DEF Revision
  <2>3. CatalogAt(0) = [boxes |-> LegacyBoxes(Blank), selections |-> LegacySelections(Blank)]
    BY <1>2 DEF CatalogAt, CatalogFromRow
  <2>4. CatalogAt(1) = [boxes |-> LegacyBoxes(request.barcode),
                        selections |-> LegacySelections(request.barcode)]
    BY <1>2 DEF CatalogAt, CatalogFromRow
  <2>. QED BY <2>1, <2>2, <2>3, <2>4
<1>. QED BY <1>1, <1>2 DEF Init

-----------------------------------------------------------------------------
(* Selections.                                                             *)

(* For every number of stations, boxes and revisions, a selection names a  *)
(* box of its revision's list.                                             *)
THEOREM SelectionsAlwaysExist == Spec => []SelectionsExist
<1>1. Init => SelectionsExist
  BY InitialCatalogs, LegacyType DEF SelectionsExist, LegacySelections
<1>2. TypeOK /\ SelectionsExist /\ [Next]_vars => SelectionsExist'
  <2>. SUFFICES ASSUME TypeOK, SelectionsExist, [Next]_vars PROVE SelectionsExist'
    OBVIOUS
  <2>1. ASSUME NEW request \in Requests, Apply(request) PROVE SelectionsExist'
    <3>. DEFINE new == CatalogFromRow(Build(request, Current))
    <3>. ~UnknownBox(request, Current)
      BY <2>1 DEF Apply
    <3>1. Current \in Catalogs /\ \A s \in Stations : Current.selections[s] \in DOMAIN Current.boxes \cup {NoBox}
      BY CurrentType DEF Current, SelectionsExist
    <3>2. ASSUME NEW s \in Stations PROVE new.selections[s] \in DOMAIN new.boxes \cup {NoBox}
      <4>1. CASE /\ request.op = "standard" /\ request.barcode \in Codes
                 /\ new = [boxes |-> LegacyBoxes(request.barcode),
                           selections |-> LegacySelections(request.barcode)]
        BY <4>1, LegacyType DEF LegacySelections
      <4>2. CASE new = [boxes |-> request.boxes,
                        selections |-> [t \in Stations |-> KeptSelection(Current, request.boxes, t)]]
        BY <4>2 DEF KeptSelection
      <4>3. CASE /\ request.op = "select" /\ request.station \in Stations
                 /\ new = [boxes |-> Current.boxes,
                           selections |-> [Current.selections EXCEPT ![request.station] = request.box]]
        BY <3>1, <4>3 DEF UnknownBox, Catalogs, Selections
      <4>. QED BY <3>1, <4>1, <4>2, <4>3, BuildRead
    <3>3. ASSUME NEW r \in 0 .. Revision', NEW s \in Stations
          PROVE  CatalogAt(r)'.selections[s] \in DOMAIN CatalogAt(r)'.boxes \cup {NoBox}
      BY <2>1, <3>2, ApplyEffect DEF SelectionsExist
    <3>. QED BY <3>3 DEF SelectionsExist
  <2>2. CASE UNCHANGED standards
    BY <2>2, OtherSteps DEF SelectionsExist
  <2>. QED BY <2>1, <2>2 DEF Next, Replay, Refuse, RecordNew, RecordAgain, vars
<1>. QED BY <1>1, <1>2, TypeCorrect, PTL DEF Spec

-----------------------------------------------------------------------------
(* Revisions and requests.                                                 *)

(* Two administrators that start from the same revision never both take    *)
(* effect, and a repeated request takes effect once.                       *)
THEOREM NeverLosesAnUpdate == Spec => []NoLostUpdate
<1>1. Init => NoLostUpdate
  <2>1. ASSUME Len(standards) = 1, updates = {} PROVE NoLostUpdate
    BY <2>1 DEF NoLostUpdate, Revision
  <2>2. ASSUME Len(standards) = 2, NEW request, request.revision = 0,
               updates = {[request |-> request, revision |-> 1]}
        PROVE  NoLostUpdate
    BY <2>2 DEF NoLostUpdate, Revision
  <2>. QED BY <2>1, <2>2 DEF Init
<1>2. TypeOK /\ NoLostUpdate /\ [Next]_vars => NoLostUpdate'
  <2>. SUFFICES ASSUME TypeOK, NoLostUpdate, [Next]_vars PROVE NoLostUpdate'
    OBVIOUS
  <2>1. ASSUME NEW request \in Requests, Apply(request) PROVE NoLostUpdate'
    <3>1. Revision \in Nat /\ Revision' = Revision + 1
      BY <2>1, CurrentType, ApplyEffect
    <3>2. /\ updates' = updates \cup {[request |-> request, revision |-> Revision + 1]}
          /\ request.revision = Revision
          /\ \A u \in updates : u.request.id # request.id
      BY <2>1 DEF Apply, Stale, Used
    <3>3. \A u \in updates' : u.request.revision + 1 = u.revision /\ u.revision \in 1 .. Revision'
      BY <3>1, <3>2 DEF NoLostUpdate
    <3>4. ASSUME NEW r \in 1 .. Revision' PROVE \E u \in updates' : u.revision = r
      <4>1. CASE r = Revision + 1
        <5>. DEFINE u == [request |-> request, revision |-> Revision + 1]
        <5>1. u \in updates' /\ u.revision = r
          BY <3>2, <4>1
        <5>. QED BY <5>1
      <4>2. CASE r # Revision + 1
        BY <3>1, <3>2, <4>2 DEF NoLostUpdate
      <4>. QED BY <4>1, <4>2
    <3>5. \A u, w \in updates' : u.revision = w.revision \/ u.request.id = w.request.id => u = w
      BY <3>1, <3>2 DEF NoLostUpdate
    <3>. QED BY <3>3, <3>4, <3>5 DEF NoLostUpdate
  <2>2. CASE UNCHANGED <<standards, updates>>
    BY <2>2 DEF NoLostUpdate, Revision
  <2>. QED BY <2>1, <2>2 DEF Next, Replay, Refuse, RecordNew, RecordAgain, vars
<1>. QED BY <1>1, <1>2, TypeCorrect, PTL DEF Spec

-----------------------------------------------------------------------------
(* Answers.                                                                *)

(* The strengthening: an OK answer stands for a row of standard_updates,   *)
(* and a refused request was ahead of the list or can no longer be         *)
(* accepted, because its revision has passed, its id is taken or its box   *)
(* is not in the list of its revision.                                     *)
Hopeless(request) ==
    /\ \A u \in updates : u.request # request
    /\ \/ request.revision < Revision
       \/ Used(request.id)
       \/ request.revision = Revision /\ UnknownBox(request, Current)

AnswersExplained ==
    \A a \in answers :
        IF a.code = "OK"
        THEN [request |-> a.request, revision |-> a.revision] \in updates
        ELSE (a.code = "STATE_CHANGED" /\ a.ahead) \/ Hopeless(a.request)

(* What a browser is told about a request stays true: no request is        *)
(* answered OK and refused, in whichever order its copies arrive, unless   *)
(* the refusal came while the request was ahead of the list.               *)
THEOREM AnswersAlwaysAgree == Spec => []AnswersAgree
<1>. DEFINE IInv == NoLostUpdate /\ AnswersExplained
<1>1. Init => AnswersExplained
  BY DEF Init, AnswersExplained
<1>2. TypeOK /\ IInv /\ [Next]_vars => AnswersExplained'
  <2>. SUFFICES ASSUME TypeOK, IInv, [Next]_vars PROVE AnswersExplained'
    OBVIOUS
  <2>1. ASSUME NEW request \in Requests, Refuse(request) PROVE AnswersExplained'
    <3>1. /\ UNCHANGED <<standards, updates>>
          /\ Revision' = Revision /\ Current' = Current
      BY <2>1 DEF Refuse, Revision, Current, CatalogAt, CatalogFromRow
    <3>2. request.revision \in Int /\ Revision \in Int /\ \A u \in updates : u.request # request
      BY <2>1, CurrentType DEF Refuse, Used, Requests, StandardRequests, CatalogRequests,
         SelectRequests, Revisions
    <3>0. \A q : Hopeless(q) => Hopeless(q)'
      BY <3>1 DEF Hopeless, Used, UnknownBox
    <3>3. ASSUME NEW a \in answers', a \notin answers
          PROVE  /\ a.request = request /\ a.code # "OK"
                 /\ (a.code = "STATE_CHANGED" /\ a.ahead) \/ Hopeless(request)
      <4>1. CASE Stale(request) /\ Answer(request, "STATE_CHANGED", -1)
        <5>1. /\ a.request = request /\ a.code = "STATE_CHANGED"
              /\ a.ahead = (request.revision > Revision)
          BY <3>3, <4>1 DEF Answer
        <5>2. request.revision > Revision \/ request.revision < Revision
          BY <3>2, <4>1 DEF Stale
        <5>3. CASE request.revision > Revision
          BY <5>1, <5>3
        <5>4. CASE request.revision < Revision
          BY <3>2, <5>1, <5>4 DEF Hopeless
        <5>. QED BY <5>2, <5>3, <5>4
      <4>2. CASE ~Stale(request) /\ UnknownBox(request, Current) /\ Answer(request, "UNKNOWN_BOX", -1)
        <5>1. a.request = request /\ a.code = "UNKNOWN_BOX"
          BY <3>3, <4>2 DEF Answer
        <5>. QED BY <3>2, <4>2, <5>1 DEF Hopeless, Stale
      <4>. QED BY <2>1, <4>1, <4>2 DEF Refuse
    <3>4. ASSUME NEW a \in answers'
          PROVE  IF a.code = "OK"
                 THEN [request |-> a.request, revision |-> a.revision] \in updates'
                 ELSE (a.code = "STATE_CHANGED" /\ a.ahead) \/ Hopeless(a.request)'
      <4>1. CASE a \in answers
        BY <3>0, <3>1, <4>1 DEF AnswersExplained
      <4>2. CASE a \notin answers
        BY <3>0, <3>3, <4>2
      <4>. QED BY <4>1, <4>2
    <3>. QED BY <3>4 DEF AnswersExplained
  <2>2. ASSUME NEW request \in Requests, Replay(request) PROVE AnswersExplained'
    <3>1. /\ UNCHANGED <<standards, updates>>
          /\ Revision' = Revision /\ Current' = Current
      BY <2>2 DEF Replay, Revision, Current, CatalogAt, CatalogFromRow
    <3>2. PICK u \in updates :
            /\ u.request.id = request.id
            /\ \/ u.request = request /\ Answer(request, "OK", u.revision)
               \/ u.request # request /\ Answer(request, "REQUEST_CONFLICT", -1)
      BY <2>2 DEF Replay
    <3>3. u = [request |-> u.request, revision |-> u.revision]
      BY DEF TypeOK
    <3>4. CASE u.request = request /\ Answer(request, "OK", u.revision)
      <4>1. \A a \in answers' : a \in answers \/
               (a.code = "OK" /\ a.request = u.request /\ a.revision = u.revision)
        BY <3>4 DEF Answer
      <4>. QED BY <3>1, <3>3, <4>1 DEF AnswersExplained, Hopeless, Used, UnknownBox
    <3>5. CASE u.request # request /\ Answer(request, "REQUEST_CONFLICT", -1)
      <4>1. \A a \in answers' : a \in answers \/ (a.code # "OK" /\ a.request = request)
        BY <3>5 DEF Answer
      <4>2. \A w \in updates : w.request # request
        BY <3>2, <3>5 DEF NoLostUpdate
      <4>. QED BY <3>1, <3>2, <4>1, <4>2 DEF AnswersExplained, Hopeless, Used, UnknownBox
    <3>. QED BY <3>2, <3>4, <3>5
  <2>3. ASSUME NEW request \in Requests, Apply(request) PROVE AnswersExplained'
    <3>1. Revision \in Nat /\ Revision' = Revision + 1
      BY <2>3, CurrentType, ApplyEffect
    <3>2. /\ updates' = updates \cup {[request |-> request, revision |-> Revision + 1]}
          /\ answers' = answers \cup {[request |-> request, code |-> "OK", revision |-> Revision + 1,
                                        ahead |-> request.revision > Revision]}
          /\ request.revision = Revision /\ ~Used(request.id) /\ ~UnknownBox(request, Current)
      BY <2>3 DEF Apply, Answer, Stale
    <3>3. ASSUME NEW a \in answers, a.code = "OK"
          PROVE  [request |-> a.request, revision |-> a.revision] \in updates'
      BY <3>2, <3>3 DEF AnswersExplained
    <3>4. ASSUME NEW a \in answers, a.code # "OK", ~(a.code = "STATE_CHANGED" /\ a.ahead)
          PROVE  /\ \A u \in updates' : u.request # a.request
                 /\ a.request.revision < Revision' \/ Used(a.request.id)'
      <4>1. /\ \A u \in updates : u.request # a.request
            /\ \/ a.request.revision < Revision
               \/ Used(a.request.id)
               \/ a.request.revision = Revision /\ UnknownBox(a.request, Current)
        BY <3>4 DEF AnswersExplained, Hopeless
      <4>2. a.request.revision \in Int
        BY DEF TypeOK, Requests, StandardRequests, CatalogRequests, SelectRequests, Revisions
      <4>3. a.request # request
        BY <3>1, <3>2, <4>1
      <4>4. \A u \in updates' : u.request # a.request
        BY <3>2, <4>1, <4>3
      <4>5. Used(a.request.id) => Used(a.request.id)'
        BY <3>2 DEF Used
      <4>. QED BY <3>1, <4>1, <4>2, <4>4, <4>5
    <3>5. ASSUME NEW a \in answers'
          PROVE  IF a.code = "OK"
                 THEN [request |-> a.request, revision |-> a.revision] \in updates'
                 ELSE \/ (a.code = "STATE_CHANGED" /\ a.ahead)
                      \/ /\ \A u \in updates' : u.request # a.request
                         /\ a.request.revision < Revision' \/ Used(a.request.id)'
      <4>1. CASE a \in answers
        BY <3>3, <3>4, <4>1
      <4>2. CASE a = [request |-> request, code |-> "OK", revision |-> Revision + 1,
                      ahead |-> request.revision > Revision]
        BY <3>2, <4>2
      <4>. QED BY <3>2, <4>1, <4>2
    <3>. QED BY <3>5 DEF AnswersExplained, Hopeless
  <2>4. CASE UNCHANGED <<standards, updates, answers>>
    BY <2>4 DEF AnswersExplained, Hopeless, Used, Revision, Current, CatalogAt, CatalogFromRow, UnknownBox
  <2>. QED BY <2>1, <2>2, <2>3, <2>4 DEF Next, RecordNew, RecordAgain, vars
<1>3. NoLostUpdate /\ AnswersExplained => AnswersAgree
  <2>. SUFFICES ASSUME NoLostUpdate, AnswersExplained, NEW a \in answers, NEW b \in answers,
                       a.request = b.request, a.code = "OK"
                PROVE  \/ b.code = "OK" /\ a.revision = b.revision
                       \/ b.code = "STATE_CHANGED" /\ b.ahead
    BY DEF AnswersAgree
  <2>. DEFINE u == [request |-> a.request, revision |-> a.revision]
              w == [request |-> b.request, revision |-> b.revision]
  <2>1. u \in updates /\ u.request = b.request
    BY DEF AnswersExplained
  <2>2. CASE b.code = "OK"
    <3>1. w \in updates /\ u.request.id = w.request.id
      BY <2>2 DEF AnswersExplained
    <3>2. u = w
      BY <2>1, <3>1 DEF NoLostUpdate
    <3>. QED BY <2>2, <3>2
  <2>3. CASE b.code # "OK"
    BY <2>1, <2>3 DEF AnswersExplained, Hopeless
  <2>. QED BY <2>2, <2>3
<1>. QED BY <1>1, <1>2, <1>3, TypeCorrect, NeverLosesAnUpdate, PTL DEF Spec

-----------------------------------------------------------------------------
(* Observations.                                                           *)

(* An acknowledged message stays on record, once, with its content.        *)
THEOREM AckedAlwaysRecorded == Spec => []AckedIsRecorded
<1>1. Init => AckedIsRecorded
  BY DEF Init, AckedIsRecorded
<1>2. TypeOK /\ AckedIsRecorded /\ [Next]_vars => AckedIsRecorded'
  <2>. SUFFICES ASSUME TypeOK, AckedIsRecorded, [Next]_vars PROVE AckedIsRecorded'
    OBVIOUS
  <2>1. ASSUME NEW m \in Messages, RecordNew(m) PROVE AckedIsRecorded'
    <3>. DEFINE row == [message |-> m, judged |-> Judgement(Current, Revision, m)]
    <3>1. /\ results' = Append(results, row)
          /\ acks' = acks \cup {[message |-> m, id |-> Len(results) + 1]}
          /\ \A i \in DOMAIN results : ~SameKey(results[i].message, m)
      BY <2>1 DEF RecordNew
    <3>2. /\ Len(results) \in Nat
          /\ DOMAIN results = 1 .. Len(results)
          /\ DOMAIN results' = 1 .. Len(results) + 1
          /\ \A i \in DOMAIN results : results'[i] = results[i]
          /\ results'[Len(results) + 1] = row
      BY <3>1 DEF TypeOK
    <3>3. \A a \in acks' : a.id \in DOMAIN results' /\ results'[a.id].message = a.message
      BY <3>1, <3>2 DEF AckedIsRecorded
    <3>4. ASSUME NEW i \in DOMAIN results', NEW j \in DOMAIN results',
                 SameKey(results'[i].message, results'[j].message)
          PROVE  i = j
      <4>1. i \in DOMAIN results \/ i = Len(results) + 1
        BY <3>2
      <4>2. j \in DOMAIN results \/ j = Len(results) + 1
        BY <3>2
      <4>. QED BY <3>1, <3>2, <3>4, <4>1, <4>2 DEF AckedIsRecorded, SameKey
    <3>. QED BY <3>3, <3>4 DEF AckedIsRecorded
  <2>2. ASSUME NEW m \in Messages, RecordAgain(m) PROVE AckedIsRecorded'
    BY <2>2 DEF RecordAgain, AckedIsRecorded, SameKey, SameContent
  <2>3. CASE UNCHANGED <<results, acks>>
    BY <2>3 DEF AckedIsRecorded, SameKey
  <2>. QED BY <2>1, <2>2, <2>3 DEF Next, Replay, Refuse, Apply, vars
<1>. QED BY <1>1, <1>2, TypeCorrect, PTL DEF Spec

(* The strengthening: no observation refers to a revision to come.         *)
NoFutureRevision ==
    \A i \in DOMAIN results : results[i].judged.revision <= Revision

(* Observations keep the verdict of the list they were received under, for *)
(* any number of later imports and selections.                             *)
THEOREM HistoryIsNeverRejudged == Spec => []HistoryNeverRejudged
<1>. DEFINE IInv == HistoryNeverRejudged /\ NoFutureRevision
<1>1. Init => IInv
  BY DEF Init, HistoryNeverRejudged, NoFutureRevision
<1>2. TypeOK /\ IInv /\ [Next]_vars => IInv'
  <2>. SUFFICES ASSUME TypeOK, IInv, [Next]_vars PROVE IInv'
    OBVIOUS
  <2>1. ASSUME NEW request \in Requests, Apply(request) PROVE IInv'
    <3>1. /\ results' = results
          /\ Revision \in Nat /\ Revision' = Revision + 1
          /\ \A r \in 0 .. Revision : CatalogAt(r)' = CatalogAt(r)
      BY <2>1, CurrentType, ApplyEffect DEF Apply
    <3>2. ASSUME NEW i \in DOMAIN results PROVE results[i].judged.revision \in Int
      <4>. DEFINE R == [message : Messages,
                        judged : [revision : Int, box : BoxIds \cup {NoBox},
                                  standard : Codes, status : Statuses]]
      <4>1. results \in Seq(R)
        BY DEF TypeOK
      <4>2. \A row \in R : row.judged.revision \in Int
        OBVIOUS
      <4>. HIDE DEF R
      <4>3. results[i] \in R
        BY <4>1
      <4>. QED BY <4>2, <4>3
    <3>3. NoFutureRevision'
      BY <3>1, <3>2 DEF NoFutureRevision
    <3>4. ASSUME NEW i \in DOMAIN results, results[i].message.project = "packaging"
          PROVE  /\ results[i].judged.revision \in 0 .. Revision'
                 /\ results[i].judged = Judgement(CatalogAt(results[i].judged.revision)',
                                                  results[i].judged.revision, results[i].message)
      BY <3>1, <3>4 DEF HistoryNeverRejudged
    <3>. QED BY <3>1, <3>3, <3>4 DEF HistoryNeverRejudged
  <2>2. ASSUME NEW m \in Messages, RecordNew(m) PROVE IInv'
    <3>. DEFINE row == [message |-> m, judged |-> Judgement(Current, Revision, m)]
    <3>1. /\ results' = Append(results, row)
          /\ Revision \in Nat /\ Revision' = Revision
          /\ \A r : CatalogAt(r)' = CatalogAt(r)
      BY <2>2, CurrentType, OtherSteps DEF RecordNew
    <3>2. /\ Len(results) \in Nat
          /\ DOMAIN results = 1 .. Len(results)
          /\ DOMAIN results' = 1 .. Len(results) + 1
          /\ \A i \in DOMAIN results : results'[i] = results[i]
          /\ results'[Len(results) + 1] = row
      BY <3>1 DEF TypeOK
    <3>3. \A i \in DOMAIN results' : i \in DOMAIN results \/ i = Len(results) + 1
      BY <3>2
    <3>4. /\ row.message = m
          /\ m.project \in {"screw", "packaging"}
          /\ row.judged.revision = IF m.project = "screw" THEN -1 ELSE Revision
          /\ row.judged = Judgement(CatalogAt(Revision), Revision, m)
      <4>1. row.message = m /\ row.judged = Judgement(CatalogAt(Revision), Revision, m)
        BY DEF Current
      <4>2. Judgement(Current, Revision, m).revision = IF m.project = "screw" THEN -1 ELSE Revision
        BY DEF Judgement
      <4>. QED BY <4>1, <4>2 DEF Messages
    <3>5. NoFutureRevision'
      BY <3>1, <3>2, <3>3, <3>4 DEF NoFutureRevision
    <3>6. ASSUME NEW i \in DOMAIN results', results'[i].message.project = "packaging"
          PROVE  /\ results'[i].judged.revision \in 0 .. Revision
                 /\ results'[i].judged = Judgement(CatalogAt(results'[i].judged.revision),
                                                   results'[i].judged.revision, results'[i].message)
      <4>1. CASE i \in DOMAIN results
        BY <3>2, <3>6, <4>1 DEF HistoryNeverRejudged
      <4>2. CASE i = Len(results) + 1
        BY <3>1, <3>2, <3>4, <3>6, <4>2
      <4>. QED BY <3>3, <4>1, <4>2
    <3>7. ASSUME NEW i \in DOMAIN results', NEW j \in DOMAIN results', i < j,
                 results'[j].message.project = "packaging"
          PROVE  results'[i].judged.revision <= results'[j].judged.revision
      <4>1. i \in DOMAIN results
        BY <3>2, <3>7
      <4>2. CASE j \in DOMAIN results
        BY <3>2, <3>7, <4>1, <4>2 DEF HistoryNeverRejudged
      <4>3. CASE j = Len(results) + 1
        BY <3>2, <3>4, <3>7, <4>1, <4>3 DEF NoFutureRevision
      <4>. QED BY <3>3, <4>2, <4>3
    <3>. QED BY <3>1, <3>5, <3>6, <3>7 DEF HistoryNeverRejudged
  <2>3. CASE UNCHANGED <<standards, results>>
    BY <2>3, OtherSteps DEF HistoryNeverRejudged, NoFutureRevision
  <2>. QED BY <2>1, <2>2, <2>3 DEF Next, Replay, Refuse, RecordAgain, vars
<1>. QED BY <1>1, <1>2, TypeCorrect, PTL DEF Spec

-----------------------------------------------------------------------------
(* Explicit choice of the standard in force.                               *)

(* A station's box and barcode go back, unchanged, to a request in which   *)
(* somebody chose them, however many imports came in between.              *)
THEOREM TargetsAreChosen == Spec => []TargetWasChosen
<1>1. Init => TargetWasChosen
  <2>. SUFFICES ASSUME Init, NEW r \in 0 .. Revision, NEW s \in Stations, Target(r, s) # {}
                PROVE  \E q \in 0 .. r :
                          ChoiceAt(q, s) /\ \A t \in q .. r : Target(t, s) = Target(r, s)
    BY DEF TargetWasChosen
  <2>1. ASSUME standards[r + 1].barcode = Blank, standards[r + 1].boxes = NULL PROVE FALSE
    <3>1. CatalogAt(r) = [boxes |-> LegacyBoxes(Blank), selections |-> LegacySelections(Blank)]
      BY <2>1 DEF CatalogAt, CatalogFromRow
    <3>2. DOMAIN CatalogAt(r).boxes = {}
      BY <3>1 DEF LegacyBoxes
    <3>. QED BY <3>2 DEF Target
  <2>2. PICK request \in StandardRequests :
          /\ standards = <<[barcode |-> Blank, boxes |-> NULL, selections |-> NULL],
                           [barcode |-> request.barcode, boxes |-> NULL, selections |-> NULL]>>
          /\ updates = {[request |-> request, revision |-> 1]}
    BY <2>1 DEF Init, Revision
  <2>3. r = 1
    BY <2>1, <2>2 DEF Revision
  <2>4. ChoiceAt(1, s)
    BY <2>2 DEF ChoiceAt, StandardRequests
  <2>. QED BY <2>3, <2>4
<1>2. TypeOK /\ SelectionsExist /\ NoLostUpdate /\ TargetWasChosen /\ [Next]_vars => TargetWasChosen'
  <2>. SUFFICES ASSUME TypeOK, SelectionsExist, NoLostUpdate, TargetWasChosen, [Next]_vars
                PROVE  TargetWasChosen'
    OBVIOUS
  <2>1. ASSUME NEW request \in Requests, Apply(request) PROVE TargetWasChosen'
    <3>. DEFINE new == CatalogFromRow(Build(request, Current))
    <3>1. /\ Revision \in Nat /\ Revision' = Revision + 1 /\ Current \in Catalogs
          /\ \A r \in 0 .. Revision : CatalogAt(r)' = CatalogAt(r)
          /\ \A r \in 0 .. Revision' : r \in 0 .. Revision \/ CatalogAt(r)' = new
      BY <2>1, CurrentType, ApplyEffect
    <3>2. \A r \in 0 .. Revision, s \in Stations : Target(r, s)' = Target(r, s)
      BY <3>1 DEF Target
    <3>3. \A r, s : ChoiceAt(r, s) => ChoiceAt(r, s)'
      BY <2>1 DEF Apply, ChoiceAt
    <3>4. ASSUME NEW r \in 0 .. Revision, NEW s \in Stations, Target(r, s)' # {}
          PROVE  \E q \in 0 .. r :
                    ChoiceAt(q, s)' /\ \A t \in q .. r : Target(t, s)' = Target(r, s)'
      <4>1. PICK q \in 0 .. r : ChoiceAt(q, s) /\ \A t \in q .. r : Target(t, s) = Target(r, s)
        BY <3>1, <3>2, <3>4 DEF TargetWasChosen
      <4>2. \A t \in q .. r : t \in 0 .. Revision
        BY <3>1
      <4>. QED BY <3>2, <3>3, <4>1, <4>2
    <3>5. ASSUME NEW r, r = Revision + 1, NEW s \in Stations, Target(r, s)' # {}
          PROVE  \E q \in 0 .. r :
                    ChoiceAt(q, s)' /\ \A t \in q .. r : Target(t, s)' = Target(r, s)'
      <4>1. CatalogAt(r)' = new /\ CatalogAt(Revision) = Current
        BY <3>1, <3>5 DEF Current
      <4>2. Target(r, s)' = {<<b, new.boxes[b]>> : b \in DOMAIN new.boxes \cap {new.selections[s]}}
        BY <4>1 DEF Target
      <4>3. CASE request.op = "standard" \/ (request.op = "select" /\ request.station = s)
        <5>. DEFINE u == [request |-> request, revision |-> Revision + 1]
        <5>1. u \in updates' /\ u.revision = r /\ u.request = request
          BY <2>1, <3>5 DEF Apply
        <5>2. ChoiceAt(r, s)'
          BY <4>3, <5>1 DEF ChoiceAt
        <5>3. r \in 0 .. r /\ r .. r = {r}
          BY <3>1, <3>5
        <5>. QED BY <5>2, <5>3
      <4>4. CASE ~(request.op = "standard" \/ (request.op = "select" /\ request.station = s))
        <5>1. Target(r, s)' = Target(Revision, s)
          <6>1. CASE /\ request.op = "catalog"
                     /\ new = [boxes |-> request.boxes,
                               selections |-> [t \in Stations |-> KeptSelection(Current, request.boxes, t)]]
            <7>. DEFINE b == Current.selections[s]
            <7>1. new.boxes = request.boxes /\ new.selections[s] = KeptSelection(Current, request.boxes, s)
              BY <6>1
            <7>2. PICK c \in DOMAIN new.boxes : c = new.selections[s]
              BY <3>5, <4>2
            <7>3. CASE ~(b \in DOMAIN request.boxes /\ b \in DOMAIN Current.boxes
                         /\ request.boxes[b] = Current.boxes[b])
              <8>1. NoBox \in DOMAIN request.boxes
                BY <7>1, <7>2, <7>3 DEF KeptSelection
              <8>2. request \in CatalogRequests => DOMAIN request.boxes \subseteq BoxIds
                BY CatalogConstants, BoxesAreFunctions DEF CatalogRequests, Boxes
              <8>3. request \in CatalogRequests
                <9>1. request.op = "catalog"
                  BY <4>4, <6>1
                <9>. QED BY <9>1 DEF Requests, StandardRequests, SelectRequests
              <8>. QED BY <8>1, <8>2, <8>3, CatalogConstants
            <7>4. CASE b \in DOMAIN request.boxes /\ b \in DOMAIN Current.boxes
                         /\ request.boxes[b] = Current.boxes[b]
              <8>1. new.selections[s] = b
                BY <7>1, <7>4 DEF KeptSelection
              <8>2. Target(r, s)' = {<<b, new.boxes[b]>>}
                BY <4>2, <7>1, <7>4, <8>1
              <8>3. Target(Revision, s) = {<<b, Current.boxes[b]>>}
                BY <4>1, <7>4 DEF Target
              <8>. QED BY <7>1, <7>4, <8>2, <8>3
            <7>. QED BY <7>3, <7>4
          <6>2. CASE /\ request.op = "select" /\ request.station \in Stations
                     /\ new = [boxes |-> Current.boxes,
                               selections |-> [Current.selections EXCEPT ![request.station] = request.box]]
            <7>1. new.boxes = Current.boxes /\ new.selections[s] = Current.selections[s]
              BY <3>1, <4>4, <6>2 DEF Catalogs, Selections
            <7>. QED BY <4>1, <4>2, <7>1 DEF Target
          <6>. QED BY <3>1, <4>4, <6>1, <6>2, BuildRead
        <5>2. PICK q \in 0 .. Revision :
                ChoiceAt(q, s) /\ \A t \in q .. Revision : Target(t, s) = Target(Revision, s)
          BY <3>1, <3>5, <5>1 DEF TargetWasChosen
        <5>3. \A t \in q .. r : t \in q .. Revision \/ t = r
          BY <3>1, <3>5
        <5>4. \A t \in q .. Revision : Target(t, s)' = Target(t, s)
          BY <3>1, <3>2
        <5>5. q \in 0 .. r
          BY <3>1, <3>5
        <5>. QED BY <3>3, <5>1, <5>2, <5>3, <5>4, <5>5
      <4>. QED BY <4>3, <4>4
    <3>6. ASSUME NEW r \in 0 .. Revision' PROVE r \in 0 .. Revision \/ r = Revision + 1
      BY <3>1
    <3>. QED BY <3>4, <3>5, <3>6 DEF TargetWasChosen
  <2>2. CASE UNCHANGED <<standards, updates>>
    BY <2>2, OtherSteps DEF TargetWasChosen, Target, ChoiceAt
  <2>. QED BY <2>1, <2>2 DEF Next, Replay, Refuse, RecordNew, RecordAgain, vars
<1>. QED BY <1>1, <1>2, TypeCorrect, SelectionsAlwaysExist, NeverLosesAnUpdate, PTL DEF Spec

=============================================================================
