-------------------------- MODULE StationCatalog --------------------------
(***************************************************************************)
(* The durable state of the station receiver: the revisioned list of       *)
(* standard boxes with one selection per station, and the append-only      *)
(* observations judged against it (competition/packaging_catalog.py and    *)
(* StationStore.record of competition/station_store.py).                   *)
(*                                                                         *)
(* Every operation runs inside StationStore.transaction, that is under the *)
(* store's lock and in one SQLite transaction, so each is one action here. *)
(* Requests and messages come from any number of browsers and stations,    *)
(* late, repeated and in any order: an action is enabled for every request *)
(* in a set, whatever happened before.                                     *)
(***************************************************************************)
EXTENDS Integers, Sequences, FiniteSets

CONSTANTS
    Stations,    \* station numbers
    BoxIds,      \* ids a box of the list may have
    LEGACY,      \* the id given to a standard of the single-standard API
    Barcodes,    \* non-empty barcodes
    Blank,       \* the empty string: no standard, or nothing read
    NoBox,       \* a selection that names no box
    NULL,        \* SQL NULL
    RequestIds,  \* X-Request-ID values
    MsgIds,      \* msg_id values
    Lists,       \* the box lists imports may contain
    MaxRevision, \* bound on the revisions: requests name those below it
    MaxRequests, \* bound on the different catalog requests of one behaviour
    MaxResults   \* bound on the observations of one behaviour

ASSUME CatalogConstants ==
    /\ Stations # {}
    /\ LEGACY \in BoxIds
    /\ NoBox \notin BoxIds
    /\ Blank \notin Barcodes
    /\ NULL \notin Barcodes \cup {Blank}
    /\ NULL \notin UNION {[S -> Barcodes] : S \in SUBSET BoxIds}
    /\ Lists \subseteq UNION {[S -> Barcodes] : S \in SUBSET BoxIds}
    /\ MaxRevision \in Nat \ {0}
    /\ MaxRequests \in Nat
    /\ MaxResults \in Nat

VARIABLES
    standards,  \* rows of table standards; revision r is standards[r + 1]
    updates,    \* rows of table standard_updates
    results,    \* rows of table results; record id n is results[n]
    answers,    \* every HTTP answer given to a catalog request
    acks        \* every result_ack: the message and the record id it names

vars == <<standards, updates, results, answers, acks>>

-----------------------------------------------------------------------------

(* A list of boxes: ids are unique (validate_boxes), so it is a function.  *)
Boxes == UNION {[S -> Barcodes] : S \in SUBSET BoxIds}
Codes == Barcodes \cup {Blank}
Selections == [Stations -> BoxIds \cup {NoBox}]
Revisions == 0 .. MaxRevision - 1

Catalogs == [boxes : Boxes, selections : Selections]

(* Rows written before the list existed, and rows of _change_catalog.      *)
OldRows == [barcode : Codes, boxes : {NULL}, selections : {NULL}]
ListRows == [barcode : Codes, boxes : Boxes, selections : Selections]
Rows == OldRows \cup ListRows

StandardRequests == [op : {"standard"}, id : RequestIds, revision : Revisions, barcode : Codes]
CatalogRequests == [op : {"catalog"}, id : RequestIds, revision : Revisions, boxes : Lists]
SelectRequests == [op : {"select"}, id : RequestIds, revision : Revisions,
                   station : Stations, box : BoxIds \cup {NoBox}]
Requests == StandardRequests \cup CatalogRequests \cup SelectRequests

(* A complete result; reading is the barcode of a packaging result.        *)
Messages == [project : {"screw", "packaging"}, station : Stations, msg : MsgIds, reading : Codes]

Statuses == {"UNREAD", "UNCONFIGURED", "UNSELECTED", "MATCH", "MISMATCH", "NONE"}

-----------------------------------------------------------------------------

(* The one-item list of the single-standard API, selected by every station *)
LegacyBoxes(code) == [b \in (IF code = Blank THEN {} ELSE {LEGACY}) |-> code]
LegacySelections(code) == [s \in Stations |-> IF code = Blank THEN NoBox ELSE LEGACY]

CatalogFromRow(row) ==
    IF row.boxes = NULL
    THEN [boxes |-> LegacyBoxes(row.barcode), selections |-> LegacySelections(row.barcode)]
    ELSE [boxes |-> row.boxes, selections |-> row.selections]

Revision == Len(standards) - 1
CatalogAt(r) == CatalogFromRow(standards[r + 1])
CurrentOldest == CatalogAt(0)  \* fault: the rows read in ascending order
Current == CatalogAt(Revision)

(* The barcode kept for readers that know a single standard only.          *)
Common(boxes, selections) ==
    LET sole == {b \in DOMAIN boxes : DOMAIN boxes = {b} /\ \A s \in Stations : selections[s] = b}
    IN  IF sole = {} THEN Blank ELSE boxes[CHOOSE b \in sole : TRUE]

(* fault: the old column left NULL instead of the empty string              *)
NewRowNullColumn(boxes, selections) ==
    [barcode |-> IF DOMAIN boxes = {} THEN NULL ELSE Common(boxes, selections),
     boxes |-> boxes, selections |-> selections]

NewRow(boxes, selections) ==
    [barcode |-> Common(boxes, selections), boxes |-> boxes, selections |-> selections]

(* fault: only the id is looked up, not the barcode                         *)
KeptById(current, boxes, s) ==
    IF current.selections[s] \in DOMAIN boxes THEN current.selections[s] ELSE NoBox

(* set_catalog keeps a selection only if its box is still listed with the  *)
(* barcode it had.                                                         *)
KeptSelection(current, boxes, s) ==
    LET b == current.selections[s]
    IN  IF b \in DOMAIN boxes /\ b \in DOMAIN current.boxes /\ boxes[b] = current.boxes[b]
        THEN b ELSE NoBox

Build(request, current) ==
    CASE request.op = "standard" ->
           NewRow(LegacyBoxes(request.barcode), LegacySelections(request.barcode))
      [] request.op = "catalog" ->
           NewRow(request.boxes, [s \in Stations |-> KeptSelection(current, request.boxes, s)])
      [] request.op = "select" ->
           NewRow(current.boxes, [current.selections EXCEPT ![request.station] = request.box])

UnknownBoxUnchecked(request, current) == FALSE  \* fault: any id is accepted

UnknownBox(request, current) ==
    /\ request.op = "select"
    /\ request.box # NoBox
    /\ request.box \notin DOMAIN current.boxes

(* What record() stores beside the message: the box in force for the       *)
(* station, its revision and the verdict on the barcode.                   *)
Verdict(catalog, s, reading) ==
    LET b == catalog.selections[s]
    IN  CASE reading = Blank -> "UNREAD"
          [] reading # Blank /\ DOMAIN catalog.boxes = {} -> "UNCONFIGURED"
          [] reading # Blank /\ DOMAIN catalog.boxes # {} /\ b \notin DOMAIN catalog.boxes -> "UNSELECTED"
          [] reading # Blank /\ b \in DOMAIN catalog.boxes ->
               IF reading = catalog.boxes[b] THEN "MATCH" ELSE "MISMATCH"

Judgement(catalog, r, m) ==
    IF m.project = "screw"
    THEN [revision |-> -1, box |-> NoBox, standard |-> Blank, status |-> "NONE"]
    ELSE LET b == catalog.selections[m.station]
         IN  [revision |-> r,
              box      |-> IF b \in DOMAIN catalog.boxes THEN b ELSE NoBox,
              standard |-> IF b \in DOMAIN catalog.boxes THEN catalog.boxes[b] ELSE Blank,
              status   |-> Verdict(catalog, m.station, m.reading)]

-----------------------------------------------------------------------------

(* A new database has revision 0 without a standard. A database of schema  *)
(* version 1, migrated before the receiver starts, may hold one update of  *)
(* the single standard, whose row has no list of its own.                  *)
Init ==
    /\ \/ /\ standards = <<[barcode |-> Blank, boxes |-> NULL, selections |-> NULL]>>
          /\ updates = {}
       \/ \E request \in {q \in StandardRequests : q.revision = 0} :
             /\ standards = <<[barcode |-> Blank, boxes |-> NULL, selections |-> NULL],
                              [barcode |-> request.barcode, boxes |-> NULL, selections |-> NULL]>>
             /\ updates = {[request |-> request, revision |-> 1]}
    /\ results = <<>>
    /\ answers = {}
    /\ acks = {}

UsedForgotten(id) == FALSE  \* fault: standard_updates not consulted
Used(id) == \E u \in updates : u.request.id = id

StaleIfAhead(request) == request.revision > Revision  \* fault: wrong comparison
Stale(request) == request.revision # Revision

(* With every answer goes whether the revision the request names was still *)
(* to come: only its type and sign are checked on arrival, so a request may *)
(* be ahead of the list.                                                   *)
Answer(request, code, r) ==
    answers' = answers \cup {[request |-> request, code |-> code, revision |-> r,
                              ahead |-> request.revision > Revision]}

(* The request id is known: the same request is answered with the revision *)
(* it made, another one is refused. Checked before the revision.           *)
Replay(request) ==
    \E u \in updates :
        /\ u.request.id = request.id
        /\ \/ u.request = request /\ Answer(request, "OK", u.revision)
           \/ u.request # request /\ Answer(request, "REQUEST_CONFLICT", -1)
        /\ UNCHANGED <<standards, updates, results, acks>>

Refuse(request) ==
    /\ ~Used(request.id)
    /\ \/ Stale(request) /\ Answer(request, "STATE_CHANGED", -1)
       \/ /\ ~Stale(request)
          /\ UnknownBox(request, Current)
          /\ Answer(request, "UNKNOWN_BOX", -1)
    /\ UNCHANGED <<standards, updates, results, acks>>

Apply(request) ==
    /\ ~Used(request.id)
    /\ ~Stale(request)
    /\ ~UnknownBox(request, Current)
    /\ standards' = Append(standards, Build(request, Current))
    /\ updates' = updates \cup {[request |-> request, revision |-> Revision + 1]}
    /\ Answer(request, "OK", Revision + 1)
    /\ UNCHANGED <<results, acks>>

SameKey(m, n) == m.project = n.project /\ m.station = n.station /\ m.msg = n.msg

SameContentUnchecked(m, n) == TRUE  \* fault: fingerprints not compared
SameContent(m, n) == m = n

(* record(): the message is new at its station.                            *)
RecordNew(m) ==
    /\ Len(results) < MaxResults
    /\ \A i \in DOMAIN results : ~SameKey(results[i].message, m)
    /\ results' = Append(results, [message |-> m, judged |-> Judgement(Current, Revision, m)])
    /\ acks' = acks \cup {[message |-> m, id |-> Len(results) + 1]}
    /\ UNCHANGED <<standards, updates, answers>>

(* record(): the msg_id is known. The same content is acknowledged again   *)
(* with the old row; MSG_ID_CONFLICT changes nothing.                      *)
RecordAgain(m) ==
    \E i \in DOMAIN results :
        /\ SameKey(results[i].message, m)
        /\ \/ /\ SameContent(results[i].message, m)
              /\ acks' = acks \cup {[message |-> m, id |-> i]}
           \/ /\ ~SameContent(results[i].message, m)
              /\ UNCHANGED acks
        /\ UNCHANGED <<standards, updates, results, answers>>

Asked == {a.request : a \in answers}
WithinBound(request) == request \in Asked \/ Cardinality(Asked) < MaxRequests

Next ==
    \/ \E request \in Requests :
          /\ WithinBound(request)
          /\ Replay(request) \/ Refuse(request) \/ Apply(request)
    \/ \E m \in Messages : RecordNew(m) \/ RecordAgain(m)

Spec == Init /\ [][Next]_vars

-----------------------------------------------------------------------------

TypeOK ==
    /\ standards \in Seq(Rows) /\ Len(standards) >= 1
    /\ updates \subseteq [request : Requests, revision : Nat]
    /\ results \in Seq([message : Messages,
                        judged : [revision : Int, box : BoxIds \cup {NoBox},
                                  standard : Codes, status : Statuses]])
    /\ answers \subseteq [request : Requests, revision : Int, ahead : BOOLEAN,
                          code : {"OK", "REQUEST_CONFLICT", "STATE_CHANGED", "UNKNOWN_BOX"}]
    /\ acks \subseteq [message : Messages, id : Nat]

(* A station's selection always names a box of the list of that revision,  *)
(* whatever sequence of imports, selections and single-standard calls made *)
(* it: expected_box never falls back to "no standard" for a selected box.  *)
SelectionsExist ==
    \A r \in 0 .. Revision, s \in Stations :
        CatalogAt(r).selections[s] \in DOMAIN CatalogAt(r).boxes \cup {NoBox}

(* What a station is compared with at a revision, or the empty set.        *)
Target(r, s) ==
    LET c == CatalogAt(r)
    IN  {<<b, c.boxes[b]>> : b \in DOMAIN c.boxes \cap {c.selections[s]}}

(* The update that made revision r chose station s's box by name.          *)
ChoiceAt(r, s) ==
    \E u \in updates :
        /\ u.revision = r
        /\ \/ u.request.op = "standard"
           \/ u.request.op = "select" /\ u.request.station = s

(* No import switches a station to another barcode silently: the box and   *)
(* barcode in force for a station are those of the last request that chose *)
(* them, unchanged by every revision since.                                *)
TargetWasChosen ==
    \A r \in 0 .. Revision, s \in Stations :
        Target(r, s) # {} =>
            \E q \in 0 .. r :
                /\ ChoiceAt(q, s)
                /\ \A t \in q .. r : Target(t, s) = Target(r, s)

(* Stored verdicts are history: every observation still carries the        *)
(* verdict of the list it was received under, and later revisions never    *)
(* precede earlier ones in the record order.                               *)
HistoryNeverRejudged ==
    /\ \A i \in DOMAIN results :
          LET row == results[i] IN
          row.message.project = "packaging" =>
              /\ row.judged.revision \in 0 .. Revision
              /\ row.judged = Judgement(CatalogAt(row.judged.revision),
                                        row.judged.revision, row.message)
    /\ \A i, j \in DOMAIN results :
          i < j /\ results[j].message.project = "packaging" =>
              results[i].judged.revision <= results[j].judged.revision

(* No lost update and no double application: each revision after the first *)
(* was made by exactly one request, which had been prepared against the    *)
(* revision just before it, and each request id made at most one revision. *)
NoLostUpdate ==
    /\ \A u \in updates : u.request.revision + 1 = u.revision /\ u.revision \in 1 .. Revision
    /\ \A r \in 1 .. Revision : \E u \in updates : u.revision = r
    /\ \A u, w \in updates : u.revision = w.revision \/ u.request.id = w.request.id => u = w

(* A browser that repeats a request whose answer was lost is never told    *)
(* the opposite of what happened: all answers to a request that was once   *)
(* answered OK are OK with the same revision. Only a refusal given while   *)
(* the request was ahead of the list may stand beside them: it is not put  *)
(* on record, and the request is good once the list has got there.         *)
AnswersAgree ==
    \A a, b \in answers :
        a.request = b.request /\ a.code = "OK" =>
            \/ b.code = "OK" /\ a.revision = b.revision
            \/ b.code = "STATE_CHANGED" /\ b.ahead

(* An acknowledged message is on record exactly once, with its content.    *)
AckedIsRecorded ==
    /\ \A a \in acks : a.id \in DOMAIN results /\ results[a.id].message = a.message
    /\ \A i, j \in DOMAIN results : SameKey(results[i].message, results[j].message) => i = j

=============================================================================
