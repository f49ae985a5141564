--------------------------- MODULE DesktopWindow ---------------------------
(***************************************************************************)
(* The referee's desktop window: class App of competition/gui.py with the  *)
(* database window of database_ui.py. Its threads meet at one bounded      *)
(* queue of events:                                                        *)
(*   - whoever holds Engine.lock (a command, a connection, the window)     *)
(*     posts notifications, which are dropped when the queue is full;      *)
(*   - the control worker runs snapshots, commands and the closing of the  *)
(*     program one after the other, and waits for a place in the queue;    *)
(*   - the backup worker copies the database after each session;           *)
(*   - the window's own thread empties the queue, and is the only one to.  *)
(*                                                                         *)
(* The engine is what a window shows of it; RefereeEngine has the rest.    *)
(* Sessions are numbered in the order they are created, 0 is none. The     *)
(* lines of the log are left out.                                          *)
(***************************************************************************)
EXTENDS Integers, Sequences, FiniteSets

CONSTANTS
    QueueLimit,   \* App.events holds this many events: 2500
    PendingLimit, \* automatic backups asked for at a time: 4
    MaxSessions, MaxRevision, \* bounds: sessions, and target versions of each
    LastRefusal   \* bound: the last session in which a setting is refused

ASSUME WindowConstants ==
    /\ QueueLimit \in Nat \ {0} /\ PendingLimit \in Nat
    /\ MaxSessions \in Nat /\ LastRefusal \in Nat
    /\ MaxRevision \in [1 .. MaxSessions -> Nat \ {0}]

VARIABLES
    session, revision, active, fatal,  \* of the engine: the session, its
               \* target's version, whether a round runs, whether it is frozen
    posts,     \* what the worker still posts before it frees Engine.lock
    events,    \* App.events
    dropped,   \* App.dropped_ui > 0
    jobs,      \* what the control worker has not begun
    created,   \* it has made a session, whose event it puts before those
    results,   \* events it puts before its next job
    shutdown,  \* how far it is with closing the program
    copies,    \* sessions whose backup is queued or being made
    notice,    \* the event the backup worker puts
    pending,   \* App.pending_backups
    settled,   \* closed sessions that a backup contains, or of which the
               \* referee was told that they have no automatic backup
    refusing,  \* the session whose refusal the window is putting, or 0
    gone,      \* the window is destroyed
    polling,   \* _poll has not raised: it is called again
    busy, closing, dirty, snapPending, button,
    shown,     \* App.state, the last snapshot
    misread    \* the footer says that a later one could not be read

engine == <<session, revision, active, fatal>>
queue == <<posts, events, dropped>>
worker == <<jobs, created, results, shutdown>>
backups == <<copies, notice>>
account == <<pending, settled, refusing, gone>>
flags == <<busy, closing, dirty, snapPending, button>>
view == <<shown, misread>>
window == <<flags, view, account, polling>>
vars == <<engine, queue, worker, backups, window>>

-----------------------------------------------------------------------------

Event(kind) == [kind |-> kind]
About(kind, sid) == [kind |-> kind, sid |-> sid]

Snapshot == [session |-> session, revision |-> revision, active |-> active, fatal |-> fatal]

Init ==
    /\ session = 0 /\ revision = 0 /\ active = FALSE /\ fatal = FALSE
    /\ posts = <<>> /\ events = <<>> /\ dropped = FALSE
    /\ jobs = <<>> /\ created = FALSE /\ results = <<>> /\ shutdown = "no"
    /\ copies = <<>> /\ notice = <<>>
    /\ pending = {} /\ settled = {} /\ refusing = 0 /\ gone = FALSE /\ polling = TRUE
    /\ busy = FALSE /\ closing = FALSE /\ dirty = TRUE /\ snapPending = FALSE /\ button = TRUE
    /\ shown = Snapshot /\ misread = FALSE

-----------------------------------------------------------------------------
(* Notifications, made under Engine.lock                                   *)

LockFree == posts = <<>>

(* _notify: put_nowait, and a drop when there is no place                  *)
PutNowait(event) ==
    IF Len(events) < QueueLimit THEN events' = Append(events, event) /\ UNCHANGED dropped
    ELSE dropped' = TRUE /\ UNCHANGED events

(* The first comes with the change it tells of, the others follow while    *)
(* the lock is held. "changed" stands for "dirty", and for the "fatal" and *)
(* the "dirty" of fail().                                                  *)
Post(list) == PutNowait(Head(list)) /\ posts' = Tail(list)
Changed == <<Event("changed")>>
Silent == UNCHANGED queue

Notify == posts # <<>> /\ Post(posts) /\ UNCHANGED <<engine, worker, backups, window>>

StoreOpen == shutdown \notin {"over", "lost"}

(* The connections and the timer: a message, the end of a round, a failed  *)
(* write. The listener is stopped when the program closes, unless the      *)
(* display raised first.                                                   *)
Traffic ==
    /\ LockFree /\ shutdown \notin {"draining", "ending", "over"}
    /\ Post(Changed)
    /\ \/ StoreOpen /\ active' \in {active, active /\ fatal} /\ UNCHANGED fatal
       \/ fatal' = TRUE /\ UNCHANGED active
    /\ UNCHANGED <<session, revision, worker, backups, window>>

-----------------------------------------------------------------------------
(* The control worker                                                      *)

Begins(kind) ==
    /\ LockFree /\ results = <<>> /\ shutdown = "no"
    /\ jobs # <<>> /\ Head(jobs).kind = kind /\ jobs' = Tail(jobs)

EndsSilently == results' = <<>> /\ UNCHANGED <<shutdown, backups, window>>  \* fault: no finally

(* The end of _submit's job: command_finished. Before it the job puts its  *)
(* result: that of new_session is the event after which the window saves   *)
(* its settings; other results and errors only open a box, and are left    *)
(* out.                                                                    *)
Ends == results' = <<Event("command_finished")>> /\ UNCHANGED <<shutdown, backups, window>>

ReadSnapshot ==
    /\ Begins("snapshot")
    /\ \/ results' = <<[kind |-> "snapshot", state |-> Snapshot]>>
       \/ results' = <<Event("snapshot_error")>>
    /\ Silent /\ UNCHANGED <<engine, created, shutdown, backups, window>>

Commands == {"new_session", "target", "cancel_round"}

(* Refused, or failed outside the store. The commands without effect on    *)
(* the match end so, too: the listener's start, an export, a search.       *)
OtherwiseEnds ==
    /\ \E kind \in Commands \cup {"start_round"} : Begins(kind)
    /\ Ends /\ Silent /\ UNCHANGED <<engine, created>>

StorageFails ==
    /\ \E kind \in Commands \cup {"start_round"} : Begins(kind)
    /\ fatal' = TRUE /\ Post(Changed)
    /\ Ends /\ UNCHANGED <<session, revision, active, created>>

(* Engine.new_session closes the old session before it creates the new     *)
(* one, and the write of the new one may fail.                             *)
NewSession ==
    /\ ~fatal /\ ~active /\ Begins("new_session")
    /\ Post((IF session = 0 THEN <<>> ELSE <<About("session_closed", session)>>) \o Changed)
    /\ \/ /\ session < MaxSessions
          /\ session' = session + 1 /\ revision' = 1 /\ created' = TRUE
          /\ Ends /\ UNCHANGED fatal
       \/ /\ fatal' = TRUE
          /\ Ends /\ UNCHANGED <<session, revision, created>>
    /\ UNCHANGED active

SetTarget ==
    /\ ~fatal /\ ~active /\ session # 0 /\ revision < MaxRevision[session] /\ Begins("target")
    /\ revision' = revision + 1
    /\ Post(Changed) /\ Ends
    /\ UNCHANGED <<session, active, fatal, created>>

(* A round that cannot be sent is interrupted at once.                     *)
StartRound ==
    /\ ~fatal /\ ~active /\ session # 0 /\ Begins("start_round")
    /\ active' \in BOOLEAN
    /\ Post(Changed) /\ Ends
    /\ UNCHANGED <<session, revision, fatal, created>>

(* Or the listener is stopped, which interrupts the round.                 *)
CancelRound ==
    /\ ~fatal /\ active /\ Begins("cancel_round")
    /\ active' = FALSE
    /\ Post(Changed) /\ Ends
    /\ UNCHANGED <<session, revision, fatal, created>>

(* Blocking puts                                                           *)
PutNewSession ==
    /\ created /\ LockFree /\ Len(events) < QueueLimit
    /\ events' = Append(events, Event("new_session")) /\ created' = FALSE
    /\ UNCHANGED <<engine, posts, dropped, jobs, results, shutdown, backups, window>>

PutResult ==
    /\ results # <<>> /\ ~created /\ LockFree /\ Len(events) < QueueLimit
    /\ events' = Append(events, Head(results)) /\ results' = Tail(results)
    /\ UNCHANGED <<engine, posts, dropped, jobs, created, shutdown, backups, window>>

-----------------------------------------------------------------------------
(* The backups                                                             *)

ClosedSessions == 1 .. (IF shutdown = "no" \/ fatal THEN session - 1 ELSE session)

(* A copy of the whole database, or an error                               *)
CopyDatabase ==
    /\ copies # <<>> /\ notice = <<>>
    /\ \/ /\ settled' = settled \cup ClosedSessions \cup {Head(copies)}
          /\ notice' = <<About("backup_made", Head(copies))>>
       \/ notice' = <<About("backup_failed", Head(copies))>> /\ UNCHANGED settled
    /\ Silent /\ UNCHANGED <<engine, worker, copies, flags, view, pending, refusing, gone, polling>>

PutNotice ==
    /\ notice # <<>> /\ Len(events) < QueueLimit
    /\ events' = Append(events, Head(notice))
    /\ notice' = <<>> /\ copies' = Tail(copies)
    /\ UNCHANGED <<engine, posts, dropped, worker, window>>

-----------------------------------------------------------------------------
(* The job of _close: the display, the listener and the session are ended, *)
(* the backup worker is waited for, a last copy is made and the store is   *)
(* closed. What raises on the way skips to the end, and is not reported.   *)

CloseMatch ==
    /\ Begins("close")
    /\ \/ shutdown' = "draining" /\ fatal /\ Silent /\ UNCHANGED active
       \/ shutdown' = "draining" /\ ~fatal /\ Post(Changed) /\ active' = FALSE
       \/ shutdown' = "aborted" /\ Silent /\ UNCHANGED active
    /\ UNCHANGED <<session, revision, fatal, created, results, backups, window>>

UndrainedWorker == TRUE  \* fault: the backup worker is not waited for
Drained == copies = <<>>

LastCopy ==
    /\ shutdown = "draining" /\ Drained
    /\ shutdown' = "ending"
    /\ IF session # 0 /\ ~fatal
       THEN \/ settled' = settled \cup ClosedSessions /\ UNCHANGED results
            \/ results' = <<Event("shutdown_backup_error")>> /\ UNCHANGED settled
       ELSE UNCHANGED <<settled, results>>
    /\ Silent /\ UNCHANGED <<engine, jobs, created, backups, flags, view, pending, refusing, gone, polling>>

(* When the store or its lock cannot be closed nothing more is put: the    *)
(* window waits for "closed", and does not go.                             *)
CloseStore ==
    /\ results = <<>> /\ Drained
    /\ \/ shutdown = "ending" /\ shutdown' = "over"
       \/ shutdown = "aborted" /\ shutdown' = "lost"
    /\ \/ results' = <<Event("closed")>>
       \/ UNCHANGED results
    /\ Silent /\ UNCHANGED <<engine, jobs, created, backups, window>>

-----------------------------------------------------------------------------
(* The window                                                              *)

(* It runs a handler when it does not wait for a place in the queue.       *)
Reacts == ~gone /\ refusing = 0

outside == <<engine, queue, created, results, shutdown, backups, account, polling>>

Submit(job) == jobs' = Append(jobs, job) /\ busy' = TRUE /\ button' = FALSE

(* The buttons other than "start round"                                    *)
Click(kind) ==
    /\ Reacts /\ ~busy /\ ~closing
    /\ Submit(Event(kind))
    /\ UNCHANGED <<outside, closing, dirty, snapPending, view>>

(* _start_round: what the referee has typed agrees with what is shown.     *)
ClickStart ==
    /\ Reacts /\ ~busy /\ ~closing /\ button
    /\ Submit([kind |-> "start_round", session |-> shown.session, revision |-> shown.revision])
    /\ UNCHANGED <<outside, closing, dirty, snapPending, view>>

(* A setting is longer than the store takes                                *)
MayBeRefused == session <= LastRefusal

(* _close. A refused setting raises after closing is set: the job is never *)
(* submitted, and there is no second try.                                  *)
CloseWindow ==
    /\ Reacts /\ ~closing
    /\ closing' = TRUE /\ button' = FALSE
    /\ \/ jobs' = Append(jobs, Event("close"))
       \/ MayBeRefused /\ UNCHANGED jobs
    /\ UNCHANGED <<outside, busy, dirty, snapPending, view>>

(* _save_settings on the window's thread, of a click, after a new session  *)
(* or at the close, freezes the engine when the database fails. The caller *)
(* catches what it raises then, and goes on. A refused setting freezes     *)
(* nothing: CloseWindow and NoteNewSession have what it does there, and    *)
(* the buttons that save only show it.                                     *)
SettingsFail ==
    /\ Reacts /\ ~fatal /\ LockFree
    /\ fatal' = TRUE /\ Post(Changed)
    /\ UNCHANGED <<session, revision, active, worker, backups, window>>

-----------------------------------------------------------------------------
(* _poll                                                                   *)

RequestSnapshot ==
    /\ Reacts /\ polling /\ dirty /\ ~snapPending /\ ~closing
    /\ snapPending' = TRUE /\ dirty' = FALSE
    /\ jobs' = Append(jobs, Event("snapshot"))
    /\ UNCHANGED <<outside, busy, closing, button, view>>

MayStartBusy(state) == ~state.active /\ state.session # 0 /\ ~state.fatal  \* fault

(* The contestant is taken to be ready, which the button asks for, too.    *)
MayStart(state) == ~state.active /\ state.session # 0 /\ ~state.fatal /\ ~busy

RenderClearing(state) ==  \* fault: forgets what changed while it was read
    /\ snapPending' = FALSE /\ dirty' = FALSE /\ shown' = state /\ misread' = FALSE
    /\ button' = MayStart(state)
    /\ UNCHANGED <<busy, closing, account, copies>>

Render(state) ==
    /\ snapPending' = FALSE /\ shown' = state /\ misread' = FALSE
    /\ button' = MayStart(state)
    /\ UNCHANGED <<busy, closing, dirty, account, copies>>

ListFull == Cardinality(pending) >= PendingLimit
AcceptBackup(sid) == pending' = pending \cup {sid} /\ copies' = Append(copies, sid)

QueueBackupForgets(sid) ==  \* fault: when the list is full it is passed over
    /\ UNCHANGED <<flags, view, settled, gone, refusing>>
    /\ IF sid \in pending \/ closing \/ ListFull THEN UNCHANGED <<pending, copies>>
       ELSE AcceptBackup(sid)

(* _queue_auto_backup. When the list is full the window itself puts the    *)
(* event that says so, and waits for a place.                              *)
QueueBackup(sid) ==
    /\ UNCHANGED <<flags, view, settled, gone>>
    /\ IF sid \in pending \/ closing THEN UNCHANGED <<pending, copies, refusing>>
       ELSE IF ListFull THEN refusing' = sid /\ UNCHANGED <<pending, copies>>
       ELSE AcceptBackup(sid) /\ UNCHANGED refusing

BackupEnded(sid, failed) ==
    /\ pending' = pending \ {sid}
    /\ settled' = IF failed THEN settled \cup {sid} ELSE settled
    /\ UNCHANGED <<flags, view, refusing, gone, copies>>

Note(kind) ==
    /\ dirty' = (dirty \/ kind \in {"changed", "command_finished"})
    /\ busy' = (busy /\ kind # "command_finished")
    /\ snapPending' = (snapPending /\ kind # "snapshot_error")
    /\ misread' = (misread \/ kind = "snapshot_error")
    /\ settled' = IF kind = "shutdown_backup_error" THEN settled \cup ClosedSessions ELSE settled
    /\ gone' = (kind = "closed")
    /\ UNCHANGED <<closing, button, shown, pending, refusing, copies>>

(* The fields are set to the new session's and saved, whether the database *)
(* takes them or not; a refused setting leaves _poll before it asks for    *)
(* its next call.                                                          *)
NoteNewSession ==
    /\ UNCHANGED polling \/ (MayBeRefused /\ polling' = FALSE)
    /\ UNCHANGED <<flags, view, account, copies>>

Handle(e) ==
    \/ e.kind = "snapshot" /\ Render(e.state) /\ UNCHANGED polling
    \/ e.kind = "session_closed" /\ QueueBackup(e.sid) /\ UNCHANGED polling
    \/ /\ e.kind \in {"backup_made", "backup_failed"}
       /\ BackupEnded(e.sid, e.kind = "backup_failed") /\ UNCHANGED polling
    \/ /\ e.kind \in {"changed", "command_finished", "snapshot_error",
                      "shutdown_backup_error", "closed"}
       /\ Note(e.kind) /\ UNCHANGED polling
    \/ e.kind = "new_session" /\ NoteNewSession

TakeEvent ==
    /\ Reacts /\ polling /\ events # <<>>
    /\ events' = Tail(events) /\ Handle(Head(events))
    /\ UNCHANGED <<engine, posts, dropped, worker, notice>>

(* The blocking put of the window's own thread, which is also the only one *)
(* that empties the queue                                                  *)
PutRefusal ==
    /\ refusing # 0 /\ Len(events) < QueueLimit
    /\ events' = Append(events, About("backup_failed", refusing))
    /\ refusing' = 0
    /\ UNCHANGED <<engine, posts, dropped, worker, backups, flags, view, pending, settled, gone, polling>>

-----------------------------------------------------------------------------

Work ==
    \/ Notify \/ ReadSnapshot \/ OtherwiseEnds \/ StorageFails
    \/ NewSession \/ SetTarget \/ StartRound \/ CancelRound
    \/ PutNewSession \/ PutResult \/ CloseMatch \/ LastCopy \/ CloseStore

Backup == CopyDatabase \/ PutNotice
React == TakeEvent \/ PutRefusal

Next ==
    \/ Traffic \/ Work \/ Backup \/ React
    \/ \E kind \in Commands : Click(kind)
    \/ ClickStart \/ CloseWindow \/ SettingsFail
    \/ RequestSnapshot

Spec == Init /\ [][Next]_vars

(* Every thread goes on while it can. The lock and the places of the queue *)
(* are taken by others in between; a thread that waits for one gets it if  *)
(* it comes free again and again. The referee answers the boxes that open. *)
Fairness == WF_vars(React) /\ SF_vars(Work) /\ SF_vars(Backup)

FairSpec == Spec /\ Fairness

-----------------------------------------------------------------------------

(* "Start round" starts the round on the session and on the target version *)
(* the window showed when the button was clicked, whatever snapshots and   *)
(* commands were under way: the referee's sample belongs to that team.     *)
StartsOnShown ==
    [][StartRound =>
        Head(jobs).session = session /\ Head(jobs).revision = revision]_vars

Holds(list, s) == \E i \in DOMAIN list :
    list[i].kind \in {"session_closed", "backup_failed"} /\ list[i].sid = s

InHand(s) == Holds(posts \o events, s) \/ refusing = s \/ \E i \in DOMAIN copies : copies[i] = s

(* A session that was closed is in a backup, or the referee was told that  *)
(* its backup failed, or one of the two is still under way: through a full *)
(* list of backups and a program that closes. A dropped notification, a    *)
(* frozen engine and a shutdown that raised are what it does not cover.    *)
BackupsAccounted ==
    \/ dropped \/ fatal \/ shutdown \in {"aborted", "lost"}
    \/ \A s \in 1 .. session - 1 :
          \/ s \in settled \/ InHand(s)
          \/ closing /\ shutdown \in {"no", "draining"}
          \/ Event("shutdown_backup_error") \in {(results \o events)[i] : i \in DOMAIN (results \o events)}

(* Once the store is closed neither worker has anything left to do that    *)
(* would use it: the backups that were asked for have ended.               *)
StoreClosesLast == ~StoreOpen => jobs = <<>> /\ copies = <<>>

Quiet ==
    /\ posts = <<>> /\ events = <<>> /\ jobs = <<>> /\ results = <<>>
    /\ ~dirty /\ ~closing

(* When nothing is under way any more the window shows the match as it is, *)
(* unless a notification was dropped or a read failed: no change is lost   *)
(* between a snapshot that is asked for, read, and shown.                  *)
ShowsTheMatch ==
    Quiet /\ ~dropped /\ ~misread =>
        /\ shown = Snapshot
        /\ button /\ session # 0 => MayStart(Snapshot)

Stuck == refusing # 0 /\ Len(events) = QueueLimit

(* closing is set and no job will close the program.                       *)
NeverSubmitted == closing /\ shutdown = "no" /\ \A i \in DOMAIN jobs : jobs[i].kind # "close"

(* The store's close raised, and nobody tells the window.                  *)
NeverReported ==
    /\ ~StoreOpen /\ results = <<>>
    /\ \A i \in DOMAIN events : events[i].kind # "closed"

(* Every command comes to an end and frees the buttons, and the window     *)
(* that is closed goes away, through failed writes, snapshots and backups, *)
(* a full queue and a shutdown that raises. There are four ways out of it: *)
(* the window itself waits for a place in a full queue, which nobody else  *)
(* will empty; a refused setting has ended its polling; it has kept the    *)
(* job of the close from being submitted; or the store cannot be closed.   *)
WindowAnswers ==
    /\ busy ~> (~busy \/ Stuck \/ ~polling)
    /\ closing ~> (gone \/ Stuck \/ ~polling \/ NeverSubmitted \/ NeverReported)

=============================================================================
