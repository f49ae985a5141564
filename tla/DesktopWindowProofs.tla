------------------------ MODULE DesktopWindowProofs ------------------------
(***************************************************************************)
(* Safety of DesktopWindow for a queue of any length and any number of     *)
(* sessions and backups: a round starts on what the window showed, the     *)
(* workers are done when the store is closed, and no backup is forgotten.  *)
(***************************************************************************)
EXTENDS DesktopWindow, SequenceTheorems, TLAPS

IsSeq(s) == \E S : s \in Seq(S)

Types ==
    /\ IsSeq(events) /\ IsSeq(jobs) /\ IsSeq(posts) /\ IsSeq(copies)
    /\ results = <<>> \/ \E e : results = <<e>>
    /\ busy \in BOOLEAN /\ closing \in BOOLEAN /\ button \in BOOLEAN
    /\ \A i \in DOMAIN posts : posts[i].kind \in {"changed", "session_closed"}
    /\ notice # <<>> => copies # <<>> /\ \E e : notice = <<e>> /\ e.kind \in {"backup_made", "backup_failed"}

(* A sequence that grows, and one that loses its first entry               *)
LEMMA Grown ==
    ASSUME NEW s, IsSeq(s), NEW x
    PROVE  /\ IsSeq(Append(s, x)) /\ Len(s) \in Nat /\ DOMAIN s = 1 .. Len(s)
           /\ DOMAIN Append(s, x) = 1 .. Len(s) + 1
           /\ Append(s, x)[Len(s) + 1] = x /\ \A i \in DOMAIN s : Append(s, x)[i] = s[i]
           /\ Append(s, x) # <<>> /\ Len(Append(s, x)) = Len(s) + 1
<1>1. PICK S : s \in Seq(S)
  BY DEF IsSeq
<1>2. s \in Seq(S \cup {x})
  BY <1>1
<1>3. Append(s, x) \in Seq(S \cup {x})
  BY <1>2
<1> QED BY <1>2, <1>3 DEF IsSeq

(* Its first entry goes.                                                   *)
LEMMA Shrunk ==
    ASSUME NEW s, IsSeq(s), s # <<>>
    PROVE  /\ IsSeq(Tail(s)) /\ Len(s) \in Nat /\ Len(s) > 0 /\ DOMAIN s = 1 .. Len(s)
           /\ Len(Tail(s)) = Len(s) - 1
           /\ DOMAIN Tail(s) = 1 .. Len(s) - 1 /\ \A i \in DOMAIN Tail(s) : Tail(s)[i] = s[i + 1]
           /\ Head(s) = s[1]
<1>1. PICK S : s \in Seq(S)
  BY DEF IsSeq
<1> QED BY <1>1 DEF IsSeq

(* A sequence of one entry, and the empty one                              *)
LEMMA Single ==
    ASSUME NEW x
    PROVE  /\ IsSeq(<<x>>) /\ DOMAIN <<x>> = {1} /\ Len(<<x>>) = 1 /\ <<x>>[1] = x /\ <<x>> # <<>>
           /\ Head(<<x>>) = x /\ Tail(<<x>>) = <<>> /\ IsSeq(<<>>) /\ DOMAIN <<>> = {}
<1>1. IsSeq(<<x>>) /\ IsSeq(<<>>)
  <2>1. <<x>> \in Seq({x}) /\ <<>> \in Seq({x})
    OBVIOUS
  <2> QED BY <2>1 DEF IsSeq
<1>2. DOMAIN <<x>> = {1} /\ Len(<<x>>) = 1 /\ <<x>>[1] = x /\ <<x>> # <<>> /\ DOMAIN <<>> = {}
  OBVIOUS
<1>3. Head(<<x>>) = x /\ Tail(<<x>>) = <<>>
  OBVIOUS
<1> QED BY <1>1, <1>2, <1>3

-----------------------------------------------------------------------------
(* What the steps do                                                       *)

Command == Commands \cup {"start_round"}
Finished(e) == e.kind = "command_finished"
Other(e) == e.kind \notin {"snapshot", "command_finished"}

Untouched == UNCHANGED <<session, revision, jobs, busy, closing, button, shown, shutdown, copies>>

(* A notification, or none: the queue grows by events of no concern.       *)
Tells == events' = events \/ \E e : Other(e) /\ events' = Append(events, e)

(* Somebody posts an event.                                                *)
Posts == Tells /\ UNCHANGED <<results, notice>> /\ Untouched

(* The control worker runs a command.                                      *)
Runs ==
    /\ results = <<>> /\ shutdown = "no" /\ jobs # <<>> /\ jobs[1].kind \in Command /\ jobs' = Tail(jobs)
    /\ results' = <<Event("command_finished")>> /\ Tells
    /\ UNCHANGED <<busy, closing, button, shown, shutdown, copies, notice>>

(* It reads a snapshot.                                                    *)
Reads ==
    /\ results = <<>> /\ shutdown = "no" /\ jobs # <<>> /\ jobs[1].kind = "snapshot" /\ jobs' = Tail(jobs)
    /\ results' = <<[kind |-> "snapshot", state |-> Snapshot]>> \/ \E e : Other(e) /\ results' = <<e>>
    /\ UNCHANGED <<events, session, revision, busy, closing, button, shown, shutdown, copies, notice>>

(* It puts what it has to put.                                             *)
Puts ==
    /\ results # <<>> /\ events' = Append(events, results[1]) /\ results' = Tail(results)
    /\ UNCHANGED notice /\ Untouched

(* It closes the program, step by step.                                    *)
Shuts ==
    /\ \/ /\ shutdown = "no" /\ results = <<>> /\ jobs # <<>> /\ jobs[1].kind = "close"
          /\ jobs' = Tail(jobs) /\ shutdown' \in {"draining", "aborted"} /\ UNCHANGED results
       \/ /\ shutdown = "draining" /\ shutdown' = "ending" /\ UNCHANGED jobs
          /\ (UNCHANGED results \/ \E e : Other(e) /\ results' = <<e>>)
       \/ /\ shutdown \in {"ending", "aborted"} /\ shutdown' \in {"over", "lost"}
          /\ copies = <<>> /\ UNCHANGED jobs
          /\ (UNCHANGED results \/ \E e : Other(e) /\ results' = <<e>>)
    /\ Tells
    /\ UNCHANGED <<session, revision, busy, closing, button, shown, copies, notice>>

(* The backup worker makes a copy, and tells of it.                        *)
Copies ==
    /\ copies # <<>> /\ results' = results
    /\ \/ notice = <<>> /\ events' = events /\ copies' = copies
          /\ \E e : e.kind \in {"backup_made", "backup_failed"} /\ notice' = <<e>>
       \/ notice # <<>> /\ Tells /\ copies' = Tail(copies) /\ notice' = <<>>
    /\ UNCHANGED <<session, revision, jobs, busy, closing, button, shown, shutdown>>

(* The referee submits a command.                                          *)
Submits ==
    /\ ~busy /\ ~closing /\ busy' = TRUE /\ button' = FALSE
    /\ \E job : /\ job.kind \in Command /\ jobs' = Append(jobs, job)
                /\ job.kind = "start_round" =>
                      button /\ job.session = shown.session /\ job.revision = shown.revision
    /\ UNCHANGED <<events, results, session, revision, closing, shown, shutdown, copies, notice>>

(* The window asks for a snapshot, or for the end, or fails to.            *)
Asks ==
    /\ ~closing /\ button' \in {button, FALSE}
    /\ \/ jobs' = Append(jobs, Event("snapshot")) /\ closing' = closing
       \/ jobs' = Append(jobs, Event("close")) /\ closing' = TRUE
       \/ jobs' = jobs /\ closing' = TRUE
    /\ UNCHANGED <<events, results, session, revision, busy, shown, shutdown, copies, notice>>

(* The window takes an event.                                              *)
Takes ==
    /\ events # <<>> /\ events' = Tail(events)
    /\ \/ /\ events[1].kind = "snapshot" /\ shown' = events[1].state /\ busy' = busy
          /\ button' \in BOOLEAN /\ (button' => ~busy) /\ copies' = copies
       \/ Finished(events[1]) /\ busy' = FALSE /\ UNCHANGED <<shown, button, copies>>
       \/ /\ Other(events[1]) /\ UNCHANGED <<shown, button, busy>>
          /\ (copies' = copies \/ (~closing /\ \E sid : copies' = Append(copies, sid)))
    /\ UNCHANGED <<results, session, revision, jobs, closing, shutdown, notice>>

Kinds == Posts \/ Runs \/ Reads \/ Puts \/ Shuts \/ Copies \/ Submits \/ Asks \/ Takes

(* The notifications that are posted are of no concern.                    *)
LEMMA PostTells ==
    ASSUME Types
    PROVE  /\ \A e : Other(e) /\ PutNowait(e) => Tells
           /\ Post(Changed) => Tells
           /\ Post(<<About("session_closed", session)>> \o Changed) => Tells
           /\ posts # <<>> /\ Post(posts) => Tells
<1>1. \A e : Other(e) /\ PutNowait(e) => Tells
  BY DEF PutNowait, Tells
<1>2. Post(Changed) => Tells
  BY <1>1 DEF Post, Changed, Event, Other
<1>3. Post(<<About("session_closed", session)>> \o Changed) => Tells
  <2>1. Head(<<About("session_closed", session)>> \o Changed) = About("session_closed", session)
    BY DEF Changed, Event, About
  <2> QED BY <1>1, <2>1 DEF Post, About, Other
<1>4. posts # <<>> /\ Post(posts) => Tells
  <2>1. posts # <<>> => Other(Head(posts))
    BY Shrunk DEF Types, Other
  <2> QED BY <1>1, <2>1 DEF Post
<1> QED BY <1>1, <1>2, <1>3, <1>4

(* Every step is of one of these kinds.                                    *)
LEMMA StepKinds ==
    ASSUME Types, [Next]_vars
    PROVE  Kinds
<1> USE DEF engine, queue, worker, backups, account, flags, view, window, outside
<1>1. CASE UNCHANGED vars \/ Traffic \/ Notify \/ SettingsFail
  BY <1>1, PostTells DEF vars, Traffic, Notify, SettingsFail, Kinds, Posts, Untouched, Tells
<1>2. CASE PutRefusal \/ PutNewSession
  BY <1>2 DEF PutRefusal, PutNewSession, About, Event, Other, Kinds, Posts, Untouched, Tells
<1>3. CASE OtherwiseEnds \/ StorageFails
  <2>1. \A kind : Begins(kind) => /\ results = <<>> /\ shutdown = "no" /\ jobs # <<>>
                                  /\ jobs[1].kind = kind /\ jobs' = Tail(jobs)
    BY Shrunk DEF Begins, Types
  <2> QED BY <1>3, <2>1, PostTells DEF OtherwiseEnds, StorageFails, Ends, Silent, Kinds, Runs, Tells, Command
<1>4. CASE NewSession \/ SetTarget \/ StartRound \/ CancelRound
  <2>1. \A kind : Begins(kind) => /\ results = <<>> /\ shutdown = "no" /\ jobs # <<>>
                                  /\ jobs[1].kind = kind /\ jobs' = Tail(jobs)
    BY Shrunk DEF Begins, Types
  <2>2. Post((IF session = 0 THEN <<>> ELSE <<About("session_closed", session)>>) \o Changed) => Tells
    <3>1. <<>> \o Changed = Changed
      BY DEF Changed, Event
    <3> QED BY <3>1, PostTells
  <2>3. Tells
    BY <1>4, <2>2, PostTells DEF NewSession, SetTarget, StartRound, CancelRound
  <2>4. Ends /\ \E kind \in Command : Begins(kind)
    BY <1>4 DEF NewSession, SetTarget, StartRound, CancelRound, Command, Commands
  <2> QED BY <2>1, <2>3, <2>4 DEF Ends, Kinds, Runs
<1>5. CASE ReadSnapshot
  <2>1. jobs # <<>> /\ jobs[1].kind = "snapshot"
    BY <1>5, Shrunk DEF ReadSnapshot, Begins, Types
  <2>2. Other(Event("snapshot_error"))
    BY DEF Other, Event
  <2> QED BY <1>5, <2>1, <2>2 DEF ReadSnapshot, Begins, Silent, Kinds, Reads
<1>6. CASE PutResult
  <2>1. results # <<>> /\ Head(results) = results[1]
    BY <1>6, Single DEF PutResult, Types
  <2> QED BY <1>6, <2>1 DEF PutResult, Kinds, Puts, Untouched
<1>7. CASE CloseMatch
  <2>1. jobs # <<>> /\ jobs[1].kind = "close"
    BY <1>7, Shrunk DEF CloseMatch, Begins, Types
  <2> QED BY <1>7, <2>1, PostTells DEF CloseMatch, Begins, Silent, Kinds, Shuts, Tells
<1>8. CASE LastCopy
  BY <1>8 DEF LastCopy, Silent, Event, Other, Kinds, Shuts, Tells
<1>9. CASE CloseStore
  BY <1>9 DEF CloseStore, Drained, Silent, Event, Other, Kinds, Shuts, Tells
<1>10. CASE CopyDatabase
  BY <1>10 DEF CopyDatabase, Silent, About, Kinds, Copies
<1>11. CASE PutNotice
  <2>1. Other(Head(notice))
    BY <1>11, Single DEF PutNotice, Types, Other
  <2> QED BY <1>11, <2>1 DEF PutNotice, Kinds, Copies, Tells, Types
<1>12. CASE TakeEvent
  <2>1. events # <<>> /\ Head(events) = events[1]
    BY <1>12, Shrunk DEF TakeEvent, Types
  <2> DEFINE e == events[1]
  <2>2. CASE e.kind = "snapshot" /\ Render(e.state)
    BY <1>12, <2>1, <2>2 DEF TakeEvent, Render, MayStart, Kinds, Takes
  <2>3. CASE e.kind = "session_closed" /\ QueueBackup(e.sid)
    BY <1>12, <2>1, <2>3 DEF TakeEvent, QueueBackup, AcceptBackup, Kinds, Takes, Other
  <2>4. CASE e.kind \in {"backup_made", "backup_failed"} /\ BackupEnded(e.sid, e.kind = "backup_failed")
    BY <1>12, <2>1, <2>4 DEF TakeEvent, BackupEnded, Kinds, Takes, Other
  <2>5. CASE /\ e.kind \in {"changed", "command_finished", "snapshot_error",
                            "shutdown_backup_error", "closed"}
             /\ Note(e.kind)
    BY <1>12, <2>1, <2>5 DEF TakeEvent, Note, Kinds, Takes, Other, Finished, Types
  <2>6. CASE e.kind = "new_session" /\ NoteNewSession
    BY <1>12, <2>1, <2>6 DEF TakeEvent, NoteNewSession, Kinds, Takes, Other
  <2> QED BY <1>12, <2>1, <2>2, <2>3, <2>4, <2>5, <2>6 DEF TakeEvent, Handle
<1>13. ASSUME NEW kind \in Commands, Click(kind) PROVE Kinds
  BY <1>13 DEF Click, Submit, Event, Kinds, Submits, Command, Commands
<1>14. CASE ClickStart
  BY <1>14 DEF ClickStart, Submit, Kinds, Submits, Command, Commands
<1>15. CASE CloseWindow \/ RequestSnapshot
  BY <1>15 DEF CloseWindow, RequestSnapshot, Kinds, Asks
<1> QED BY <1>1, <1>2, <1>3, <1>4, <1>5, <1>6, <1>7, <1>8, <1>9, <1>10, <1>11, <1>12, <1>13, <1>14, <1>15
        DEF Next, Work, Backup, React

(* What is posted later on is of no concern either.                        *)
PostsTyped ==
    IsSeq(posts) /\ \A i \in DOMAIN posts : posts[i].kind \in {"changed", "session_closed"}

(* Every step keeps them so.                                               *)
LEMMA PostsStep ==
    ASSUME Types, [Next]_vars
    PROVE  PostsTyped'
<1> USE DEF engine, queue, worker, backups, account, flags, view, window, outside
<1>1. CASE posts' = posts
  BY <1>1 DEF PostsTyped, Types
<1>2. CASE posts' = Tail(posts) /\ posts # <<>>
  BY <1>2, Shrunk DEF PostsTyped, Types
<1>3. CASE posts' = Tail(Changed)
  BY <1>3, Single DEF PostsTyped, Changed
<1>4. CASE posts' = Tail(<<About("session_closed", session)>> \o Changed)
  <2>1. ASSUME NEW a, NEW b PROVE Tail(<<a>> \o <<b>>) = <<b>>
    <3>1. <<a>> \o <<b>> = Append(<<a>>, b)
      <4>1. <<a>> \in Seq({a, b})
        OBVIOUS
      <4> QED BY <4>1, AppendIsConcat
    <3>2. Tail(Append(<<a>>, b)) = <<b>>
      <4>1. <<a>> \in Seq({a, b}) /\ <<a>> # <<>> /\ Tail(<<a>>) = <<>>
        BY Single
      <4>2. Append(<<>>, b) = <<b>>
        OBVIOUS
      <4> QED BY <4>1, <4>2, HeadTailAppend
    <3> QED BY <3>1, <3>2
  <2>2. posts' = Changed
    BY <1>4, <2>1 DEF Changed
  <2> QED BY <2>2, Single DEF PostsTyped, Changed, Event
<1>5. ASSUME NEW d, d = IF session = 0 THEN <<>> ELSE <<About("session_closed", session)>>, posts' = Tail(d \o Changed)
      PROVE  PostsTyped'
  <2>1. <<>> \o Changed = Changed
    BY DEF Changed, Event
  <2> QED BY <1>3, <1>4, <1>5, <2>1
<1>6. \/ posts' = posts \/ (posts' = Tail(posts) /\ posts # <<>>) \/ posts' = Tail(Changed)
      \/ posts' = Tail((IF session = 0 THEN <<>> ELSE <<About("session_closed", session)>>) \o Changed)
  <2>1. CASE UNCHANGED vars \/ Traffic \/ Notify \/ SettingsFail
    BY <2>1 DEF vars, Traffic, Notify, SettingsFail, Post
  <2>2. CASE Backup \/ React
    BY <2>2 DEF Backup, React, CopyDatabase, PutNotice, Silent, TakeEvent, PutRefusal
  <2>3. CASE ReadSnapshot \/ OtherwiseEnds \/ StorageFails \/ NewSession \/ SetTarget \/ StartRound \/ CancelRound
    BY <2>3 DEF ReadSnapshot, OtherwiseEnds, StorageFails, NewSession, SetTarget, StartRound, CancelRound, Post, Silent
  <2>4. CASE PutNewSession \/ PutResult \/ CloseMatch \/ LastCopy \/ CloseStore
    BY <2>4 DEF PutNewSession, PutResult, CloseMatch, LastCopy, CloseStore, Post, Silent
  <2>5. CASE (\E kind \in Commands : Click(kind)) \/ ClickStart \/ CloseWindow \/ RequestSnapshot
    BY <2>5 DEF Click, ClickStart, CloseWindow, RequestSnapshot
  <2> QED BY <2>1, <2>2, <2>3, <2>4, <2>5 DEF Next, Work
<1> QED BY <1>1, <1>2, <1>3, <1>5, <1>6

(* The queue grows at its end only.                                        *)
LEMMA TellsGrows ==
    ASSUME Types, Tells
    PROVE  /\ IsSeq(events') /\ DOMAIN events \subseteq DOMAIN events'
           /\ \A i \in DOMAIN events : events'[i] = events[i]
           /\ \A i \in DOMAIN events' : i \in DOMAIN events \/ Other(events'[i])
<1>1. CASE events' = events
  BY <1>1 DEF Types
<1>2. ASSUME NEW e, Other(e), events' = Append(events, e)
      PROVE  /\ IsSeq(events') /\ DOMAIN events \subseteq DOMAIN events'
             /\ \A i \in DOMAIN events : events'[i] = events[i]
             /\ \A i \in DOMAIN events' : i \in DOMAIN events \/ Other(events'[i])
  <2>1. /\ DOMAIN events' = 1 .. Len(events) + 1 /\ DOMAIN events = 1 .. Len(events) /\ Len(events) \in Nat
        /\ events'[Len(events) + 1] = e /\ \A i \in DOMAIN events : events'[i] = events[i]
        /\ IsSeq(events')
    BY <1>2, Grown DEF Types
  <2> QED BY <1>2, <2>1
<1> QED BY <1>1, <1>2 DEF Tells

(* The sequences stay sequences.                                           *)
LEMMA TypesStep ==
    ASSUME Types, [Next]_vars
    PROVE  Types'
<1>1. PostsTyped'
  BY PostsStep
<1> DEFINE Rest == /\ IsSeq(events') /\ IsSeq(jobs') /\ IsSeq(copies')
                   /\ results' = <<>> \/ \E e : results' = <<e>>
                   /\ busy' \in BOOLEAN /\ closing' \in BOOLEAN /\ button' \in BOOLEAN
                   /\ notice' # <<>> => copies' # <<>> /\ \E e : notice' = <<e>> /\ e.kind \in {"backup_made", "backup_failed"}
<1>2. SUFFICES Rest
  BY <1>1, <1>2 DEF Types, PostsTyped
<1>3. CASE Posts
  BY <1>3, TellsGrows DEF Posts, Untouched, Types
<1>4. CASE Runs
  BY <1>4, TellsGrows, Shrunk DEF Runs, Types
<1>5. CASE Reads
  BY <1>5, Shrunk DEF Reads, Types
<1>6. CASE Puts
  BY <1>6, Grown, Single DEF Puts, Untouched, Types
<1>7. CASE Shuts
  <2>1. IsSeq(jobs')
    BY <1>7, Shrunk DEF Shuts, Types
  <2> QED BY <1>7, <2>1, TellsGrows DEF Shuts, Types
<1>8. CASE Copies
  BY <1>8, TellsGrows, Shrunk DEF Copies, Types
<1>9. CASE Submits
  <2>1. ASSUME NEW job PROVE IsSeq(Append(jobs, job))
    BY Grown DEF Types
  <2>2. IsSeq(jobs') /\ closing' \in BOOLEAN /\ busy' \in BOOLEAN /\ button' \in BOOLEAN
    BY <1>9, <2>1 DEF Submits, Types
  <2>3. UNCHANGED <<events, results, copies, notice>>
    BY <1>9 DEF Submits
  <2> QED BY <2>2, <2>3 DEF Types
<1>10. CASE Asks
  <2>1. IsSeq(jobs) /\ \A job : IsSeq(Append(jobs, job))
    BY Grown DEF Types
  <2>2. IsSeq(jobs') /\ closing' \in BOOLEAN /\ button' \in BOOLEAN
    BY <1>10, <2>1 DEF Asks, Types
  <2>3. UNCHANGED <<events, results, busy, copies, notice>>
    BY <1>10 DEF Asks
  <2> QED BY <2>2, <2>3 DEF Types
<1>11. CASE Takes
  <2>1. IsSeq(events')
    BY <1>11, Shrunk DEF Takes, Types
  <2>2. IsSeq(copies') /\ (copies # <<>> => copies' # <<>>)
    <3>1. ASSUME NEW sid PROVE IsSeq(Append(copies, sid)) /\ Append(copies, sid) # <<>>
      BY Grown DEF Types
    <3>2. copies' = copies \/ \E sid : copies' = Append(copies, sid)
      BY <1>11 DEF Takes
    <3> QED BY <3>1, <3>2 DEF Types
  <2> QED BY <1>11, <2>1, <2>2 DEF Takes, Types
<1> QED BY <1>3, <1>4, <1>5, <1>6, <1>7, <1>8, <1>9, <1>10, <1>11, StepKinds DEF Kinds

-----------------------------------------------------------------------------
(* One command at a time                                                   *)

Reported == results # <<>> /\ Finished(results[1])

(* A command that waits is the only one and has not ended; an end that was *)
(* not handled yet is the only one, and the window is busy until then.     *)
OneCommand ==
    /\ \A i, j \in DOMAIN jobs : jobs[i].kind \in Command /\ jobs[j].kind \in Command => i = j
    /\ \A i \in DOMAIN jobs : jobs[i].kind \in Command =>
          busy /\ ~Reported /\ \A j \in DOMAIN events : ~Finished(events[j])
    /\ \A i \in DOMAIN events : Finished(events[i]) => busy /\ ~Reported
    /\ \A i, j \in DOMAIN events : Finished(events[i]) /\ Finished(events[j]) => i = j
    /\ Reported => busy

(* Nothing is begun after the closing of the program, nothing is asked for *)
(* after that was asked for, and it is begun last, if it was submitted.    *)
Ending ==
    /\ ~closing => shutdown = "no" /\ \A i \in DOMAIN jobs : jobs[i].kind # "close"
    /\ \A i \in DOMAIN jobs : jobs[i].kind = "close" => i = Len(jobs)
    /\ shutdown # "no" => closing /\ jobs = <<>> /\ ~Reported
    /\ ~StoreOpen => copies = <<>>

(* What the queue holds after a step that only adds notifications          *)
LEMMA TellsFinish ==
    ASSUME Types, Tells
    PROVE  \A i \in DOMAIN events' : Finished(events'[i]) =>
              i \in DOMAIN events /\ Finished(events[i])
<1>1. \A i \in DOMAIN events' : Finished(events'[i]) => i \in DOMAIN events
  BY TellsGrows DEF Other, Finished
<1> QED BY <1>1, TellsGrows DEF Finished

(* Commands are submitted when the last one's end was handled.             *)
LEMMA OneCommandStep ==
    ASSUME Types, OneCommand, Ending, [Next]_vars
    PROVE  OneCommand'
<1>1. CASE Posts
  <2>1. UNCHANGED <<jobs, results, busy>> /\ Reported' = Reported
    BY <1>1 DEF Posts, Untouched, Reported
  <2>2. \A i \in DOMAIN events' : Finished(events'[i]) => i \in DOMAIN events /\ Finished(events[i])
    BY <1>1, TellsFinish DEF Posts
  <2> QED BY <2>1, <2>2 DEF OneCommand, Finished
<1>2. CASE Runs
  <2>1. /\ DOMAIN jobs' = 1 .. Len(jobs) - 1 /\ Len(jobs) \in Nat /\ DOMAIN jobs = 1 .. Len(jobs)
        /\ \A i \in DOMAIN jobs' : jobs'[i] = jobs[i + 1]
        /\ jobs[1].kind \in Command /\ Len(jobs) > 0
    BY <1>2, Shrunk DEF Runs, Types
  <2>2. busy' = busy /\ busy /\ ~Reported /\ \A j \in DOMAIN events : ~Finished(events[j])
    BY <1>2, <2>1 DEF OneCommand, Runs
  <2>3. \A i \in DOMAIN jobs' : jobs'[i].kind \notin Command
    <3>1. ASSUME NEW i \in DOMAIN jobs' PROVE i + 1 \in DOMAIN jobs /\ 1 \in DOMAIN jobs /\ i + 1 # 1
      BY <2>1
    <3> QED BY <2>1, <3>1 DEF OneCommand
  <2>4. \A j \in DOMAIN events' : ~Finished(events'[j])
    BY <1>2, <2>2, TellsFinish DEF Runs
  <2> QED BY <2>2, <2>3, <2>4 DEF OneCommand, Finished
<1>3. CASE Reads
  <2>1. /\ DOMAIN jobs' = 1 .. Len(jobs) - 1 /\ Len(jobs) \in Nat /\ DOMAIN jobs = 1 .. Len(jobs)
        /\ \A i \in DOMAIN jobs' : jobs'[i] = jobs[i + 1]
    BY <1>3, Shrunk DEF Reads, Types
  <2>2. \A i \in DOMAIN jobs' : i + 1 \in DOMAIN jobs /\ i \in Nat
    BY <2>1
  <2>3. ~Reported /\ ~Reported'
    BY <1>3, Single DEF Reads, Reported, Finished, Other
  <2>4. UNCHANGED <<events, busy>>
    BY <1>3 DEF Reads
  <2>5. \A i, j \in DOMAIN jobs' : jobs'[i].kind \in Command /\ jobs'[j].kind \in Command => i = j
    <3>1. ASSUME NEW i \in DOMAIN jobs', NEW j \in DOMAIN jobs', jobs'[i].kind \in Command, jobs'[j].kind \in Command
          PROVE  i = j
      <4>1. i + 1 = j + 1
        BY <2>1, <2>2, <3>1 DEF OneCommand
      <4> QED BY <2>2, <4>1
    <3> QED BY <3>1
  <2>6. \A i \in DOMAIN jobs' : jobs'[i].kind \in Command =>
          busy' /\ \A j \in DOMAIN events' : ~Finished(events'[j])
    BY <2>1, <2>2, <2>4 DEF OneCommand, Finished
  <2> QED BY <2>3, <2>4, <2>5, <2>6 DEF OneCommand, Finished
<1>4. CASE Puts
  <2>1. UNCHANGED <<jobs, busy>> /\ ~Reported'
    BY <1>4, Single DEF Puts, Untouched, Reported, Types
  <2>2. /\ DOMAIN events' = 1 .. Len(events) + 1 /\ DOMAIN events = 1 .. Len(events) /\ Len(events) \in Nat
        /\ events'[Len(events) + 1] = results[1] /\ \A i \in DOMAIN events : events'[i] = events[i]
    BY <1>4, Grown DEF Puts, Types
  <2>3. CASE Reported
    <3>1. busy /\ (\A i \in DOMAIN jobs : jobs[i].kind \notin Command) /\ \A j \in DOMAIN events : ~Finished(events[j])
      BY <2>3 DEF OneCommand
    <3>2. \A i \in DOMAIN events' : Finished(events'[i]) => i = Len(events) + 1
      BY <2>2, <3>1 DEF Finished
    <3> QED BY <2>1, <3>1, <3>2 DEF OneCommand, Finished
  <2>4. CASE ~Reported
    <3>1. ~Finished(results[1])
      BY <1>4, <2>4 DEF Reported, Puts
    <3>2. \A i \in DOMAIN events' : Finished(events'[i]) => i \in DOMAIN events /\ Finished(events[i])
      BY <2>2, <3>1 DEF Finished
    <3> QED BY <2>1, <2>4, <3>2 DEF OneCommand, Finished
  <2> QED BY <2>3, <2>4
<1>5. CASE Shuts
  <2>1. ~Reported /\ ~Reported' /\ UNCHANGED busy
    BY <1>5, Single DEF Shuts, Reported, Ending, Other, Finished
  <2>2. \A i \in DOMAIN events' : Finished(events'[i]) => i \in DOMAIN events /\ Finished(events[i])
    BY <1>5, TellsFinish DEF Shuts
  <2>3. \/ jobs' = jobs
        \/ /\ DOMAIN jobs' = 1 .. Len(jobs) - 1 /\ Len(jobs) \in Nat /\ DOMAIN jobs = 1 .. Len(jobs)
           /\ \A i \in DOMAIN jobs' : jobs'[i] = jobs[i + 1]
    BY <1>5, Shrunk DEF Shuts, Types
  <2>4. CASE jobs' = jobs
    BY <2>1, <2>2, <2>4 DEF OneCommand, Finished
  <2>5. CASE /\ DOMAIN jobs' = 1 .. Len(jobs) - 1 /\ Len(jobs) \in Nat /\ DOMAIN jobs = 1 .. Len(jobs)
             /\ \A i \in DOMAIN jobs' : jobs'[i] = jobs[i + 1]
    <3>1. \A i \in DOMAIN jobs' : i + 1 \in DOMAIN jobs /\ i \in Nat
      BY <2>5
    <3>2. ASSUME NEW i \in DOMAIN jobs', NEW j \in DOMAIN jobs', jobs'[i].kind \in Command, jobs'[j].kind \in Command
          PROVE  i = j
      <4>1. i + 1 = j + 1
        BY <2>5, <3>1, <3>2 DEF OneCommand
      <4> QED BY <3>1, <4>1
    <3>3. \A i \in DOMAIN jobs' : jobs'[i].kind \in Command =>
            busy /\ \A j \in DOMAIN events : ~Finished(events[j])
      BY <2>5, <3>1 DEF OneCommand
    <3> QED BY <2>1, <2>2, <3>2, <3>3 DEF OneCommand, Finished
  <2> QED BY <2>3, <2>4, <2>5
<1>6. CASE Copies
  <2>1. UNCHANGED <<jobs, results, busy>> /\ Reported' = Reported
    BY <1>6 DEF Copies, Reported
  <2>2. \A i \in DOMAIN events' : Finished(events'[i]) => i \in DOMAIN events /\ Finished(events[i])
    <3>1. Tells
      BY <1>6 DEF Copies, Tells
    <3> QED BY <3>1, TellsFinish
  <2> QED BY <2>1, <2>2 DEF OneCommand, Finished
<1>7. CASE Submits
  <2>1. PICK job : job.kind \in Command /\ jobs' = Append(jobs, job)
    BY <1>7 DEF Submits
  <2>2. /\ DOMAIN jobs' = 1 .. Len(jobs) + 1 /\ DOMAIN jobs = 1 .. Len(jobs) /\ Len(jobs) \in Nat
        /\ \A i \in DOMAIN jobs : jobs'[i] = jobs[i]
    BY <2>1, Grown DEF Types
  <2>3. /\ \A i \in DOMAIN jobs : jobs[i].kind \notin Command
        /\ \A i \in DOMAIN events : ~Finished(events[i])
        /\ ~Reported /\ busy' = TRUE /\ UNCHANGED <<events, results>>
    BY <1>7 DEF Submits, OneCommand
  <2>4. \A i \in DOMAIN jobs' : jobs'[i].kind \in Command => i = Len(jobs) + 1
    BY <2>2, <2>3
  <2> QED BY <2>3, <2>4 DEF OneCommand, Finished, Reported
<1>8. CASE Asks
  <2>1. ASSUME NEW job, job.kind \notin Command, jobs' = Append(jobs, job)
        PROVE  \A i \in DOMAIN jobs' : jobs'[i].kind \in Command => i \in DOMAIN jobs /\ jobs'[i] = jobs[i]
    <3>1. /\ DOMAIN jobs' = 1 .. Len(jobs) + 1 /\ DOMAIN jobs = 1 .. Len(jobs) /\ Len(jobs) \in Nat
          /\ jobs'[Len(jobs) + 1] = job /\ \A i \in DOMAIN jobs : jobs'[i] = jobs[i]
      BY <2>1, Grown DEF Types
    <3> QED BY <2>1, <3>1
  <2>2. jobs' = jobs \/ \E job : job.kind \notin Command /\ jobs' = Append(jobs, job)
    BY <1>8 DEF Asks, Event, Command, Commands
  <2>3. \A i \in DOMAIN jobs' : jobs'[i].kind \in Command => i \in DOMAIN jobs /\ jobs'[i] = jobs[i]
    BY <2>1, <2>2
  <2>4. UNCHANGED <<events, results, busy>>
    BY <1>8 DEF Asks
  <2> QED BY <2>3, <2>4 DEF OneCommand, Finished, Reported
<1>9. CASE Takes
  <2>1. /\ DOMAIN events' = 1 .. Len(events) - 1 /\ Len(events) \in Nat /\ DOMAIN events = 1 .. Len(events)
        /\ Len(events) > 0 /\ \A i \in DOMAIN events' : events'[i] = events[i + 1]
    BY <1>9, Shrunk DEF Takes, Types
  <2>2. UNCHANGED <<jobs, results>> /\ Reported' = Reported
    BY <1>9 DEF Takes, Reported
  <2>3. \A i \in DOMAIN events' : i + 1 \in DOMAIN events /\ i \in Nat /\ i + 1 # 1 /\ 1 \in DOMAIN events
    BY <2>1
  <2>4. CASE Finished(events[1])
    <3>1. \A i \in DOMAIN events' : ~Finished(events'[i])
      BY <2>1, <2>3, <2>4 DEF OneCommand
    <3>2. ~Reported /\ \A i \in DOMAIN jobs : jobs[i].kind \notin Command
      <4>1. 1 \in DOMAIN events
        BY <2>1
      <4> QED BY <2>4, <4>1 DEF OneCommand
    <3> QED BY <2>2, <3>1, <3>2 DEF OneCommand, Finished
  <2>5. CASE ~Finished(events[1])
    <3>1. busy' = busy
      BY <1>9, <2>5 DEF Takes
    <3>2. ASSUME NEW i \in DOMAIN events', NEW j \in DOMAIN events', Finished(events'[i]), Finished(events'[j])
          PROVE  i = j
      <4>1. i + 1 = j + 1
        BY <2>1, <2>3, <3>2 DEF OneCommand
      <4> QED BY <2>3, <4>1
    <3>3. \A i \in DOMAIN events' : Finished(events'[i]) => busy /\ ~Reported
      BY <2>1, <2>3 DEF OneCommand
    <3>4. \A i \in DOMAIN jobs : jobs[i].kind \in Command => \A j \in DOMAIN events' : ~Finished(events'[j])
      BY <2>1, <2>3 DEF OneCommand
    <3> QED BY <2>2, <3>1, <3>2, <3>3, <3>4 DEF OneCommand, Finished
  <2> QED BY <2>4, <2>5
<1> QED BY <1>1, <1>2, <1>3, <1>4, <1>5, <1>6, <1>7, <1>8, <1>9, StepKinds DEF Kinds

(* The closing of the program is begun last, and ends alone.               *)
LEMMA EndingStep ==
    ASSUME Types, OneCommand, Ending, [Next]_vars
    PROVE  Ending'
<1>1. CASE Posts \/ Takes \/ Puts
  <2>1. UNCHANGED <<jobs, closing, shutdown>>
    BY <1>1 DEF Posts, Untouched, Takes, Puts
  <2>2. closing => UNCHANGED copies
    BY <1>1 DEF Posts, Untouched, Takes, Puts
  <2>3. shutdown # "no" => ~Reported'
    BY <1>1, Single DEF Posts, Takes, Puts, Reported, Ending, Types
  <2> QED BY <2>1, <2>2, <2>3 DEF Ending, StoreOpen
<1>2. CASE Runs \/ Reads
  <2>1. /\ DOMAIN jobs' = 1 .. Len(jobs) - 1 /\ Len(jobs) \in Nat /\ DOMAIN jobs = 1 .. Len(jobs)
        /\ \A i \in DOMAIN jobs' : jobs'[i] = jobs[i + 1]
        /\ jobs[1].kind # "close" /\ Len(jobs) > 0 /\ Len(jobs') = Len(jobs) - 1
    BY <1>2, Shrunk DEF Runs, Reads, Types, Command, Commands
  <2>2. UNCHANGED <<closing, shutdown, copies>> /\ shutdown = "no"
    BY <1>2 DEF Runs, Reads
  <2>3. \A i \in DOMAIN jobs' : i + 1 \in DOMAIN jobs /\ i \in Nat
    BY <2>1
  <2>4. CASE ~closing
    BY <2>1, <2>2, <2>3, <2>4 DEF Ending, StoreOpen
  <2>5. CASE closing
    <3>1. ASSUME NEW i \in DOMAIN jobs', jobs'[i].kind = "close" PROVE i = Len(jobs')
      <4>1. i + 1 = Len(jobs)
        BY <2>1, <2>3, <3>1 DEF Ending
      <4> QED BY <2>1, <2>3, <4>1
    <3> QED BY <2>2, <2>5, <3>1 DEF Ending, StoreOpen
  <2> QED BY <2>4, <2>5
<1>3. CASE Shuts
  <2>1. closing /\ UNCHANGED <<closing, copies>> /\ shutdown' # "no"
    BY <1>3, Shrunk DEF Shuts, Ending, Types
  <2>2. jobs' = <<>>
    <3>1. CASE shutdown # "no"
      BY <1>3, <3>1 DEF Shuts, Ending
    <3>2. CASE shutdown = "no"
      <4>1. jobs # <<>> /\ jobs[1].kind = "close" /\ jobs' = Tail(jobs)
        BY <1>3, <3>2 DEF Shuts
      <4>2. /\ Len(jobs) \in Nat /\ Len(jobs) > 0 /\ DOMAIN jobs = 1 .. Len(jobs)
            /\ IsSeq(Tail(jobs)) /\ Len(Tail(jobs)) = Len(jobs) - 1
        BY <4>1, Shrunk DEF Types
      <4>3. Len(jobs) = 1
        BY <2>1, <3>2, <4>1, <4>2 DEF Ending
      <4>4. Len(Tail(jobs)) = 0
        BY <4>2, <4>3
      <4>5. PICK S : Tail(jobs) \in Seq(S)
        BY <4>2 DEF IsSeq
      <4> QED BY <4>1, <4>4, <4>5, EmptySeq
    <3> QED BY <3>1, <3>2
  <2>3. ~Reported'
    BY <1>3, Single DEF Shuts, Reported, Ending, Other, Finished
  <2>4. shutdown' \in {"over", "lost"} => copies = <<>>
    BY <1>3 DEF Shuts
  <2> QED BY <2>1, <2>2, <2>3, <2>4 DEF Ending, StoreOpen
<1>4. CASE Copies
  <2>1. UNCHANGED <<jobs, results, closing, shutdown>> /\ copies # <<>>
    BY <1>4 DEF Copies
  <2> QED BY <2>1 DEF Ending, Reported, StoreOpen
<1>5. CASE Submits
  <2>1. PICK job : job.kind \in Command /\ jobs' = Append(jobs, job)
    BY <1>5 DEF Submits
  <2>2. /\ DOMAIN jobs' = 1 .. Len(jobs) + 1 /\ DOMAIN jobs = 1 .. Len(jobs) /\ Len(jobs) \in Nat
        /\ jobs'[Len(jobs) + 1] = job
        /\ \A i \in DOMAIN jobs : jobs'[i] = jobs[i]
    BY <2>1, Grown DEF Types
  <2>3. ~closing /\ UNCHANGED <<closing, shutdown, copies>>
    BY <1>5 DEF Submits
  <2>4. job.kind # "close"
    BY <2>1 DEF Command, Commands
  <2> QED BY <2>2, <2>3, <2>4 DEF Ending, StoreOpen
<1>6. CASE Asks
  <2>1. ~closing /\ UNCHANGED <<shutdown, copies>> /\ shutdown = "no"
    BY <1>6 DEF Asks, Ending
  <2>2. \A i \in DOMAIN jobs : jobs[i].kind # "close"
    BY <2>1 DEF Ending
  <2>3. ASSUME NEW kind \in {"snapshot", "close"}, jobs' = Append(jobs, Event(kind)), closing' <=> kind = "close"
        PROVE  Ending'
    <3>1. /\ DOMAIN jobs' = 1 .. Len(jobs) + 1 /\ DOMAIN jobs = 1 .. Len(jobs) /\ Len(jobs) \in Nat
          /\ jobs'[Len(jobs) + 1] = Event(kind) /\ jobs' # <<>> /\ Len(jobs') = Len(jobs) + 1
          /\ \A i \in DOMAIN jobs : jobs'[i] = jobs[i]
      BY <2>3, Grown DEF Types
    <3>2. \A i \in DOMAIN jobs' : jobs'[i].kind = "close" <=> (i = Len(jobs') /\ kind = "close")
      BY <2>2, <3>1 DEF Event
    <3> QED BY <2>1, <2>3, <3>1, <3>2 DEF Ending, StoreOpen
  <2>4. CASE jobs' = jobs /\ closing' = TRUE
    BY <2>1, <2>2, <2>4 DEF Ending, StoreOpen
  <2>5. CASE jobs' = Append(jobs, Event("snapshot")) /\ closing' = closing
    BY <2>1, <2>3, <2>5
  <2>6. CASE jobs' = Append(jobs, Event("close")) /\ closing' = TRUE
    BY <2>3, <2>6
  <2> QED BY <1>6, <2>4, <2>5, <2>6 DEF Asks
<1> QED BY <1>1, <1>2, <1>3, <1>4, <1>5, <1>6, StepKinds DEF Kinds

-----------------------------------------------------------------------------
(* What is shown                                                           *)

Current(state) == state.session = session /\ state.revision = revision

EndComes(i) == Reported \/ \E j \in DOMAIN events : i < j /\ Finished(events[j])

(* A snapshot in the queue is current, or the end of the command that made *)
(* it old comes after it.                                                  *)
SnapshotsInOrder ==
    /\ \A i \in DOMAIN events : events[i].kind = "snapshot" =>
          Current(events[i].state) \/ EndComes(i)
    /\ results # <<>> /\ results[1].kind = "snapshot" => Current(results[1].state)

(* While "start round" can be clicked the window shows the session and the *)
(* target in force, and they do not change until the round is started.     *)
ButtonShows ==
    /\ button => ~busy /\ Current(shown)
    /\ \A i \in DOMAIN jobs : jobs[i].kind = "start_round" =>
          jobs[i].session = session /\ jobs[i].revision = revision

(* The match changes in commands only, and each has its end reported.      *)
LEMMA SnapshotsStep ==
    ASSUME Types, OneCommand, Ending, SnapshotsInOrder, [Next]_vars
    PROVE  SnapshotsInOrder'
<1>0. ASSUME Tells, Reported => Reported'
      PROVE  /\ \A i \in DOMAIN events' : events'[i].kind = "snapshot" =>
                  i \in DOMAIN events /\ events'[i] = events[i]
             /\ \A i \in DOMAIN events : EndComes(i) => EndComes(i)'
  <2>1. /\ DOMAIN events \subseteq DOMAIN events'
        /\ \A i \in DOMAIN events : events'[i] = events[i]
        /\ \A i \in DOMAIN events' : i \in DOMAIN events \/ Other(events'[i])
    BY <1>0, TellsGrows
  <2>2. \A i \in DOMAIN events : EndComes(i) => EndComes(i)'
    BY <1>0, <2>1 DEF EndComes, Finished
  <2> QED BY <2>1, <2>2 DEF Other
<1>1. CASE Posts \/ Copies
  <2>1. Tells /\ UNCHANGED <<session, revision, results>> /\ Reported' = Reported
    BY <1>1 DEF Posts, Untouched, Copies, Reported, Tells
  <2> QED BY <1>0, <2>1 DEF SnapshotsInOrder, Current
<1>2. CASE Runs
  <2>1. Tells /\ Reported' /\ ~ (results' # <<>> /\ results'[1].kind = "snapshot")
    BY <1>2, Single DEF Runs, Reported, Finished, Event
  <2>2. \A i : EndComes(i)'
    BY <2>1 DEF EndComes
  <2> QED BY <2>1, <2>2 DEF SnapshotsInOrder
<1>3. CASE Reads
  <2>1. ~Reported /\ UNCHANGED <<events, session, revision>>
    BY <1>3 DEF Reads, Reported
  <2>2. results' # <<>> /\ results'[1].kind = "snapshot" => results'[1].state = Snapshot
    BY <1>3, Single DEF Reads, Other
  <2>3. \A i \in DOMAIN events : EndComes(i) => EndComes(i)'
    BY <2>1 DEF EndComes, Finished
  <2> QED BY <2>1, <2>2, <2>3 DEF SnapshotsInOrder, Current, Snapshot
<1>4. CASE Puts
  <2>1. UNCHANGED <<session, revision>> /\ results' = <<>>
    BY <1>4, Single DEF Puts, Untouched, Types
  <2>2. /\ DOMAIN events' = 1 .. Len(events) + 1 /\ DOMAIN events = 1 .. Len(events) /\ Len(events) \in Nat
        /\ events'[Len(events) + 1] = results[1] /\ \A i \in DOMAIN events : events'[i] = events[i]
    BY <1>4, Grown DEF Puts, Types
  <2>3. results # <<>>
    BY <1>4 DEF Puts
  <2>4. ASSUME NEW i \in DOMAIN events, EndComes(i) PROVE EndComes(i)'
    <3>1. CASE Reported
      <4>1. Len(events) + 1 \in DOMAIN events' /\ i < Len(events) + 1 /\ Finished(events'[Len(events) + 1])
        BY <2>2, <3>1 DEF Reported
      <4> QED BY <4>1 DEF EndComes, Finished
    <3>2. CASE ~Reported
      <4>1. PICK j \in DOMAIN events : i < j /\ Finished(events[j])
        BY <2>4, <3>2 DEF EndComes
      <4>2. j \in DOMAIN events' /\ Finished(events'[j])
        BY <2>2, <4>1
      <4> QED BY <4>1, <4>2 DEF EndComes, Finished
    <3> QED BY <3>1, <3>2
  <2>5. ASSUME NEW i \in DOMAIN events', events'[i].kind = "snapshot"
        PROVE  \/ i \in DOMAIN events /\ (Current(events[i].state) \/ EndComes(i))
               \/ i = Len(events) + 1 /\ Current(results[1].state)
    <3>1. i \in DOMAIN events \/ i = Len(events) + 1
      BY <2>2
    <3> QED BY <2>2, <2>3, <2>5, <3>1 DEF SnapshotsInOrder
  <2>6. ASSUME NEW i \in DOMAIN events', events'[i].kind = "snapshot"
        PROVE  Current(events[i].state)' \/ EndComes(i)'
    BY <2>1, <2>2, <2>4, <2>5, <2>6 DEF Current
  <2> QED BY <2>1, <2>6 DEF SnapshotsInOrder, Current
<1>5. CASE Shuts
  <2>1. Tells /\ ~Reported /\ UNCHANGED <<session, revision>>
    BY <1>5 DEF Shuts, Reported, Ending
  <2>2. results' # <<>> /\ results'[1].kind = "snapshot" => results' = results
    BY <1>5, Single DEF Shuts, Other
  <2> QED BY <1>0, <2>1, <2>2 DEF SnapshotsInOrder, Current
<1>6. CASE Submits \/ Asks
  <2>1. UNCHANGED <<events, results, session, revision>>
    BY <1>6 DEF Submits, Asks
  <2> QED BY <2>1 DEF SnapshotsInOrder, Current, EndComes, Reported, Finished
<1>7. CASE Takes
  <2>1. /\ DOMAIN events' = 1 .. Len(events) - 1 /\ Len(events) \in Nat /\ DOMAIN events = 1 .. Len(events)
        /\ \A i \in DOMAIN events' : events'[i] = events[i + 1]
    BY <1>7, Shrunk DEF Takes, Types
  <2>2. UNCHANGED <<results, session, revision>> /\ Reported' = Reported
    BY <1>7 DEF Takes, Reported
  <2>3. ASSUME NEW i \in DOMAIN events', EndComes(i + 1) PROVE EndComes(i)'
    <3>1. CASE Reported
      BY <2>2, <3>1 DEF EndComes
    <3>2. CASE ~Reported
      <4>1. PICK j \in DOMAIN events : i + 1 < j /\ Finished(events[j])
        BY <2>3, <3>2 DEF EndComes
      <4>2. PICK k : k = j - 1
        OBVIOUS
      <4>3. k \in DOMAIN events' /\ i < k /\ k + 1 = j
        BY <2>1, <4>1, <4>2
      <4>4. Finished(events'[k])
        BY <2>1, <4>1, <4>3
      <4> QED BY <4>3, <4>4 DEF EndComes, Finished
    <3> QED BY <3>1, <3>2
  <2>4. \A i \in DOMAIN events' : i + 1 \in DOMAIN events
    BY <2>1
  <2> QED BY <2>1, <2>2, <2>3, <2>4 DEF SnapshotsInOrder, Current
<1> QED BY <1>1, <1>2, <1>3, <1>4, <1>5, <1>6, <1>7, StepKinds DEF Kinds

(* No command runs while the button can be clicked or its round waits, but *)
(* that round itself.                                                      *)
LEMMA ButtonStep ==
    ASSUME Types, OneCommand, Ending, SnapshotsInOrder, ButtonShows, [Next]_vars
    PROVE  ButtonShows'
<1>1. ASSUME \A i \in DOMAIN jobs' : \E j \in DOMAIN jobs : jobs'[i] = jobs[j],
             UNCHANGED <<session, revision, busy, button, shown>>
      PROVE  ButtonShows'
  BY <1>1 DEF ButtonShows, Current
<1>2. CASE Posts \/ Copies \/ Puts
  <2>1. UNCHANGED <<jobs, session, revision, busy, button, shown>>
    BY <1>2 DEF Posts, Untouched, Copies, Puts
  <2> QED BY <1>1, <2>1
<1>3. CASE Reads \/ Shuts
  <2>1. UNCHANGED <<session, revision, busy, button, shown>> /\ (jobs' = jobs \/ (jobs # <<>> /\ jobs' = Tail(jobs)))
    BY <1>3 DEF Reads, Shuts
  <2>2. CASE jobs # <<>> /\ jobs' = Tail(jobs)
    <3>1. \A i \in DOMAIN jobs' : i + 1 \in DOMAIN jobs /\ jobs'[i] = jobs[i + 1]
      BY <2>2, Shrunk DEF Types
    <3> QED BY <1>1, <2>1, <3>1
  <2> QED BY <1>1, <2>1, <2>2
<1>4. CASE Runs
  <2>1. /\ DOMAIN jobs' = 1 .. Len(jobs) - 1 /\ Len(jobs) \in Nat /\ DOMAIN jobs = 1 .. Len(jobs)
        /\ \A i \in DOMAIN jobs' : jobs'[i] = jobs[i + 1]
        /\ jobs[1].kind \in Command /\ Len(jobs) > 0
    BY <1>4, Shrunk DEF Runs, Types
  <2>2. busy' = busy /\ busy /\ button' = button
    BY <1>4, <2>1 DEF OneCommand, Runs
  <2>3. ASSUME NEW i \in DOMAIN jobs' PROVE jobs'[i].kind # "start_round"
    <3>1. i + 1 \in DOMAIN jobs /\ 1 \in DOMAIN jobs /\ i + 1 # 1
      BY <2>1
    <3> QED BY <2>1, <3>1 DEF OneCommand, Command
  <2> QED BY <2>2, <2>3 DEF ButtonShows
<1>5. CASE Submits
  <2>1. PICK job : /\ jobs' = Append(jobs, job)
                   /\ job.kind = "start_round" =>
                         button /\ job.session = shown.session /\ job.revision = shown.revision
    BY <1>5 DEF Submits
  <2>2. /\ DOMAIN jobs' = 1 .. Len(jobs) + 1 /\ DOMAIN jobs = 1 .. Len(jobs) /\ Len(jobs) \in Nat
        /\ jobs'[Len(jobs) + 1] = job
        /\ \A i \in DOMAIN jobs : jobs'[i] = jobs[i]
    BY <2>1, Grown DEF Types
  <2>3. ~button' /\ UNCHANGED <<session, revision>>
    BY <1>5 DEF Submits
  <2>4. job.kind = "start_round" => job.session = session /\ job.revision = revision
    BY <2>1 DEF ButtonShows, Current
  <2> QED BY <2>2, <2>3, <2>4 DEF ButtonShows
<1>6. CASE Asks
  <2>1. ASSUME NEW job, job.kind # "start_round", jobs' = Append(jobs, job)
        PROVE  \A i \in DOMAIN jobs' : jobs'[i].kind = "start_round" => i \in DOMAIN jobs /\ jobs'[i] = jobs[i]
    <3>1. /\ DOMAIN jobs' = 1 .. Len(jobs) + 1 /\ DOMAIN jobs = 1 .. Len(jobs) /\ Len(jobs) \in Nat
          /\ jobs'[Len(jobs) + 1] = job
          /\ \A i \in DOMAIN jobs : jobs'[i] = jobs[i]
      BY <2>1, Grown DEF Types
    <3> QED BY <2>1, <3>1
  <2>2. jobs' = jobs \/ \E job : job.kind # "start_round" /\ jobs' = Append(jobs, job)
    BY <1>6 DEF Asks, Event
  <2>3. UNCHANGED <<session, revision, busy, shown>> /\ (button' = button \/ button' = FALSE)
    BY <1>6 DEF Asks
  <2> QED BY <2>1, <2>2, <2>3 DEF ButtonShows, Current
<1>7. CASE Takes
  <2>1. UNCHANGED <<jobs, session, revision>>
    BY <1>7 DEF Takes
  <2>2. button' => ~busy' /\ Current(shown)'
    <3>1. CASE /\ events[1].kind = "snapshot" /\ shown' = events[1].state /\ busy' = busy
               /\ (button' => ~busy)
      <4>1. 1 \in DOMAIN events
        BY <1>7, Shrunk DEF Takes, Types
      <4>2. Current(events[1].state) \/ EndComes(1)
        BY <3>1, <4>1 DEF SnapshotsInOrder
      <4>3. EndComes(1) => busy
        BY DEF EndComes, OneCommand
      <4> QED BY <2>1, <3>1, <4>2, <4>3 DEF Current
    <3>2. CASE UNCHANGED <<shown, button>> /\ (busy' = busy \/ busy' = FALSE)
      BY <2>1, <3>2 DEF ButtonShows, Current
    <3> QED BY <1>7, <3>1, <3>2 DEF Takes
  <2> QED BY <2>1, <2>2 DEF ButtonShows
<1> QED BY <1>2, <1>3, <1>4, <1>5, <1>6, <1>7, StepKinds DEF Kinds

-----------------------------------------------------------------------------
(* Backups                                                                 *)

Copying(s) == \E i \in DOMAIN copies : copies[i] = s

UnderWay(s) == Holds(posts, s) \/ Holds(events, s) \/ refusing = s \/ Copying(s)

Failure == Event("shutdown_backup_error")
FailureComes == (results # <<>> /\ results[1] = Failure) \/ \E i \in DOMAIN events : events[i] = Failure

Good == ~dropped /\ ~fatal /\ shutdown \notin {"aborted", "lost"}

(* The cases BackupsAccounted allows, one sequence at a time               *)
Accounted(s) ==
    \/ s \in settled \/ UnderWay(s)
    \/ closing /\ shutdown \in {"no", "draining"}
    \/ FailureComes

AllAccounted == Good => \A s \in 1 .. session - 1 : Accounted(s)

(* The last copy leaves nothing to account for.                            *)
LastKnown == Good /\ shutdown \notin {"no", "draining"} =>
    \A s \in 1 .. session : s \in settled \/ FailureComes

(* A backup that is pending is queued or being made, or its outcome is     *)
(* known or comes.                                                         *)
PendingKnown == \A s \in pending :
    \/ s \in settled \/ Copying(s)
    \/ \E i \in DOMAIN events : events[i].kind = "backup_failed" /\ events[i].sid = s

(* The notice to be put is about the first backup of the queue.            *)
NoticeKnown == notice # <<>> =>
    /\ copies # <<>> /\ notice[1].sid = copies[1]
    /\ notice[1].kind = "backup_failed" \/ copies[1] \in settled

BackupsKnown ==
    /\ session \in Nat /\ dropped \in BOOLEAN /\ fatal \in BOOLEAN
    /\ AllAccounted /\ LastKnown /\ PendingKnown /\ NoticeKnown

(* The steps that leave the backups alone                                  *)
Aside ==
    /\ UNCHANGED <<copies, notice, pending, settled, refusing>>
    /\ DOMAIN events \subseteq DOMAIN events' /\ \A i \in DOMAIN events : events'[i] = events[i]
    /\ Good' => Good
    /\ Good' => \A s : Holds(posts, s) => Holds(posts, s)' \/ Holds(events, s)'
    /\ FailureComes => FailureComes'
    /\ closing => closing'
    /\ shutdown \in {"no", "draining"} => shutdown' \in {"no", "draining", "aborted"}
    /\ dropped' \in BOOLEAN /\ fatal' \in BOOLEAN
    /\ \/ session' = session
       \/ /\ session' = session + 1 /\ shutdown' = "no"
          /\ Good' => \A s : s = session /\ s # 0 => Holds(posts, s)' \/ Holds(events, s)'

(* They keep what is known of the backups.                                 *)
LEMMA AsideKeeps ==
    ASSUME Types, BackupsKnown, Aside
    PROVE  BackupsKnown'
<1>1. Good' => \A s : UnderWay(s) => UnderWay(s)'
  BY DEF Aside, UnderWay, Holds, Copying
<1>2. Good' => \A s : Accounted(s) => Accounted(s)'
  BY <1>1 DEF Aside, Accounted, Good
<1>3. PendingKnown' /\ NoticeKnown'
  BY DEF Aside, BackupsKnown, PendingKnown, NoticeKnown, Copying
<1>4. AllAccounted'
  <2>1. CASE session' = session
    BY <1>2, <2>1 DEF Aside, BackupsKnown, AllAccounted
  <2>2. CASE session' = session + 1
    <3>1. ASSUME NEW s \in 1 .. session, Good' PROVE Accounted(s)'
      <4>1. s \in 1 .. session - 1 \/ (s = session /\ session # 0)
        BY DEF BackupsKnown
      <4>2. CASE s \in 1 .. session - 1
        BY <1>2, <3>1, <4>2 DEF Aside, BackupsKnown, AllAccounted
      <4>3. CASE s = session /\ session # 0
        <5>1. Holds(posts, s)' \/ Holds(events, s)'
          BY <2>2, <3>1, <4>3 DEF Aside, BackupsKnown
        <5> QED BY <5>1 DEF Accounted, UnderWay
      <4> QED BY <4>1, <4>2, <4>3
    <3>2. session' - 1 = session
      BY <2>2 DEF BackupsKnown
    <3> QED BY <3>1, <3>2 DEF AllAccounted
  <2> QED BY <2>1, <2>2 DEF Aside
<1>5. LastKnown'
  <2>1. CASE session' = session
    <3>1. Good' /\ shutdown' \notin {"no", "draining"} => Good /\ shutdown \notin {"no", "draining"}
      BY DEF Aside, Good
    <3> QED BY <2>1, <3>1 DEF Aside, BackupsKnown, LastKnown
  <2>2. CASE shutdown' = "no"
    BY <2>2 DEF LastKnown
  <2> QED BY <2>1, <2>2 DEF Aside
<1>6. session' \in Nat /\ dropped' \in BOOLEAN /\ fatal' \in BOOLEAN
  BY DEF Aside, BackupsKnown
<1> QED BY <1>3, <1>4, <1>5, <1>6 DEF BackupsKnown

(* The queue grows, or loses what is posted.                               *)
Keeps ==
    /\ DOMAIN events \subseteq DOMAIN events' /\ \A i \in DOMAIN events : events'[i] = events[i]
    /\ dropped' \in BOOLEAN /\ (dropped => dropped')

(* What the queue takes                                                    *)
LEMMA Taken ==
    ASSUME Types, dropped \in BOOLEAN, NEW e, PutNowait(e)
    PROVE  Keeps /\ (dropped' \/ \E i \in DOMAIN events' : events'[i] = e)
<1>1. CASE events' = Append(events, e) /\ UNCHANGED dropped
  <2>1. /\ DOMAIN events' = 1 .. Len(events) + 1 /\ DOMAIN events = 1 .. Len(events) /\ Len(events) \in Nat
        /\ events'[Len(events) + 1] = e /\ \A i \in DOMAIN events : events'[i] = events[i]
    BY <1>1, Grown DEF Types
  <2>2. Len(events) + 1 \in DOMAIN events'
    BY <2>1
  <2> QED BY <1>1, <2>1, <2>2 DEF Keeps
<1>2. CASE dropped' = TRUE /\ UNCHANGED events
  BY <1>2 DEF Keeps
<1> QED BY <1>1, <1>2 DEF PutNowait

(* Neither of a change's own notifications is about a session.             *)
LEMMA ChangedTaken ==
    ASSUME Types, BackupsKnown, LockFree, Post(Changed)
    PROVE  Keeps /\ \A s : Holds(posts, s) => Holds(posts, s)'
<1>1. Keeps
  BY Taken DEF Post, BackupsKnown
<1>2. \A s : ~Holds(posts, s)
  BY Single DEF LockFree, Holds
<1> QED BY <1>1, <1>2

(* What is posted later on is then in the queue.                           *)
LEMMA NotifyAside ==
    ASSUME Types, BackupsKnown, Notify
    PROVE  Aside
<1> USE DEF engine, worker, backups, account, flags, view, window
<1>1. posts # <<>> /\ PutNowait(Head(posts)) /\ posts' = Tail(posts)
  BY DEF Notify, Post
<1>2. Keeps /\ (dropped' \/ \E i \in DOMAIN events' : events'[i] = Head(posts))
  BY <1>1, Taken DEF BackupsKnown
<1>3. ASSUME NEW s, Holds(posts, s), ~dropped' PROVE Holds(posts, s)' \/ Holds(events, s)'
  <2>1. PICK i \in DOMAIN posts : posts[i].kind \in {"session_closed", "backup_failed"} /\ posts[i].sid = s
    BY <1>3 DEF Holds
  <2>2. /\ Len(posts) \in Nat /\ DOMAIN posts = 1 .. Len(posts) /\ Head(posts) = posts[1]
        /\ DOMAIN Tail(posts) = 1 .. Len(posts) - 1
        /\ \A k \in DOMAIN Tail(posts) : Tail(posts)[k] = posts[k + 1]
    BY <1>1, Shrunk DEF Types
  <2>3. CASE i = 1
    BY <1>2, <1>3, <2>1, <2>2, <2>3 DEF Holds
  <2>4. CASE i # 1
    <3>1. i - 1 \in DOMAIN posts' /\ posts'[i - 1] = posts[i]
      BY <1>1, <2>2, <2>4
    <3> QED BY <2>1, <3>1 DEF Holds
  <2> QED BY <2>3, <2>4
<1> QED BY <1>2, <1>3 DEF Notify, Aside, Keeps, Good, FailureComes, BackupsKnown

(* A session that is closed is told of, or the notification is lost.       *)
LEMMA NewSessionAside ==
    ASSUME Types, BackupsKnown, NewSession
    PROVE  Aside
<1> USE DEF engine, worker, backups, account, flags, view, window
<1> DEFINE list == (IF session = 0 THEN <<>> ELSE <<About("session_closed", session)>>) \o Changed
<1>1. posts = <<>> /\ results = <<>> /\ shutdown = "no" /\ PutNowait(Head(list)) /\ ~fatal
  BY DEF NewSession, Begins, LockFree, Post
<1>2. Keeps /\ (dropped' \/ \E i \in DOMAIN events' : events'[i] = Head(list))
  BY <1>1, Taken DEF BackupsKnown
<1>3. \A s : ~Holds(posts, s)
  BY <1>1, Single DEF Holds
<1>4. ASSUME NEW s, s = session, s # 0, ~dropped' PROVE Holds(events, s)'
  <2>1. ASSUME NEW a, NEW b PROVE Head(<<a>> \o <<b>>) = a
    <3>1. <<a>> \in Seq({a, b}) /\ <<b>> \in Seq({a, b})
      OBVIOUS
    <3> QED BY <3>1
  <2>2. Head(list) = About("session_closed", session)
    BY <1>4, <2>1 DEF Changed
  <2> QED BY <1>2, <1>4, <2>2 DEF Holds, About
<1>5. UNCHANGED <<copies, notice, pending, settled, refusing, closing, shutdown>>
  BY DEF NewSession, Ends
<1>6. fatal' \in BOOLEAN /\ (session' = session \/ session' = session + 1)
  BY DEF NewSession, BackupsKnown
<1>7. FailureComes => FailureComes'
  BY <1>1, <1>2 DEF FailureComes, Keeps
<1> QED BY <1>1, <1>2, <1>3, <1>4, <1>5, <1>6, <1>7 DEF Aside, Keeps, Good

(* What the control worker has to put goes to the end of the queue.        *)
LEMMA PutResultAside ==
    ASSUME Types, BackupsKnown, PutResult
    PROVE  Aside
<1> USE DEF engine, worker, backups, account, flags, view, window
<1>1. PICK e : results = <<e>>
  BY DEF PutResult, Types
<1>2. PutNowait(Head(results))
  BY DEF PutResult, PutNowait
<1>3. Keeps /\ \E i \in DOMAIN events' : events'[i] = Head(results)
  <2>1. /\ DOMAIN events' = 1 .. Len(events) + 1 /\ Len(events) \in Nat
        /\ events'[Len(events) + 1] = Head(results)
    BY Grown DEF PutResult, Types
  <2>2. Len(events) + 1 \in DOMAIN events'
    BY <2>1
  <2> QED BY <1>2, <2>1, <2>2, Taken DEF BackupsKnown
<1>4. FailureComes => FailureComes'
  BY <1>1, <1>3, Single DEF FailureComes, Keeps
<1> QED BY <1>3, <1>4 DEF PutResult, Aside, Keeps, Good, BackupsKnown

(* So does the event of a new session.                                     *)
LEMMA PutNewSessionAside ==
    ASSUME Types, BackupsKnown, PutNewSession
    PROVE  Aside
<1> USE DEF engine, worker, backups, account, flags, view, window
<1>1. PutNowait(Event("new_session"))
  BY DEF PutNewSession, PutNowait
<1>2. Keeps
  BY <1>1, Taken DEF BackupsKnown
<1>3. FailureComes => FailureComes'
  BY <1>2 DEF PutNewSession, FailureComes, Keeps
<1> QED BY <1>2, <1>3 DEF PutNewSession, Aside, Keeps, Good, Holds, BackupsKnown

(* Commands, clicks and the timer leave the backups alone.                 *)
LEMMA OthersAside ==
    ASSUME Types, BackupsKnown, [Next]_vars
    PROVE  Aside \/ LastCopy \/ Backup \/ React
<1> USE DEF engine, queue, worker, backups, account, flags, view, window, outside
<1>1. CASE UNCHANGED vars \/ ClickStart \/ CloseWindow \/ RequestSnapshot
  BY <1>1 DEF vars, ClickStart, CloseWindow, RequestSnapshot, Submit, Aside, Good, Holds, FailureComes, BackupsKnown
<1>2. ASSUME NEW kind \in Commands, Click(kind) PROVE Aside
  BY <1>2 DEF Click, Submit, Aside, Good, Holds, FailureComes, BackupsKnown
<1>3. CASE Traffic \/ SettingsFail
  <2>1. LockFree /\ Post(Changed)
    BY <1>3 DEF Traffic, SettingsFail
  <2>2. fatal' \in BOOLEAN /\ (fatal => fatal')
    BY <1>3 DEF Traffic, SettingsFail, BackupsKnown
  <2>3. UNCHANGED <<session, results, shutdown, closing, copies, notice, pending, settled, refusing>>
    BY <1>3 DEF Traffic, SettingsFail
  <2> QED BY <2>1, <2>2, <2>3, ChangedTaken DEF Aside, Keeps, Good, FailureComes, BackupsKnown
<1>4. CASE StorageFails \/ SetTarget \/ StartRound \/ CancelRound
  <2>1. LockFree /\ Post(Changed) /\ results = <<>>
    BY <1>4 DEF StorageFails, SetTarget, StartRound, CancelRound, Begins
  <2>2. fatal' \in BOOLEAN /\ (fatal => fatal')
    BY <1>4 DEF StorageFails, SetTarget, StartRound, CancelRound, BackupsKnown
  <2>3. UNCHANGED <<session, shutdown, closing, copies, notice, pending, settled, refusing>>
    BY <1>4 DEF StorageFails, SetTarget, StartRound, CancelRound, Ends
  <2> QED BY <2>1, <2>2, <2>3, ChangedTaken DEF Aside, Keeps, Good, FailureComes, BackupsKnown
<1>5. CASE ReadSnapshot \/ OtherwiseEnds
  <2>1. results = <<>>
    BY <1>5 DEF ReadSnapshot, OtherwiseEnds, Begins
  <2>2. UNCHANGED <<posts, events, dropped, session, fatal, shutdown, closing, copies, notice, pending, settled, refusing>>
    BY <1>5 DEF ReadSnapshot, OtherwiseEnds, Ends, Silent
  <2> QED BY <2>1, <2>2 DEF Aside, Good, Holds, FailureComes, BackupsKnown
<1>6. CASE CloseMatch
  <2>1. shutdown = "no" /\ LockFree /\ shutdown' \in {"draining", "aborted"}
    BY <1>6 DEF CloseMatch, Begins
  <2>2. UNCHANGED <<results, session, fatal, closing, copies, notice, pending, settled, refusing>>
    BY <1>6 DEF CloseMatch
  <2>3. Keeps /\ \A s : Holds(posts, s) => Holds(posts, s)'
    <3>1. CASE Post(Changed)
      BY <2>1, <3>1, ChangedTaken
    <3>2. CASE Silent
      BY <3>2 DEF Silent, Keeps, Holds, BackupsKnown
    <3> QED BY <1>6, <3>1, <3>2 DEF CloseMatch
  <2> QED BY <2>1, <2>2, <2>3 DEF Aside, Keeps, Good, FailureComes, BackupsKnown
<1>7. CASE CloseStore
  <2>1. /\ results = <<>>
        /\ \/ shutdown = "ending" /\ shutdown' = "over"
           \/ shutdown = "aborted" /\ shutdown' = "lost"
    BY <1>7 DEF CloseStore
  <2>2. UNCHANGED <<posts, events, dropped, session, fatal, closing, copies, notice, pending, settled, refusing>>
    BY <1>7 DEF CloseStore, Silent
  <2> QED BY <2>1, <2>2 DEF Aside, Good, Holds, FailureComes, BackupsKnown
<1> QED BY <1>1, <1>2, <1>3, <1>4, <1>5, <1>6, <1>7, NotifyAside, NewSessionAside, PutResultAside,
           PutNewSessionAside
        DEF Next, Work

(* The copies that are made, and the last one                              *)
LEMMA CopiesKnown ==
    ASSUME Types, Ending, BackupsKnown, LastCopy \/ CopyDatabase
    PROVE  BackupsKnown'
<1> USE DEF engine, queue, worker, backups, flags, view
<1>1. /\ settled \subseteq settled' /\ UNCHANGED <<copies, pending, refusing, posts, events, dropped, session, fatal, closing>>
  BY DEF LastCopy, CopyDatabase, Silent
<1>2. CASE CopyDatabase
  <2>1. UNCHANGED <<results, shutdown>>
    BY <1>2 DEF CopyDatabase
  <2>2. copies # <<>> /\ Head(copies) = copies[1]
    BY <1>2, Shrunk DEF CopyDatabase, Types
  <2>3. NoticeKnown'
    <3>1. CASE notice' = <<About("backup_made", Head(copies))>> /\ Head(copies) \in settled'
      BY <1>1, <2>2, <3>1, Single DEF NoticeKnown, About
    <3>2. CASE notice' = <<About("backup_failed", Head(copies))>>
      BY <1>1, <2>2, <3>2, Single DEF NoticeKnown, About
    <3> QED BY <1>2, <3>1, <3>2 DEF CopyDatabase
  <2>4. PendingKnown'
    BY <1>1 DEF BackupsKnown, PendingKnown, Copying
  <2>5. AllAccounted'
    BY <1>1, <2>1 DEF BackupsKnown, AllAccounted, Accounted, UnderWay, Holds, Copying, FailureComes, Good
  <2>6. LastKnown'
    BY <1>1, <2>1 DEF BackupsKnown, LastKnown, FailureComes, Good
  <2> QED BY <1>1, <2>3, <2>4, <2>5, <2>6 DEF BackupsKnown
<1>3. CASE LastCopy
  <2>1. shutdown = "draining" /\ shutdown' = "ending" /\ notice' = notice
    BY <1>3 DEF LastCopy
  <2>2. ASSUME NEW s \in 1 .. session, Good' PROVE s \in settled' \/ FailureComes'
    <3>1. session # 0 /\ ~fatal
      BY <1>1, <2>2 DEF Good, BackupsKnown
    <3>2. s \in ClosedSessions
      BY <2>1, <3>1 DEF ClosedSessions
    <3>3. CASE results' = <<Failure>>
      BY <3>3, Single DEF FailureComes
    <3>4. CASE settled' = settled \cup ClosedSessions
      BY <3>2, <3>4
    <3> QED BY <1>3, <3>1, <3>3, <3>4 DEF LastCopy, Failure
  <2>3. LastKnown'
    BY <1>1, <2>2 DEF LastKnown
  <2>4. AllAccounted'
    <3>1. \A s : s \in 1 .. session - 1 => s \in 1 .. session
      BY DEF BackupsKnown
    <3> QED BY <1>1, <2>2, <3>1 DEF AllAccounted, Accounted
  <2>5. PendingKnown' /\ NoticeKnown'
    BY <1>1, <2>1 DEF BackupsKnown, PendingKnown, NoticeKnown, Copying
  <2> QED BY <1>1, <2>3, <2>4, <2>5 DEF BackupsKnown
<1> QED BY <1>2, <1>3

(* A notice that is put, and a refusal                                     *)
LEMMA PutsKnown ==
    ASSUME Types, BackupsKnown, PutNotice \/ PutRefusal
    PROVE  BackupsKnown'
<1> USE DEF engine, worker, backups, account, flags, view, window
<1>1. UNCHANGED <<pending, settled, posts, dropped, session, fatal, closing, results, shutdown>>
  BY DEF PutNotice, PutRefusal
<1> DEFINE e == IF PutNotice THEN Head(notice) ELSE About("backup_failed", refusing)
<1>2. events' = Append(events, e)
  BY DEF PutNotice, PutRefusal
<1>3. /\ DOMAIN events' = 1 .. Len(events) + 1 /\ DOMAIN events = 1 .. Len(events) /\ Len(events) \in Nat
      /\ events'[Len(events) + 1] = e /\ \A i \in DOMAIN events : events'[i] = events[i]
  BY <1>2, Grown DEF Types
<1> HIDE DEF e
<1>4. /\ DOMAIN events \subseteq DOMAIN events' /\ \A i \in DOMAIN events : events'[i] = events[i]
      /\ \E i \in DOMAIN events' : events'[i] = e
  <2>1. Len(events) + 1 \in DOMAIN events'
    BY <1>3
  <2> QED BY <1>3, <2>1
<1>5. FailureComes => FailureComes'
  BY <1>1, <1>4 DEF FailureComes
<1>6. \A s : Holds(posts, s) \/ Holds(events, s) => Holds(posts, s)' \/ Holds(events, s)'
  BY <1>1, <1>4 DEF Holds
<1>7. LastKnown'
  BY <1>1, <1>5 DEF BackupsKnown, LastKnown, Good
<1>8. CASE PutRefusal
  <2>1. e = About("backup_failed", refusing) /\ refusing # 0 /\ UNCHANGED <<copies, notice>>
    <3>1. refusing' # refusing
      BY <1>8 DEF PutRefusal
    <3> QED BY <1>8, <3>1 DEF e, PutRefusal, PutNotice
  <2>2. \A s : s = refusing => Holds(events, s)'
    BY <1>4, <2>1 DEF Holds, About
  <2>3. AllAccounted'
    BY <1>1, <1>5, <1>6, <2>1, <2>2 DEF BackupsKnown, AllAccounted, Accounted, UnderWay, Copying, Good
  <2>4. PendingKnown' /\ NoticeKnown'
    BY <1>1, <1>4, <2>1 DEF BackupsKnown, PendingKnown, NoticeKnown, Copying
  <2> QED BY <1>1, <1>7, <2>3, <2>4 DEF BackupsKnown
<1>9. CASE PutNotice
  <2>1. /\ e = Head(notice) /\ notice # <<>> /\ notice' = <<>> /\ copies' = Tail(copies) /\ refusing' = refusing
    BY <1>9 DEF e, PutNotice
  <2>2. PICK n : notice = <<n>>
    BY <2>1 DEF Types
  <2>3. e = n /\ notice[1] = n
    BY <2>1, <2>2, Single
  <2>4. copies # <<>> /\ n.sid = copies[1] /\ (n.kind = "backup_failed" \/ copies[1] \in settled)
    BY <2>1, <2>3 DEF BackupsKnown, NoticeKnown
  <2>5. \A s : Copying(s) => Copying(s)' \/ s = copies[1]
    <3>1. /\ Len(copies) \in Nat /\ DOMAIN copies = 1 .. Len(copies)
          /\ DOMAIN Tail(copies) = 1 .. Len(copies) - 1
          /\ \A k \in DOMAIN Tail(copies) : Tail(copies)[k] = copies[k + 1]
      BY <2>4, Shrunk DEF Types
    <3>2. ASSUME NEW s, NEW i \in DOMAIN copies, copies[i] = s, i # 1 PROVE Copying(s)'
      <4>1. i - 1 \in DOMAIN copies' /\ copies'[i - 1] = s
        BY <2>1, <3>1, <3>2
      <4> QED BY <4>1 DEF Copying
    <3> QED BY <3>2 DEF Copying
  <2>6. \/ copies[1] \in settled
        \/ \E i \in DOMAIN events' : events'[i].kind = "backup_failed" /\ events'[i].sid = copies[1]
    BY <1>4, <2>3, <2>4
  <2>7. AllAccounted'
    <3>1. \A s : s = copies[1] => s \in settled \/ Holds(events, s)'
      BY <2>6 DEF Holds
    <3> QED BY <1>1, <1>5, <1>6, <2>1, <2>5, <3>1 DEF BackupsKnown, AllAccounted, Accounted, UnderWay, Good
  <2>8. PendingKnown' /\ NoticeKnown'
    BY <1>1, <1>4, <2>1, <2>5, <2>6 DEF BackupsKnown, PendingKnown, NoticeKnown
  <2> QED BY <1>1, <1>7, <2>7, <2>8 DEF BackupsKnown
<1> QED BY <1>8, <1>9

(* An event that is handled: what it told of a session is taken over.      *)
LEMMA TakenKnown ==
    ASSUME Types, Ending, BackupsKnown, TakeEvent
    PROVE  BackupsKnown'
<1> USE DEF engine, worker, flags, view
<1>0. PICK e : e = events[1]
  OBVIOUS
<1>1. /\ UNCHANGED <<posts, dropped, session, fatal, results, shutdown, notice, closing>>
      /\ events # <<>> /\ events' = Tail(events) /\ refusing = 0 /\ Handle(e)
  <2>1. events # <<>> /\ Head(events) = e
    BY <1>0, Shrunk DEF TakeEvent, Types
  <2>2. closing' = closing
    BY DEF TakeEvent, Handle, Render, QueueBackup, BackupEnded, Note, NoteNewSession
  <2> QED BY <2>1, <2>2 DEF TakeEvent, Reacts
<1>2. \A i \in DOMAIN events : i = 1 \/ \E k \in DOMAIN events' : events'[k] = events[i]
  <2>1. /\ Len(events) \in Nat /\ DOMAIN events = 1 .. Len(events) /\ DOMAIN events' = 1 .. Len(events) - 1
        /\ \A k \in DOMAIN events' : events'[k] = events[k + 1]
    BY <1>1, Shrunk DEF Types
  <2>2. ASSUME NEW i \in DOMAIN events, i # 1 PROVE i - 1 \in DOMAIN events' /\ events'[i - 1] = events[i]
    BY <2>1, <2>2
  <2> QED BY <2>2
<1>3. \A s : Holds(events, s) => Holds(events, s)' \/ (e.kind \in {"session_closed", "backup_failed"} /\ e.sid = s)
  BY <1>0, <1>2 DEF Holds
<1>4. FailureComes => FailureComes' \/ e = Failure
  BY <1>0, <1>1, <1>2 DEF FailureComes
<1>5. \A s : (\E i \in DOMAIN events : events[i].kind = "backup_failed" /\ events[i].sid = s) =>
          \/ \E i \in DOMAIN events' : events'[i].kind = "backup_failed" /\ events'[i].sid = s
          \/ e.kind = "backup_failed" /\ e.sid = s
  BY <1>0, <1>2
<1>6. CASE e.kind \in {"snapshot", "new_session", "changed", "command_finished", "snapshot_error", "closed"}
  <2>1. UNCHANGED <<pending, settled, refusing, copies>> /\ e # Failure
    BY <1>1, <1>6 DEF Handle, Render, Note, NoteNewSession, QueueBackup, BackupEnded, account, Failure, Event
  <2>2. settled' = settled
    BY <1>1, <1>6 DEF Handle, Render, Note, NoteNewSession, QueueBackup, BackupEnded, account
  <2>3. AllAccounted'
    BY <1>1, <1>3, <1>4, <1>6, <2>1, <2>2 DEF BackupsKnown, AllAccounted, Accounted, UnderWay, Copying, Good, Holds
  <2>4. LastKnown'
    BY <1>1, <1>4, <2>1, <2>2 DEF BackupsKnown, LastKnown, Good
  <2>5. PendingKnown' /\ NoticeKnown'
    BY <1>1, <1>5, <1>6, <2>1, <2>2 DEF BackupsKnown, PendingKnown, NoticeKnown, Copying
  <2> QED BY <1>1, <2>3, <2>4, <2>5 DEF BackupsKnown
<1>7. CASE e.kind = "shutdown_backup_error"
  <2>1. UNCHANGED <<pending, refusing, copies>> /\ settled' = settled \cup ClosedSessions
    BY <1>1, <1>7 DEF Handle, Note
  <2>2. Good => \A s \in 1 .. session - 1 : s \in settled'
    BY <2>1 DEF ClosedSessions, BackupsKnown
  <2>3. Good /\ shutdown \notin {"no", "draining"} => \A s \in 1 .. session : s \in settled'
    BY <2>1 DEF ClosedSessions, Good, BackupsKnown
  <2>4. AllAccounted'
    BY <1>1, <2>2 DEF AllAccounted, Accounted, Good
  <2>5. LastKnown'
    BY <1>1, <2>3 DEF LastKnown, Good
  <2>6. PendingKnown' /\ NoticeKnown'
    BY <1>1, <1>5, <1>7, <2>1 DEF BackupsKnown, PendingKnown, NoticeKnown, Copying
  <2> QED BY <1>1, <2>4, <2>5, <2>6 DEF BackupsKnown
<1>8. CASE e.kind \in {"backup_made", "backup_failed"}
  <2>1. BackupEnded(e.sid, e.kind = "backup_failed") /\ e # Failure
    BY <1>1, <1>8 DEF Handle, Failure, Event
  <2>2. /\ UNCHANGED <<refusing, copies>> /\ settled \subseteq settled'
        /\ pending' = pending \ {e.sid} /\ (e.kind = "backup_failed" => e.sid \in settled')
    BY <2>1 DEF BackupEnded
  <2>3. \A s : Holds(events, s) => Holds(events, s)' \/ s \in settled'
    BY <1>3, <1>8, <2>2
  <2>4. AllAccounted'
    BY <1>1, <1>4, <2>1, <2>2, <2>3 DEF BackupsKnown, AllAccounted, Accounted, UnderWay, Copying, Good, Holds
  <2>5. LastKnown'
    BY <1>1, <1>4, <2>1, <2>2 DEF BackupsKnown, LastKnown, Good
  <2>6. PendingKnown' /\ NoticeKnown'
    BY <1>1, <1>5, <2>2 DEF BackupsKnown, PendingKnown, NoticeKnown, Copying
  <2> QED BY <1>1, <2>4, <2>5, <2>6 DEF BackupsKnown
<1>9. CASE e.kind = "session_closed"
  <2>1. QueueBackup(e.sid) /\ e # Failure
    BY <1>1, <1>9 DEF Handle, Failure, Event
  <2>2. settled' = settled
    BY <2>1 DEF QueueBackup
  <2>3. /\ DOMAIN copies \subseteq DOMAIN copies' /\ \A i \in DOMAIN copies : copies'[i] = copies[i]
        /\ copies # <<>> => copies' # <<>>
        /\ \/ copies' = copies /\ pending' = pending
           \/ Copying(e.sid)' /\ pending' = pending \cup {e.sid}
    <3>1. CASE copies' = Append(copies, e.sid) /\ pending' = pending \cup {e.sid}
      <4>1. /\ DOMAIN copies' = 1 .. Len(copies) + 1 /\ DOMAIN copies = 1 .. Len(copies) /\ Len(copies) \in Nat
            /\ copies'[Len(copies) + 1] = e.sid /\ \A i \in DOMAIN copies : copies'[i] = copies[i] /\ copies' # <<>>
        BY <3>1, Grown DEF Types
      <4>2. Len(copies) + 1 \in DOMAIN copies'
        BY <4>1
      <4>3. Copying(e.sid)'
        BY <4>1, <4>2 DEF Copying
      <4> QED BY <3>1, <4>1, <4>3
    <3>2. CASE UNCHANGED <<pending, copies>>
      BY <3>2
    <3>3. \/ copies' = Append(copies, e.sid) /\ pending' = pending \cup {e.sid}
          \/ UNCHANGED <<pending, copies>>
      BY <2>1 DEF QueueBackup, AcceptBackup
    <3> QED BY <3>1, <3>2, <3>3
  <2>4. refusing' = refusing \/ refusing' = e.sid
    BY <2>1 DEF QueueBackup
  <2>5. \A s : Copying(s) => Copying(s)'
    BY <2>3 DEF Copying
  <2>6. PendingKnown'
    BY <1>1, <1>5, <1>9, <2>2, <2>3, <2>5 DEF BackupsKnown, PendingKnown
  <2>7. NoticeKnown'
    <3>1. copies # <<>> => copies'[1] = copies[1]
      <4>1. copies # <<>> => 1 \in DOMAIN copies
        BY Shrunk DEF Types
      <4> QED BY <2>3, <4>1
    <3> QED BY <1>1, <2>2, <2>3, <3>1 DEF BackupsKnown, NoticeKnown
  <2>8. LastKnown'
    BY <1>1, <1>4, <2>1, <2>2 DEF BackupsKnown, LastKnown, Good
  <2>9. e.sid \in pending => e.sid \in settled' \/ UnderWay(e.sid)'
    <3>1. \A s : s \in pending /\ s = e.sid => s \in settled' \/ Copying(s)' \/ Holds(events, s)'
      BY <1>5, <1>9, <2>2, <2>5 DEF BackupsKnown, PendingKnown, Holds
    <3> QED BY <3>1 DEF UnderWay
  <2>10. AllAccounted'
    <3>1. ASSUME NEW s \in 1 .. session - 1, Good PROVE Accounted(s)'
      <4>1. Accounted(s)
        BY <3>1 DEF BackupsKnown, AllAccounted
      <4>2. CASE s # e.sid
        <5>1. refusing # s
          BY <1>1 DEF BackupsKnown
        <5>2. UnderWay(s) => UnderWay(s)'
          <6>1. Holds(posts, s) => Holds(posts, s)'
            BY <1>1 DEF Holds
          <6>2. Holds(events, s) => Holds(events, s)'
            BY <1>3, <4>2
          <6> QED BY <2>5, <5>1, <6>1, <6>2 DEF UnderWay
        <5>3. FailureComes => FailureComes'
          BY <1>4, <2>1
        <5> QED BY <1>1, <2>2, <4>1, <5>2, <5>3 DEF Accounted
      <4>3. CASE s = e.sid
        <5>1. CASE s \in pending
          BY <2>9, <4>3, <5>1 DEF Accounted, UnderWay
        <5>2. CASE closing
          <6>1. CASE shutdown \in {"no", "draining"}
            BY <1>1, <5>2, <6>1 DEF Accounted
          <6>2. CASE shutdown \notin {"no", "draining"}
            <7>1. s \in 1 .. session
              BY DEF BackupsKnown
            <7>2. s \in settled' \/ FailureComes'
              BY <1>1, <3>1, <6>2, <7>1, <2>8 DEF LastKnown, Good
            <7> QED BY <7>2 DEF Accounted
          <6> QED BY <6>1, <6>2
        <5>3. CASE ~(s \in pending) /\ ~closing
          <6>1. refusing' = e.sid \/ pending' = pending \cup {e.sid}
            BY <2>1, <4>3, <5>3 DEF QueueBackup, AcceptBackup
          <6>2. refusing' = s \/ Copying(s)'
            BY <2>3, <4>3, <5>3, <6>1
          <6> QED BY <6>2 DEF Accounted, UnderWay
        <5> QED BY <5>1, <5>2, <5>3
      <4> QED BY <4>2, <4>3
    <3> QED BY <1>1, <3>1 DEF AllAccounted, Good
  <2> QED BY <1>1, <2>6, <2>7, <2>8, <2>10 DEF BackupsKnown
<1> QED BY <1>1, <1>6, <1>7, <1>8, <1>9 DEF Handle

-----------------------------------------------------------------------------
(* The theorems                                                            *)

WindowInv == Types /\ OneCommand /\ Ending /\ SnapshotsInOrder /\ ButtonShows

(* The invariant holds at first and is kept by every step.                 *)
LEMMA WindowInit ==
    ASSUME Init
    PROVE  WindowInv
<1>1. /\ events = <<>> /\ jobs = <<>> /\ results = <<>> /\ posts = <<>> /\ copies = <<>> /\ notice = <<>>
      /\ busy = FALSE /\ closing = FALSE /\ button = TRUE /\ shown = Snapshot /\ shutdown = "no"
  BY DEF Init
<1>2. IsSeq(<<>>) /\ DOMAIN <<>> = {}
  BY Single
<1>3. Types
  BY <1>1, <1>2 DEF Types
<1>4. OneCommand /\ Ending
  BY <1>1, <1>2 DEF OneCommand, Ending, Reported, StoreOpen
<1>5. SnapshotsInOrder /\ ButtonShows
  BY <1>1, <1>2 DEF SnapshotsInOrder, ButtonShows, Current, Snapshot
<1> QED BY <1>3, <1>4, <1>5 DEF WindowInv

(* WindowInv is an invariant: one command at a time, snapshots in order,   *)
(* and an end that comes last.                                             *)
THEOREM AlwaysWindowInv == Spec => []WindowInv
<1>1. WindowInv /\ [Next]_vars => WindowInv'
  BY TypesStep, OneCommandStep, EndingStep, SnapshotsStep, ButtonStep DEF WindowInv
<1> QED BY <1>1, WindowInit, PTL DEF Spec

(* For a queue of any length a round is started on the session and on the  *)
(* target the window showed when the button was clicked.                   *)
THEOREM StartsOnWhatIsShown == Spec => StartsOnShown
<1>1. ASSUME WindowInv, StartRound PROVE Head(jobs).session = session /\ Head(jobs).revision = revision
  <2>1. jobs # <<>> /\ Head(jobs).kind = "start_round"
    BY <1>1 DEF StartRound, Begins
  <2>2. Head(jobs) = jobs[1] /\ 1 \in DOMAIN jobs
    BY <1>1, <2>1, Shrunk DEF WindowInv, Types
  <2> QED BY <1>1, <2>1, <2>2 DEF WindowInv, ButtonShows
<1>2. WindowInv /\ [Next]_vars =>
        [StartRound => Head(jobs).session = session /\ Head(jobs).revision = revision]_vars
  BY <1>1
<1> QED BY <1>2, AlwaysWindowInv, PTL DEF Spec, StartsOnShown

(* However many backups are queued when the program closes, the store is   *)
(* closed after the last of them, and after every command.                 *)
THEOREM StoreAlwaysClosesLast == Spec => []StoreClosesLast
<1>1. WindowInv => StoreClosesLast
  BY DEF WindowInv, Ending, StoreClosesLast, StoreOpen
<1> QED BY <1>1, AlwaysWindowInv, PTL

(* What is known of the backups, with the rest of the invariant            *)
BackupsInv == WindowInv /\ BackupsKnown

(* It holds at first and is kept by every step.                            *)
LEMMA BackupsStep ==
    ASSUME BackupsInv, [Next]_vars
    PROVE  BackupsKnown'
<1>1. Types /\ Ending /\ BackupsKnown
  BY DEF BackupsInv, WindowInv
<1>2. Aside \/ LastCopy \/ CopyDatabase \/ PutNotice \/ TakeEvent \/ PutRefusal
  BY <1>1, OthersAside DEF Backup, React
<1> QED BY <1>1, <1>2, AsideKeeps, CopiesKnown, PutsKnown, TakenKnown

(* At first there is no session.                                           *)
LEMMA BackupsInit ==
    ASSUME Init
    PROVE  BackupsKnown
<1>1. session = 0 /\ dropped = FALSE /\ fatal = FALSE /\ pending = {} /\ notice = <<>>
  BY DEF Init
<1>2. AllAccounted /\ LastKnown
  BY <1>1 DEF AllAccounted, LastKnown
<1>3. PendingKnown /\ NoticeKnown
  BY <1>1 DEF PendingKnown, NoticeKnown
<1> QED BY <1>1, <1>2, <1>3 DEF BackupsKnown

(* The entries of two sequences are those of their concatenation.          *)
LEMMA Joined ==
    ASSUME NEW s, NEW r, IsSeq(s), IsSeq(r)
    PROVE  /\ \A i \in DOMAIN s : \E k \in DOMAIN (s \o r) : (s \o r)[k] = s[i]
           /\ \A i \in DOMAIN r : \E k \in DOMAIN (s \o r) : (s \o r)[k] = r[i]
<1>1. PICK S, R : s \in Seq(S) /\ r \in Seq(R)
  BY DEF IsSeq
<1>2. s \in Seq(S \cup R) /\ r \in Seq(S \cup R)
  BY <1>1
<1>3. /\ Len(s) \in Nat /\ Len(r) \in Nat /\ DOMAIN s = 1 .. Len(s) /\ DOMAIN r = 1 .. Len(r)
      /\ DOMAIN (s \o r) = 1 .. Len(s) + Len(r)
      /\ \A k \in 1 .. Len(s) + Len(r) : (s \o r)[k] = IF k <= Len(s) THEN s[k] ELSE r[k - Len(s)]
  BY <1>2
<1>4. ASSUME NEW i \in DOMAIN s PROVE i \in DOMAIN (s \o r) /\ (s \o r)[i] = s[i]
  BY <1>3
<1>5. ASSUME NEW i \in DOMAIN r
      PROVE  Len(s) + i \in DOMAIN (s \o r) /\ (s \o r)[Len(s) + i] = r[i]
  BY <1>3
<1> QED BY <1>4, <1>5

(* However many backups may be pending, and however long the queue is: a   *)
(* session that was closed is in a backup, or the referee was told that it *)
(* is not, or one of the two is still to come.                             *)
THEOREM NoBackupForgotten == Spec => []BackupsAccounted
<1>1. BackupsInv /\ [Next]_vars => BackupsKnown'
  BY BackupsStep
<1>2. BackupsInv => BackupsAccounted
  <2> SUFFICES ASSUME BackupsInv, Good, NEW s \in 1 .. session - 1, s \notin settled,
                      ~(closing /\ shutdown \in {"no", "draining"})
               PROVE  InHand(s) \/ Failure \in {(results \o events)[i] : i \in DOMAIN (results \o events)}
    BY DEF BackupsAccounted, Good, Failure
  <2>1. IsSeq(posts) /\ IsSeq(events) /\ IsSeq(results)
    BY Single DEF BackupsInv, WindowInv, Types
  <2>2. UnderWay(s) \/ FailureComes
    BY DEF BackupsInv, BackupsKnown, AllAccounted, Accounted
  <2>3. CASE UnderWay(s)
    <3>1. Holds(posts, s) \/ Holds(events, s) => Holds(posts \o events, s)
      <4>1. ASSUME NEW i \in DOMAIN posts,
                   posts[i].kind \in {"session_closed", "backup_failed"}, posts[i].sid = s
            PROVE  Holds(posts \o events, s)
        <5>1. PICK k \in DOMAIN (posts \o events) : (posts \o events)[k] = posts[i]
          BY <2>1, Joined
        <5> QED BY <4>1, <5>1 DEF Holds
      <4>2. ASSUME NEW i \in DOMAIN events,
                   events[i].kind \in {"session_closed", "backup_failed"}, events[i].sid = s
            PROVE  Holds(posts \o events, s)
        <5>1. PICK k \in DOMAIN (posts \o events) : (posts \o events)[k] = events[i]
          BY <2>1, Joined
        <5> QED BY <4>2, <5>1 DEF Holds
      <4> QED BY <4>1, <4>2 DEF Holds
    <3> QED BY <2>3, <3>1 DEF UnderWay, Copying, InHand
  <2>4. CASE FailureComes
    <3>1. CASE results # <<>> /\ results[1] = Failure
      <4>1. 1 \in DOMAIN results
        BY <2>1, <3>1, Shrunk
      <4>2. PICK k \in DOMAIN (results \o events) : (results \o events)[k] = results[1]
        BY <2>1, <4>1, Joined
      <4> QED BY <3>1, <4>2
    <3>2. CASE \E i \in DOMAIN events : events[i] = Failure
      <4>1. PICK i \in DOMAIN events : events[i] = Failure
        BY <3>2
      <4>2. PICK k \in DOMAIN (results \o events) : (results \o events)[k] = events[i]
        BY <2>1, Joined
      <4> QED BY <4>1, <4>2
    <3> QED BY <2>4, <3>1, <3>2 DEF FailureComes
  <2> QED BY <2>2, <2>3, <2>4
<1> QED BY <1>1, <1>2, BackupsInit, AlwaysWindowInv, PTL DEF BackupsInv, Spec

-----------------------------------------------------------------------------
(* The window follows the match                                            *)

(* A snapshot that was asked for, or what came of it                       *)
Read(e) == e.kind \in {"snapshot", "snapshot_error"}
Any(list) == \E i \in DOMAIN list : Read(list[i])
One(list) == \A i, j \in DOMAIN list : Read(list[i]) /\ Read(list[j]) => i = j

Switches == dirty \in BOOLEAN /\ snapPending \in BOOLEAN /\ misread \in BOOLEAN

(* One snapshot is under way at a time: asked for, read, or to be shown.   *)
OneSnapshot ==
    /\ One(jobs) /\ One(events)
    /\ ~(Any(jobs) /\ Any(results)) /\ ~(Any(jobs) /\ Any(events)) /\ ~(Any(results) /\ Any(events))
    /\ Any(jobs) \/ Any(results) \/ Any(events) => snapPending
    /\ shutdown # "no" => ~Any(results)

Tidings(list) == \E i \in DOMAIN list : list[i].kind = "changed"

(* The window knows, or will be told, that the match has changed since it  *)
(* last asked, or was to be told and the queue was full.                   *)
Changing == dropped \/ dirty \/ Tidings(posts) \/ Tidings(events)

UpToDate(list, state) == \A i \in DOMAIN list : list[i].kind = "snapshot" => list[i].state = state

(* As long as it is not, the snapshots that were read are of the match as  *)
(* it is, and so is the one shown unless a newer one is under way or could *)
(* not be read.                                                            *)
Following ==
    \/ Changing
    \/ /\ UpToDate(results, Snapshot) /\ UpToDate(events, Snapshot)
       /\ Any(jobs) \/ Any(results) \/ Any(events) \/ shown = Snapshot \/ misread

(* The button was put right with the snapshot that is shown.               *)
ButtonFits == button => shown.session = 0 \/ (~shown.active /\ ~shown.fatal)

ShownInv == Switches /\ OneSnapshot /\ Following /\ ButtonFits

(* What a sequence that grows holds                                        *)
LEMMA GrownReads ==
    ASSUME NEW s, IsSeq(s), NEW x
    PROVE  /\ Any(Append(s, x)) <=> Any(s) \/ Read(x)
           /\ One(s) /\ ~(Any(s) /\ Read(x)) => One(Append(s, x))
           /\ Tidings(Append(s, x)) <=> Tidings(s) \/ x.kind = "changed"
           /\ \A t : UpToDate(Append(s, x), t) <=> UpToDate(s, t) /\ (x.kind = "snapshot" => x.state = t)
<1>1. /\ Len(s) \in Nat /\ DOMAIN s = 1 .. Len(s) /\ DOMAIN Append(s, x) = 1 .. Len(s) + 1
      /\ Append(s, x)[Len(s) + 1] = x /\ \A i \in DOMAIN s : Append(s, x)[i] = s[i]
  BY Grown
<1>2. PICK r : r = Append(s, x)
  OBVIOUS
<1>3. /\ DOMAIN r = DOMAIN s \cup {Len(s) + 1} /\ Len(s) + 1 \notin DOMAIN s
      /\ r[Len(s) + 1] = x /\ \A i \in DOMAIN s : r[i] = s[i]
  BY <1>1, <1>2
<1>4. Any(r) <=> Any(s) \/ Read(x)
  BY <1>3 DEF Any, Read
<1>5. One(s) /\ ~(Any(s) /\ Read(x)) => One(r)
  BY <1>3 DEF Any, One, Read
<1>6. Tidings(r) <=> Tidings(s) \/ x.kind = "changed"
  BY <1>3 DEF Tidings
<1>7. \A t : UpToDate(r, t) <=> UpToDate(s, t) /\ (x.kind = "snapshot" => x.state = t)
  BY <1>3 DEF UpToDate
<1> QED BY <1>2, <1>4, <1>5, <1>6, <1>7

(* What is left when the first entry goes                                  *)
LEMMA ShrunkReads ==
    ASSUME NEW s, IsSeq(s), s # <<>>
    PROVE  /\ Any(s) <=> Read(s[1]) \/ Any(Tail(s))
           /\ One(s) => One(Tail(s)) /\ ~(Read(s[1]) /\ Any(Tail(s)))
           /\ Tidings(s) <=> s[1].kind = "changed" \/ Tidings(Tail(s))
           /\ \A t : UpToDate(s, t) => UpToDate(Tail(s), t) /\ (s[1].kind = "snapshot" => s[1].state = t)
<1>1. /\ Len(s) \in Nat /\ Len(s) > 0 /\ DOMAIN s = 1 .. Len(s) /\ DOMAIN Tail(s) = 1 .. Len(s) - 1
      /\ \A i \in DOMAIN Tail(s) : Tail(s)[i] = s[i + 1]
  BY Shrunk
<1>2. PICK r : r = Tail(s)
  OBVIOUS
<1>3. /\ 1 \in DOMAIN s
      /\ \A i \in DOMAIN r : i \in Nat /\ i + 1 \in DOMAIN s /\ i + 1 # 1 /\ r[i] = s[i + 1]
      /\ \A i \in DOMAIN s : i = 1 \/ (i - 1 \in DOMAIN r /\ r[i - 1] = s[i])
  <2>1. ASSUME NEW i \in DOMAIN s, i # 1 PROVE i - 1 \in DOMAIN r /\ r[i - 1] = s[i]
    <3>1. i - 1 \in DOMAIN r /\ (i - 1) + 1 = i
      BY <1>1, <1>2, <2>1
    <3> QED BY <1>1, <1>2, <3>1
  <2> QED BY <1>1, <1>2, <2>1
<1>4. Any(s) <=> Read(s[1]) \/ Any(r)
  BY <1>3 DEF Any, Read
<1>5. ASSUME One(s) PROVE One(r) /\ ~(Read(s[1]) /\ Any(r))
  <2>1. ASSUME NEW i \in DOMAIN r, NEW j \in DOMAIN r, Read(r[i]), Read(r[j]) PROVE i = j
    <3>1. i + 1 = j + 1
      BY <1>3, <1>5, <2>1 DEF One
    <3> QED BY <1>3, <3>1
  <2> QED BY <1>3, <1>5, <2>1 DEF One, Any
<1>6. Tidings(s) <=> s[1].kind = "changed" \/ Tidings(r)
  BY <1>3 DEF Tidings
<1>7. \A t : UpToDate(s, t) => UpToDate(r, t) /\ (s[1].kind = "snapshot" => s[1].state = t)
  BY <1>3 DEF UpToDate
<1> QED BY <1>2, <1>4, <1>5, <1>6, <1>7

(* What one entry, and none, holds                                         *)
LEMMA SingleReads ==
    /\ \A x : (Any(<<x>>) <=> Read(x)) /\ (Tidings(<<x>>) <=> x.kind = "changed")
    /\ \A x, t : UpToDate(<<x>>, t) <=> (x.kind = "snapshot" => x.state = t)
    /\ ~Any(<<>>) /\ ~Tidings(<<>>) /\ One(<<>>) /\ \A t : UpToDate(<<>>, t)
BY Single DEF Any, One, Tidings, UpToDate

(* Steps that are not about a snapshot. A change of the match is told of.  *)
Elsewhere ==
    /\ UNCHANGED <<dirty, snapPending, shown, misread>> /\ (button' => button)
    /\ events' = events \/ \E e : ~Read(e) /\ events' = Append(events, e)
    /\ \/ jobs' = jobs \/ \E e : ~Read(e) /\ jobs' = Append(jobs, e)
       \/ jobs # <<>> /\ ~Read(jobs[1]) /\ jobs' = Tail(jobs)
    /\ \/ results' = results
       \/ (results = <<>> \/ shutdown # "no") /\ \E e : ~Read(e) /\ results' = <<e>>
    /\ shutdown' = shutdown \/ results = <<>> \/ shutdown # "no"
    /\ Changing => Changing'
    /\ Snapshot' = Snapshot \/ Changing'

still == <<dirty, snapPending, shown, misread, button, posts, dropped, Snapshot>>

(* The control worker puts what it has to put.                             *)
Moves ==
    /\ results # <<>> /\ events' = Append(events, results[1]) /\ results' = <<>>
    /\ UNCHANGED <<still, jobs, shutdown>>

(* It reads the match, or fails to.                                        *)
Looks ==
    /\ jobs # <<>> /\ Read(jobs[1]) /\ jobs' = Tail(jobs) /\ results = <<>> /\ shutdown = "no"
    /\ \E e : Read(e) /\ (e.kind = "snapshot" => e.state = Snapshot) /\ results' = <<e>>
    /\ UNCHANGED <<still, events, shutdown>>

(* The window asks for a snapshot.                                         *)
Requests ==
    /\ ~snapPending /\ snapPending' = TRUE /\ dirty' = FALSE
    /\ \E e : Read(e) /\ jobs' = Append(jobs, e)
    /\ UNCHANGED <<results, events, posts, dropped, shown, misread, button, shutdown, Snapshot>>

(* The window takes an event.                                              *)
Learns ==
    /\ events # <<>> /\ events' = Tail(events)
    /\ \/ /\ events[1].kind = "snapshot" /\ snapPending' = FALSE /\ shown' = events[1].state
          /\ misread' = FALSE /\ button' = MayStart(events[1].state) /\ UNCHANGED dirty
       \/ /\ events[1].kind = "snapshot_error" /\ snapPending' = FALSE /\ misread' = TRUE
          /\ UNCHANGED <<dirty, shown, button>>
       \/ /\ ~Read(events[1]) /\ (dirty \/ events[1].kind = "changed" => dirty')
          /\ UNCHANGED <<snapPending, shown, misread, button>>
    /\ UNCHANGED <<jobs, results, posts, dropped, shutdown, Snapshot>>

(* What is posted first comes first, and the rest comes later.             *)
LEMMA TwoPosts ==
    ASSUME NEW a, NEW b
    PROVE  Head(<<a>> \o <<b>>) = a /\ Tail(<<a>> \o <<b>>) = <<b>>
<1>1. <<a>> \in Seq({a, b}) /\ <<b>> \in Seq({a, b}) /\ <<a>> # <<>> /\ Tail(<<a>>) = <<>> /\ Head(<<a>>) = a
  BY Single
<1>2. <<a>> \o <<b>> = Append(<<a>>, b)
  BY <1>1, AppendIsConcat
<1>3. Append(<<>>, b) = <<b>>
  OBVIOUS
<1> QED BY <1>1, <1>2, <1>3, HeadTailAppend

(* A change is told of in the step that makes it, or the lock is held for  *)
(* it.                                                                     *)
LEMMA ChangeTold ==
    ASSUME Types,
           \/ Post(Changed)
           \/ Post((IF session = 0 THEN <<>> ELSE <<About("session_closed", session)>>) \o Changed)
    PROVE  Changing' /\ (events' = events \/ \E e : ~Read(e) /\ events' = Append(events, e))
<1>1. ASSUME Post(Changed)
      PROVE  Changing' /\ (events' = events \/ \E e : ~Read(e) /\ events' = Append(events, e))
  <2>1. PutNowait(Event("changed"))
    BY <1>1, Single DEF Post, Changed
  <2>2. CASE events' = Append(events, Event("changed"))
    <3>1. Tidings(events')
      BY <2>2, GrownReads DEF Types, Event
    <3> QED BY <2>2, <3>1 DEF Changing, Event, Read
  <2> QED BY <2>1, <2>2 DEF PutNowait, Changing
<1>2. ASSUME Post(<<About("session_closed", session)>> \o Changed)
      PROVE  Changing' /\ (events' = events \/ \E e : ~Read(e) /\ events' = Append(events, e))
  <2>1. PutNowait(About("session_closed", session)) /\ posts' = Changed
    BY <1>2, TwoPosts DEF Post, Changed
  <2>2. Tidings(posts')
    BY <2>1, SingleReads DEF Changed, Event
  <2> QED BY <2>1, <2>2 DEF PutNowait, Changing, About, Read
<1>3. <<>> \o Changed = Changed
  BY DEF Changed, Event
<1> QED BY <1>1, <1>2, <1>3

(* What is posted later on is told of then.                                *)
LEMMA NotifyElsewhere ==
    ASSUME Types, Notify
    PROVE  Elsewhere
<1> USE DEF engine, worker, backups, account, flags, view, window
<1>1. posts # <<>> /\ Head(posts) = posts[1] /\ PutNowait(posts[1]) /\ posts' = Tail(posts)
  BY Shrunk DEF Notify, Post, Types
<1>2. ~Read(posts[1])
  BY <1>1, Shrunk DEF Types, Read
<1>3. events' = events \/ \E e : ~Read(e) /\ events' = Append(events, e)
  BY <1>1, <1>2 DEF PutNowait
<1>4. Tidings(posts) => posts[1].kind = "changed" \/ Tidings(posts')
  BY <1>1, ShrunkReads DEF Types
<1>5. /\ dropped => dropped'
      /\ Tidings(events) => Tidings(events')
      /\ posts[1].kind = "changed" => dropped' \/ Tidings(events')
  <2>1. CASE events' = Append(events, posts[1]) /\ UNCHANGED dropped
    <3>1. Tidings(Append(events, posts[1])) <=> Tidings(events) \/ posts[1].kind = "changed"
      BY GrownReads DEF Types
    <3> QED BY <2>1, <3>1
  <2>2. CASE dropped' = TRUE /\ UNCHANGED events
    BY <2>2
  <2> QED BY <1>1, <2>1, <2>2 DEF PutNowait
<1>6. UNCHANGED <<dirty, snapPending, shown, misread, button, jobs, results, shutdown, Snapshot>>
  BY DEF Notify, Snapshot
<1> QED BY <1>3, <1>4, <1>5, <1>6 DEF Elsewhere, Changing

(* A step whose notifications tell of a change                             *)
LEMMA ToldElsewhere ==
    ASSUME Types,
           \/ Post(Changed)
           \/ Post((IF session = 0 THEN <<>> ELSE <<About("session_closed", session)>>) \o Changed),
           UNCHANGED <<dirty, snapPending, shown, misread>>, button' => button,
           \/ jobs' = jobs
           \/ jobs # <<>> /\ ~Read(jobs[1]) /\ jobs' = Tail(jobs),
           \/ results' = results
           \/ results = <<>> /\ \E e : ~Read(e) /\ results' = <<e>>,
           shutdown' = shutdown \/ results = <<>>
    PROVE  Elsewhere
BY ChangeTold DEF Elsewhere

(* Nothing of the match changes.                                           *)
LEMMA SilentElsewhere ==
    ASSUME UNCHANGED <<posts, events, dropped, session, revision, active, fatal>>,
           UNCHANGED <<dirty, snapPending, shown, misread>>, button' => button,
           \/ jobs' = jobs \/ \E e : ~Read(e) /\ jobs' = Append(jobs, e)
           \/ jobs # <<>> /\ ~Read(jobs[1]) /\ jobs' = Tail(jobs),
           \/ results' = results
           \/ (results = <<>> \/ shutdown # "no") /\ \E e : ~Read(e) /\ results' = <<e>>,
           shutdown' = shutdown \/ results = <<>> \/ shutdown # "no"
    PROVE  Elsewhere
BY DEF Elsewhere, Snapshot, Changing, Tidings

(* Every step is of one of these kinds.                                    *)
LEMMA ShownKinds ==
    ASSUME Types, Switches, [Next]_vars
    PROVE  Elsewhere \/ Moves \/ Looks \/ Requests \/ Learns
<1> USE DEF engine, queue, worker, backups, account, flags, view, window, outside
<1>0. \A kind : Begins(kind) => /\ results = <<>> /\ shutdown = "no" /\ jobs # <<>>
                                /\ jobs[1].kind = kind /\ jobs' = Tail(jobs)
  BY Shrunk DEF Begins, Types
<1>1. CASE UNCHANGED vars
  BY <1>1, SilentElsewhere DEF vars
<1>2. CASE Traffic \/ SettingsFail
  BY <1>2, ToldElsewhere DEF Traffic, SettingsFail
<1>3. CASE OtherwiseEnds
  <2>1. jobs # <<>> /\ ~Read(jobs[1]) /\ jobs' = Tail(jobs) /\ results = <<>>
    BY <1>0, <1>3 DEF OtherwiseEnds, Read, Commands
  <2>2. results' = <<Event("command_finished")>> /\ ~Read(Event("command_finished"))
    BY <1>3 DEF OtherwiseEnds, Ends, Event, Read
  <2>3. /\ UNCHANGED <<posts, events, dropped, session, revision, active, fatal>>
        /\ UNCHANGED <<dirty, snapPending, shown, misread, button, shutdown>>
    BY <1>3 DEF OtherwiseEnds, Ends, Silent
  <2> QED BY <2>1, <2>2, <2>3, SilentElsewhere
<1>4. CASE StorageFails \/ NewSession \/ SetTarget \/ StartRound \/ CancelRound
  <2>1. jobs # <<>> /\ ~Read(jobs[1]) /\ jobs' = Tail(jobs) /\ results = <<>>
    BY <1>0, <1>4 DEF StorageFails, NewSession, SetTarget, StartRound, CancelRound, Read, Commands
  <2>2. Ends
    BY <1>4 DEF StorageFails, NewSession, SetTarget, StartRound, CancelRound
  <2>3. results' = <<Event("command_finished")>> /\ ~Read(Event("command_finished"))
    BY <2>2 DEF Ends, Event, Read
  <2>4. UNCHANGED <<dirty, snapPending, shown, misread, button, shutdown>>
    BY <2>2 DEF Ends
  <2>5. \/ Post(Changed)
        \/ Post((IF session = 0 THEN <<>> ELSE <<About("session_closed", session)>>) \o Changed)
    BY <1>4 DEF StorageFails, NewSession, SetTarget, StartRound, CancelRound
  <2> QED BY <2>1, <2>3, <2>4, <2>5, ToldElsewhere
<1>5. CASE ReadSnapshot
  <2>1. jobs # <<>> /\ Read(jobs[1]) /\ jobs' = Tail(jobs) /\ results = <<>> /\ shutdown = "no"
    BY <1>0, <1>5 DEF ReadSnapshot, Read
  <2>2. \E e : Read(e) /\ (e.kind = "snapshot" => e.state = Snapshot) /\ results' = <<e>>
    BY <1>5 DEF ReadSnapshot, Read, Event
  <2> QED BY <1>5, <2>1, <2>2 DEF ReadSnapshot, Silent, Looks, still, Snapshot
<1>6. CASE PutResult
  <2>1. results # <<>> /\ Head(results) = results[1] /\ Tail(results) = <<>>
    <3>1. PICK x : results = <<x>>
      BY <1>6 DEF PutResult, Types
    <3> QED BY <3>1, Single
  <2> QED BY <1>6, <2>1 DEF PutResult, Moves, still, Snapshot
<1>7. CASE CloseMatch
  <2>1. jobs # <<>> /\ ~Read(jobs[1]) /\ jobs' = Tail(jobs) /\ results = <<>>
    BY <1>0, <1>7 DEF CloseMatch, Read
  <2>2. UNCHANGED <<dirty, snapPending, shown, misread, button, results, session, revision, fatal>>
    BY <1>7 DEF CloseMatch
  <2>3. CASE Silent /\ UNCHANGED active
    BY <2>1, <2>2, <2>3, SilentElsewhere DEF Silent
  <2>4. CASE Post(Changed)
    BY <2>1, <2>2, <2>4, ToldElsewhere
  <2> QED BY <1>7, <2>3, <2>4 DEF CloseMatch
<1>8. CASE LastCopy
  <2>1. ~Read(Event("shutdown_backup_error"))
    BY DEF Read, Event
  <2>2. shutdown # "no" /\ (results' = results \/ \E e : ~Read(e) /\ results' = <<e>>)
    BY <1>8, <2>1 DEF LastCopy
  <2>3. /\ UNCHANGED <<posts, events, dropped, session, revision, active, fatal>>
        /\ UNCHANGED <<dirty, snapPending, shown, misread, button, jobs>>
    BY <1>8 DEF LastCopy, Silent
  <2> QED BY <2>2, <2>3, SilentElsewhere
<1>9. CASE CloseStore
  <2>1. shutdown # "no" /\ (results' = results \/ \E e : ~Read(e) /\ results' = <<e>>)
    BY <1>9 DEF CloseStore, Read, Event
  <2>2. /\ UNCHANGED <<posts, events, dropped, session, revision, active, fatal>>
        /\ UNCHANGED <<dirty, snapPending, shown, misread, button, jobs>>
    BY <1>9 DEF CloseStore, Silent
  <2> QED BY <2>1, <2>2, SilentElsewhere
<1>10. CASE CopyDatabase
  BY <1>10, SilentElsewhere DEF CopyDatabase, Silent
<1>11. CASE PutNotice \/ PutRefusal \/ PutNewSession
  <2>1. \E e : ~Read(e) /\ events' = Append(events, e)
    <3>1. notice # <<>> => ~Read(Head(notice))
      BY Single DEF Types, Read
    <3> QED BY <1>11, <3>1 DEF PutNotice, PutRefusal, PutNewSession, About, Event, Read
  <2>2. Tidings(events) => Tidings(events')
    BY <2>1, GrownReads DEF Types
  <2>3. UNCHANGED <<posts, dropped, jobs, results, shutdown, dirty, snapPending, shown, misread, button, Snapshot>>
    BY <1>11 DEF PutNotice, PutRefusal, PutNewSession, Snapshot
  <2> QED BY <2>1, <2>2, <2>3 DEF Elsewhere, Changing
<1>12. CASE TakeEvent
  <2>1. events # <<>> /\ events' = Tail(events) /\ Head(events) = events[1]
    BY <1>12, Shrunk DEF TakeEvent, Types
  <2>2. UNCHANGED <<jobs, results, posts, dropped, shutdown, Snapshot>>
    BY <1>12 DEF TakeEvent, Snapshot
  <2> DEFINE e == events[1]
  <2>3. CASE e.kind = "snapshot" /\ Render(e.state)
    BY <2>1, <2>2, <2>3 DEF Render, Learns
  <2>4. CASE e.kind = "session_closed" /\ QueueBackup(e.sid)
    BY <2>1, <2>2, <2>4 DEF QueueBackup, Learns, Read
  <2>5. CASE e.kind \in {"backup_made", "backup_failed"} /\ BackupEnded(e.sid, e.kind = "backup_failed")
    BY <2>1, <2>2, <2>5 DEF BackupEnded, Learns, Read
  <2>6. CASE e.kind = "snapshot_error" /\ Note(e.kind)
    BY <2>1, <2>2, <2>6 DEF Note, Learns, Switches
  <2>7. CASE e.kind \in {"changed", "command_finished", "shutdown_backup_error", "closed"} /\ Note(e.kind)
    BY <2>1, <2>2, <2>7 DEF Note, Learns, Read, Switches
  <2>8. CASE e.kind = "new_session" /\ NoteNewSession
    BY <2>1, <2>2, <2>8 DEF NoteNewSession, Learns, Read
  <2> QED BY <1>12, <2>1, <2>3, <2>4, <2>5, <2>6, <2>7, <2>8 DEF TakeEvent, Handle
<1>13. ASSUME NEW kind \in Commands, Click(kind) PROVE Elsewhere
  <2>1. jobs' = Append(jobs, Event(kind)) /\ ~Read(Event(kind)) /\ ~button'
    BY <1>13 DEF Click, Submit, Event, Read, Commands
  <2> QED BY <1>13, <2>1, SilentElsewhere DEF Click
<1>14. CASE ClickStart
  <2>1. PICK e : jobs' = Append(jobs, e) /\ ~Read(e) /\ ~button'
    BY <1>14 DEF ClickStart, Submit, Read
  <2> QED BY <1>14, <2>1, SilentElsewhere DEF ClickStart
<1>15. CASE CloseWindow
  <2>1. ~button' /\ (jobs' = jobs \/ \E e : ~Read(e) /\ jobs' = Append(jobs, e))
    BY <1>15 DEF CloseWindow, Event, Read
  <2> QED BY <1>15, <2>1, SilentElsewhere DEF CloseWindow
<1>16. CASE RequestSnapshot
  BY <1>16 DEF RequestSnapshot, Requests, Event, Read, Snapshot
<1> QED BY <1>1, <1>2, <1>3, <1>4, <1>5, <1>6, <1>7, <1>8, <1>9, <1>10, <1>11, <1>12, <1>13, <1>14, <1>15,
           <1>16, NotifyElsewhere DEF Next, Work, Backup, React

(* Only one snapshot is under way.                                         *)
LEMMA OneSnapshotStep ==
    ASSUME Types, Switches, OneSnapshot, Elsewhere \/ Moves \/ Looks \/ Requests \/ Learns
    PROVE  OneSnapshot'
<1>0. IsSeq(jobs) /\ IsSeq(events)
  BY DEF Types
<1>1. CASE Elsewhere
  <2>1. (Any(events') <=> Any(events)) /\ One(events')
    <3>1. ASSUME NEW e, ~Read(e)
          PROVE (Any(Append(events, e)) <=> Any(events)) /\ One(Append(events, e))
      BY <1>0, <3>1, GrownReads DEF OneSnapshot
    <3> QED BY <1>1, <3>1 DEF Elsewhere, OneSnapshot
  <2>2. (Any(jobs') <=> Any(jobs)) /\ One(jobs')
    <3>1. ASSUME NEW e, ~Read(e)
          PROVE (Any(Append(jobs, e)) <=> Any(jobs)) /\ One(Append(jobs, e))
      BY <1>0, <3>1, GrownReads DEF OneSnapshot
    <3>2. jobs # <<>> /\ ~Read(jobs[1]) => (Any(Tail(jobs)) <=> Any(jobs)) /\ One(Tail(jobs))
      BY <1>0, ShrunkReads DEF OneSnapshot
    <3> QED BY <1>1, <3>1, <3>2 DEF Elsewhere, OneSnapshot
  <2>3. results' = results \/ ~Any(results')
    BY <1>1, SingleReads DEF Elsewhere
  <2>4. shutdown' # "no" => ~Any(results')
    <3>1. results = <<>> => ~Any(results)
      BY SingleReads
    <3> QED BY <1>1, <2>3, <3>1 DEF Elsewhere, OneSnapshot
  <2>5. snapPending' = snapPending
    BY <1>1 DEF Elsewhere
  <2> QED BY <2>1, <2>2, <2>3, <2>4, <2>5 DEF OneSnapshot
<1>2. CASE Moves
  <2>1. Any(results) <=> Read(results[1])
    <3>1. PICK x : results = <<x>>
      BY <1>2 DEF Moves, Types
    <3> QED BY <3>1, SingleReads, Single
  <2>2. events' = Append(events, results[1]) /\ results' = <<>>
    BY <1>2 DEF Moves
  <2>3. (Any(events') <=> Any(events) \/ Any(results)) /\ One(events')
    BY <1>0, <2>1, <2>2, GrownReads DEF OneSnapshot
  <2>4. ~Any(results')
    BY <2>2, SingleReads
  <2> QED BY <1>2, <2>3, <2>4 DEF Moves, still, OneSnapshot
<1>3. CASE Looks
  <2>1. ~Any(jobs') /\ One(jobs') /\ Any(jobs)
    BY <1>0, <1>3, ShrunkReads DEF Looks, OneSnapshot
  <2> QED BY <1>3, <2>1 DEF Looks, still, OneSnapshot
<1>4. CASE Requests
  <2>1. PICK e : Read(e) /\ jobs' = Append(jobs, e)
    BY <1>4 DEF Requests
  <2>2. ~Any(jobs) /\ ~Any(events) /\ ~Any(results)
    BY <1>4 DEF Requests, OneSnapshot
  <2>3. One(jobs')
    BY <1>0, <2>1, <2>2, GrownReads DEF OneSnapshot
  <2> QED BY <1>4, <2>2, <2>3 DEF Requests, OneSnapshot
<1>5. CASE Learns
  <2>1. (Any(events) <=> Read(events[1]) \/ Any(events')) /\ One(events') /\ ~(Read(events[1]) /\ Any(events'))
    BY <1>0, <1>5, ShrunkReads DEF Learns, OneSnapshot
  <2>2. Any(jobs') \/ Any(results') \/ Any(events') => snapPending'
    <3>1. CASE Read(events[1])
      <4>1. ~Any(jobs) /\ ~Any(results) /\ ~Any(events')
        BY <2>1, <3>1 DEF OneSnapshot
      <4> QED BY <1>5, <2>1, <3>1, <4>1 DEF Learns, OneSnapshot
    <3>2. CASE ~Read(events[1])
      BY <1>5, <2>1, <3>2 DEF Learns, OneSnapshot, Read
    <3> QED BY <3>1, <3>2
  <2> QED BY <1>5, <2>1, <2>2 DEF Learns, OneSnapshot
<1> QED BY <1>1, <1>2, <1>3, <1>4, <1>5

(* The snapshots follow the match.                                         *)
LEMMA FollowingStep ==
    ASSUME Types, Switches, OneSnapshot, Following, Elsewhere \/ Moves \/ Looks \/ Requests \/ Learns
    PROVE  Following'
<1>0. IsSeq(jobs) /\ IsSeq(events)
  BY DEF Types
<1>1. CASE Elsewhere
  <2> SUFFICES ASSUME ~Changing' PROVE Following'
    BY DEF Following
  <2>1. ~Changing /\ Snapshot' = Snapshot /\ UNCHANGED <<shown, misread>>
    BY <1>1 DEF Elsewhere
  <2>2. (Any(events') <=> Any(events)) /\ UpToDate(events', Snapshot)
    <3>1. ASSUME NEW e, ~Read(e)
          PROVE (Any(Append(events, e)) <=> Any(events))
                /\ (UpToDate(Append(events, e), Snapshot) <=> UpToDate(events, Snapshot))
      BY <1>0, <3>1, GrownReads DEF Read
    <3> QED BY <1>1, <2>1, <3>1 DEF Elsewhere, Following
  <2>3. Any(jobs') <=> Any(jobs)
    <3>1. ASSUME NEW e, ~Read(e)
          PROVE Any(Append(jobs, e)) <=> Any(jobs)
      BY <1>0, <3>1, GrownReads
    <3>2. jobs # <<>> /\ ~Read(jobs[1]) => (Any(Tail(jobs)) <=> Any(jobs))
      BY <1>0, ShrunkReads
    <3> QED BY <1>1, <3>1, <3>2 DEF Elsewhere
  <2>4. UpToDate(results', Snapshot) /\ (Any(results) => Any(results'))
    <3>1. results = <<>> => ~Any(results)
      BY SingleReads
    <3>2. \A e : ~Read(e) => UpToDate(<<e>>, Snapshot)
      BY SingleReads DEF Read
    <3> QED BY <1>1, <2>1, <3>1, <3>2 DEF Elsewhere, Following, OneSnapshot
  <2> QED BY <2>1, <2>2, <2>3, <2>4 DEF Following
<1>2. CASE Moves
  <2> SUFFICES ASSUME ~Changing' PROVE Following'
    BY DEF Following
  <2>1. PICK x : results = <<x>> /\ results[1] = x
    BY <1>2, Single DEF Moves, Types
  <2>2. events' = Append(events, x) /\ results' = <<>> /\ UNCHANGED <<still, jobs>>
    BY <1>2, <2>1 DEF Moves
  <2>3. ~Changing
    BY <1>0, <2>2, GrownReads DEF Changing, still
  <2>4. /\ Any(events') <=> Any(events) \/ Any(results)
        /\ UpToDate(events', Snapshot) /\ UpToDate(results', Snapshot)
    BY <1>0, <2>1, <2>2, <2>3, GrownReads, SingleReads DEF Following
  <2> QED BY <2>2, <2>3, <2>4 DEF Following, still
<1>3. CASE Looks
  <2> SUFFICES ASSUME ~Changing' PROVE Following'
    BY DEF Following
  <2>1. ~Changing /\ Snapshot' = Snapshot /\ events' = events
    BY <1>3 DEF Looks, still, Changing
  <2>2. Any(results') /\ UpToDate(results', Snapshot)
    BY <1>3, SingleReads DEF Looks
  <2> QED BY <2>1, <2>2 DEF Following
<1>4. CASE Requests
  <2>1. ~Any(events) /\ ~Any(results) /\ Any(jobs')
    BY <1>0, <1>4, GrownReads DEF Requests, OneSnapshot
  <2>2. UpToDate(events, Snapshot) /\ UpToDate(results, Snapshot)
    BY <2>1 DEF Any, UpToDate, Read
  <2> QED BY <1>4, <2>1, <2>2 DEF Requests, Following
<1>5. CASE Learns
  <2> SUFFICES ASSUME ~Changing' PROVE Following'
    BY DEF Following
  <2>1. /\ (Any(events) <=> Read(events[1]) \/ Any(events')) /\ (Tidings(events) <=> events[1].kind = "changed" \/ Tidings(events'))
        /\ UpToDate(events, Snapshot) =>
              UpToDate(events', Snapshot) /\ (events[1].kind = "snapshot" => events[1].state = Snapshot)
    BY <1>0, <1>5, ShrunkReads DEF Learns
  <2>2. ~Changing /\ UNCHANGED <<jobs, results, Snapshot>>
    <3>1. dirty => dirty'
      BY <1>5 DEF Learns
    <3>2. events[1].kind = "changed" => dirty'
      BY <1>5 DEF Learns
    <3> QED BY <1>5, <2>1, <3>1, <3>2 DEF Learns, Changing
  <2>3. UpToDate(events', Snapshot) /\ UpToDate(results', Snapshot)
    BY <2>1, <2>2 DEF Following
  <2>4. Any(jobs') \/ Any(results') \/ Any(events') \/ shown' = Snapshot \/ misread'
    BY <1>5, <2>1, <2>2 DEF Learns, Following, Read
  <2> QED BY <2>2, <2>3, <2>4 DEF Following
<1> QED BY <1>1, <1>2, <1>3, <1>4, <1>5

(* The button goes with what is shown.                                     *)
LEMMA ButtonFitsStep ==
    ASSUME ButtonFits, Elsewhere \/ Moves \/ Looks \/ Requests \/ Learns
    PROVE  ButtonFits'
BY DEF ButtonFits, Elsewhere, Moves, Looks, Requests, Learns, still, MayStart

(* The switches of the window are on or off.                               *)
LEMMA SwitchesStep ==
    ASSUME Switches, [Next]_vars
    PROVE  Switches'
<1> USE DEF engine, queue, worker, backups, account, flags, view, window, outside
<1>1. CASE UNCHANGED vars \/ Traffic \/ Notify \/ SettingsFail \/ Backup \/ PutRefusal
  BY <1>1 DEF Switches, vars, Traffic, Notify, SettingsFail, Backup, CopyDatabase, PutNotice, PutRefusal
<1>2. CASE \/ ReadSnapshot \/ OtherwiseEnds \/ StorageFails \/ NewSession \/ SetTarget \/ StartRound \/ CancelRound
           \/ PutNewSession \/ PutResult \/ CloseMatch \/ LastCopy \/ CloseStore
  BY <1>2 DEF Switches, ReadSnapshot, OtherwiseEnds, StorageFails, NewSession, SetTarget, StartRound, CancelRound,
              Ends, PutNewSession, PutResult, CloseMatch, LastCopy, CloseStore
<1>3. CASE (\E kind \in Commands : Click(kind)) \/ ClickStart \/ CloseWindow \/ RequestSnapshot
  BY <1>3 DEF Switches, Click, ClickStart, CloseWindow, RequestSnapshot
<1>4. CASE TakeEvent
  BY <1>4 DEF Switches, TakeEvent, Handle, Render, QueueBackup, BackupEnded, Note, NoteNewSession
<1> QED BY <1>1, <1>2, <1>3, <1>4 DEF Next, Work, React

(* For a queue of any length, however the threads interleave: when nothing *)
(* is under way the window shows the match as it is, and "start round" can *)
(* be clicked only for a round that may be started; unless a notification  *)
(* was dropped or the match could not be read.                             *)
THEOREM AlwaysShowsTheMatch == Spec => []ShowsTheMatch
<1>1. Init => ShownInv
  <2> SUFFICES ASSUME Init PROVE ShownInv
    OBVIOUS
  <2>1. Switches /\ Following /\ ButtonFits
    BY DEF Init, Switches, Following, Changing, ButtonFits, Snapshot
  <2>2. jobs = <<>> /\ events = <<>> /\ results = <<>> /\ shutdown = "no"
    BY DEF Init
  <2> QED BY <2>1, <2>2, SingleReads DEF ShownInv, OneSnapshot
<1>2. WindowInv /\ ShownInv /\ [Next]_vars => ShownInv'
  BY ShownKinds, OneSnapshotStep, FollowingStep, ButtonFitsStep, SwitchesStep DEF WindowInv, ShownInv
<1>3. WindowInv /\ ShownInv => ShowsTheMatch
  <2> SUFFICES ASSUME WindowInv, ShownInv, Quiet, ~dropped, ~misread
               PROVE  shown = Snapshot /\ (button /\ session # 0 => MayStart(Snapshot))
    BY DEF ShowsTheMatch
  <2>1. ~Changing /\ ~Any(jobs) /\ ~Any(results) /\ ~Any(events)
    BY SingleReads DEF Quiet, Changing
  <2>2. shown = Snapshot
    BY <2>1 DEF ShownInv, Following
  <2> QED BY <2>2 DEF ShownInv, ButtonFits, WindowInv, ButtonShows, MayStart, Snapshot
<1> QED BY <1>1, <1>2, <1>3, AlwaysWindowInv, PTL DEF Spec

=============================================================================
