--------------------------- MODULE PublicDisplay ---------------------------
(***************************************************************************)
(* The public display: SnapshotCache of competition/display.py and one     *)
(* page of competition/web/app.js. The publisher reads the match into the  *)
(* cache; the page fetches the cache over a network that may be slow or    *)
(* fail, and shows verdicts large while it takes them for live, and        *)
(* "offline" once it does not.                                             *)
(*                                                                         *)
(* Time passes in ticks, and is kept as ages, up to the age from which     *)
(* nothing depends on it. What a snapshot says is not modelled: an older   *)
(* one has an older verdict. The page's timers run within a tick, as those *)
(* of a page in view do.                                                   *)
(***************************************************************************)
EXTENDS Integers, FiniteSets

CONSTANTS
    MaxAge,   \* a snapshot is stale when it is older: 2500 ms
    Abort,    \* the page gives a fetch up after so long: 1800 ms
    Fetches   \* bound: fetches that could be under way

ASSUME DisplayConstants == MaxAge \in Nat /\ Abort \in Nat /\ Fetches \in Nat \ {0}

VARIABLES
    cache,    \* the age of SnapshotCache.updated
    error,    \* SnapshotCache.error
    fetches,  \* the page's fetches: for how long, whether one is answered,
              \* the age the answer tells, and the age of what it carries
    fresh,    \* the page shows its snapshot as live
    believed, \* performance.now() - lastFreshAt
    shown     \* the true age of the page's snapshot

server == <<cache, error>>
page == <<fetches, fresh, believed, shown>>
displayVars == <<server, page>>

-----------------------------------------------------------------------------

(* As old as nothing that is live ever is, and as a snapshot never taken.  *)
Ancient == 2 * (MaxAge + Abort) + 2
Expired == MaxAge + 1

Older(age, most) == IF age < most THEN age + 1 ELSE most

DisplayInit ==
    /\ cache = Expired /\ error = FALSE
    /\ fetches = {} /\ fresh = FALSE /\ believed = Expired /\ shown = Ancient

-----------------------------------------------------------------------------
(* The publisher's thread                                                  *)

(* refresh; while Engine.lock is busy it does nothing, and the age grows   *)
Publish ==
    /\ cache' = 0 /\ error' = FALSE
    /\ UNCHANGED page

(* An exception in refresh; the next one that succeeds clears it.          *)
PublishFails ==
    /\ error' = TRUE
    /\ UNCHANGED <<cache, page>>

-----------------------------------------------------------------------------
(* The page                                                                *)

HideVerdict ==
    /\ fresh' = FALSE
    /\ UNCHANGED <<believed, shown>>

MayPollAlways == TRUE  \* fault

(* if (pollInProgress) return                                              *)
MayPoll == fetches = {}

(* poll starts: 500 ms after the last one ended, or earlier, when the      *)
(* browser is online again or the page comes into view                     *)
Poll ==
    /\ MayPoll /\ Cardinality(fetches) < Fetches
    /\ fetches' = fetches \cup {[waits |-> 0, answered |-> FALSE, says |-> 0, is |-> 0]}
    /\ UNCHANGED <<server, fresh, believed, shown>>

(* SnapshotCache.read: the packet's "stale", or no snapshot yet            *)
Stale == cache > MaxAge \/ error

(* The server answers with a live snapshot and its age; the answer travels *)
(* from here on.                                                           *)
Answer(f) ==
    /\ ~f.answered /\ ~Stale
    /\ fetches' = (fetches \ {f})
                    \cup {[waits |-> f.waits, answered |-> TRUE, says |-> cache, is |-> cache]}
    /\ UNCHANGED <<server, fresh, believed, shown>>

(* finally                                                                 *)
Ended(f) == fetches' = fetches \ {f}

BelievesNow(f) == 0  \* fault

(* lastFreshAt: the time on the way is not part of the age                 *)
Believes(f) == f.says

Receive(f) ==
    /\ f.answered /\ Ended(f)
    /\ fresh' = TRUE /\ believed' = Believes(f) /\ shown' = f.is
    /\ UNCHANGED server

(* The answer is stale, or there is none: no connection, no free slot of   *)
(* the server's sixteen, an error, a fetch that took too long.             *)
Fails(f) ==
    /\ Ended(f) /\ HideVerdict
    /\ UNCHANGED server

(* The 100 ms timer                                                        *)
Overdue == fresh /\ believed > MaxAge

Expire ==
    /\ Overdue /\ HideVerdict
    /\ UNCHANGED <<server, fetches>>

(* The browser's "offline" event                                           *)
GoOffline ==
    /\ fresh /\ HideVerdict
    /\ UNCHANGED <<server, fetches>>

-----------------------------------------------------------------------------

LongerOnTheWay(f) ==
    [f EXCEPT !.waits = @ + 1, !.is = IF f.answered THEN @ + 1 ELSE @]

Tick ==
    /\ ~Overdue /\ \A f \in fetches : f.waits < Abort
    /\ cache' = Older(cache, Expired)
    /\ believed' = Older(believed, Expired) /\ shown' = Older(shown, Ancient)
    /\ fetches' = {LongerOnTheWay(f) : f \in fetches}
    /\ UNCHANGED <<error, fresh>>

DisplayNext ==
    \/ Publish \/ PublishFails
    \/ Poll \/ Expire \/ GoOffline
    \/ \E f \in fetches : Answer(f) \/ Receive(f) \/ Fails(f)
    \/ Tick

DisplaySpec == DisplayInit /\ [][DisplayNext]_displayVars

-----------------------------------------------------------------------------

(* A verdict shown as live is one that was in the cache at most MaxAge and *)
(* a fetch's longest way ago, however the publisher stalls, fetches fail   *)
(* and answers linger. (Not MaxAge alone: the way is not counted.)         *)
LiveIsRecent == fresh => shown <= Expired + Abort

(* What the page shows is only ever replaced by something as recent: an    *)
(* answer that was overtaken does not bring an older verdict back.         *)
NeverGoesBack == [][Tick \/ shown' <= shown]_displayVars

=============================================================================
