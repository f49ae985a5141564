------------------------------ MODULE WebLogin -----------------------------
(***************************************************************************)
(* The referee's login to the web servers: class Auth of                   *)
(* competition/web_auth.py, with the login and logout routes of webapp.py  *)
(* and station_webapp.py, which run it on the threads of a pool.           *)
(*                                                                         *)
(* Time passes in ticks. A thread reads the clock before it takes          *)
(* Auth.lock, so the time it works with may be up to Delay old, and times  *)
(* are not recorded in the order they were read. A time is kept as its     *)
(* age; ages that all threads treat alike are not told apart.              *)
(***************************************************************************)
EXTENDS Integers, Sequences, SequencesExt, FiniteSets

CONSTANTS
    Addresses,    \* addresses attempts come from
    Browsers,     \* browsers of referees
    Window,       \* attempts are counted for so long: 60 s
    Delay,        \* from reading the clock to having the lock
    GlobalLimit,  \* attempts in a window, from everywhere: 20
    LocalLimit,   \* attempts in a window from one address: 5
    MapLimit,     \* addresses remembered: 1024
    SessionLimit, \* logins that are valid at a time: 16
    Lifetime,     \* a login is valid for so long: 8 h
    MaxLogins     \* bound: logins granted

(* The map of addresses outlasts what the global limit lets through.       *)
ASSUME LoginConstants ==
    /\ {Window, Delay, GlobalLimit, LocalLimit, MapLimit, SessionLimit, Lifetime, MaxLogins} \subseteq Nat
    /\ Delay < Window /\ Delay < Lifetime
    /\ LocalLimit > 0 /\ MapLimit >= GlobalLimit - 1 /\ SessionLimit > 0

VARIABLES
    recent,    \* Auth.global_attempts, as ages
    places,    \* the keys of Auth.attempts, in its order
    attempts,  \* Auth.attempts: the ages for each address, <<>> if it has none
    sessions,  \* Auth.sessions: for each token, the time it has left. Tokens
               \* are numbered as they are granted, which is its order
    checking,  \* logins whose password was right, not yet granted
    granting,  \* logins granted, whose route has not ended
    cookie,    \* the token each browser has, 0 for none
    admitted,  \* every attempt let through, with its true age, youngest last
    grants     \* for each token: its true age, and whether it was revoked

limits == <<recent, places, attempts, admitted>>
logins == <<sessions, checking, granting, cookie, grants>>
vars == <<limits, logins>>

-----------------------------------------------------------------------------

Init ==
    /\ recent = <<>> /\ places = <<>> /\ attempts = [a \in Addresses |-> <<>>]
    /\ sessions = [t \in {} |-> 0] /\ checking = {} /\ granting = {}
    /\ cookie = [b \in Browsers |-> 0] /\ admitted = <<>> /\ grants = <<>>

Oldest == Window + Delay

Older(age) == IF age < Oldest THEN age + 1 ELSE age

(* A list from the first of the places that are to be kept                 *)
Since(list, kept) == IF kept = {} THEN <<>> ELSE SubSeq(list, Min(kept), Len(list))

(* An attempt older than any count looks back is not kept in admitted.     *)
Recall(tries) == Since(tries, {i \in DOMAIN tries : tries[i].age < Window - Delay})

Tick ==
    /\ recent' = [i \in DOMAIN recent |-> Older(recent[i])]
    /\ attempts' = [a \in Addresses |-> [i \in DOMAIN attempts[a] |-> Older(attempts[a][i])]]
    /\ admitted' = Recall([i \in DOMAIN admitted |-> [admitted[i] EXCEPT !.age = @ + 1]])
    /\ sessions' = [t \in DOMAIN sessions |-> IF sessions[t] > 0 THEN sessions[t] - 1 ELSE 0]
    /\ grants' = [i \in DOMAIN grants |->
                     [grants[i] EXCEPT !.age = IF @ < Lifetime THEN @ + 1 ELSE @]]
    /\ UNCHANGED <<places, checking, granting, cookie>>

-----------------------------------------------------------------------------
(* _limit, for a thread that read the clock lag ago                        *)

(* popleft while the first is outside the window                           *)
Drop(ages, lag) == Since(ages, {i \in DOMAIN ages : ages[i] < Window + lag})

MoveNotToEnd(list, a) == IF Contains(list, a) THEN list ELSE Append(list, a)  \* fault

(* setdefault and move_to_end                                              *)
MoveToEnd(list, a) ==
    IF Contains(list, a) THEN Append(RemoveAt(list, CHOOSE i \in DOMAIN list : list[i] = a), a)
    ELSE Append(list, a)

(* The first of the map makes room when there are too many.                *)
Evicted(list) == IF Len(list) > MapLimit THEN {Head(list)} ELSE {}

GloballyLimited(lag) == Len(Drop(recent, lag)) >= GlobalLimit

LocallyLimited(a, lag) == Len(Drop(attempts[a], lag)) >= LocalLimit

RefusedGlobally(a, lag) ==
    /\ GloballyLimited(lag)
    /\ recent' = Drop(recent, lag)
    /\ UNCHANGED <<places, attempts, admitted, logins>>

RefusedLocally(a, lag) ==
    /\ ~GloballyLimited(lag) /\ LocallyLimited(a, lag)
    /\ recent' = Drop(recent, lag)
    /\ attempts' = [attempts EXCEPT ![a] = Drop(@, lag)]
    /\ UNCHANGED <<places, admitted, logins>>

(* The password is checked without the lock; a wrong one ends the attempt. *)
Admitted(a, lag) ==
    /\ ~GloballyLimited(lag) /\ ~LocallyLimited(a, lag)
    /\ recent' = Append(Drop(recent, lag), lag)
    /\ LET moved == MoveToEnd(places, a)
       IN /\ places' = IF Evicted(moved) = {} THEN moved ELSE Tail(moved)
          /\ attempts' = [p \in Addresses |->
                             IF p \in Evicted(moved) THEN <<>>
                             ELSE IF p = a THEN Append(Drop(attempts[a], lag), lag)
                             ELSE attempts[p]]
    /\ admitted' = Append(admitted, [from |-> a, age |-> 0])
    /\ \/ UNCHANGED checking
       \/ \E b \in Browsers : checking' = checking \cup {[browser |-> b, old |-> cookie[b]]}
    /\ UNCHANGED <<sessions, granting, cookie, grants>>

Attempt(a, lag) == RefusedGlobally(a, lag) \/ RefusedLocally(a, lag) \/ Admitted(a, lag)

-----------------------------------------------------------------------------
(* The logins                                                              *)

Purged == Restrict(sessions, {t \in DOMAIN sessions : sessions[t] > 0})

TrimNewest(valid) ==  \* fault: the wrong end
    IF Cardinality(valid) > SessionLimit THEN valid \ {Max(valid)} ELSE valid

(* The first of the map makes room when there are too many.                *)
Trim(valid) == IF Cardinality(valid) > SessionLimit THEN valid \ {Min(valid)} ELSE valid

(* The end of the login is computed before the lock is taken.              *)
Grant(c, lag) ==
    /\ Len(grants) < MaxLogins
    /\ LET token == Len(grants) + 1
       IN /\ sessions' = [t \in Trim(DOMAIN Purged \cup {token}) |->
                             IF t = token THEN Lifetime - lag ELSE sessions[t]]
          /\ granting' = granting \cup {[browser |-> c.browser, old |-> c.old, token |-> token]}
    /\ grants' = Append(grants, [age |-> 0, revoked |-> FALSE])
    /\ checking' = checking \ {c}
    /\ UNCHANGED <<limits, cookie>>

Revoked(token) ==
    /\ sessions' = Restrict(sessions, DOMAIN sessions \ {token})
    /\ grants' = [i \in DOMAIN grants |->
                     IF i = token THEN [grants[i] EXCEPT !.revoked = TRUE] ELSE grants[i]]

(* The route ends the login the browser came with; then its audit entry    *)
(* may fail, and the browser gets no new cookie.                           *)
EndLogin(g) ==
    /\ Revoked(g.old)
    /\ granting' = granting \ {g}
    /\ cookie' \in {cookie, [cookie EXCEPT ![g.browser] = g.token]}
    /\ UNCHANGED <<limits, checking>>

AcceptsExpired(token) == token \in DOMAIN sessions  \* fault: get() without _purge

(* get() purges, and looks the token up.                                   *)
Accepts(token) == token \in DOMAIN sessions /\ sessions[token] > 0

Logout(b) ==
    /\ Accepts(cookie[b])
    /\ Revoked(cookie[b])
    /\ cookie' = [cookie EXCEPT ![b] = 0]
    /\ UNCHANGED <<limits, checking, granting>>

(* A request, of which only the purge leaves a trace                       *)
Request ==
    /\ sessions' = Purged
    /\ UNCHANGED <<limits, checking, granting, cookie, grants>>

Next ==
    \/ Tick
    \/ \E a \in Addresses, lag \in 0 .. Delay : Attempt(a, lag)
    \/ \E c \in checking, lag \in 0 .. Delay : Grant(c, lag)
    \/ \E g \in granting : EndLogin(g)
    \/ \E b \in Browsers : Logout(b)
    \/ Request

Spec == Init /\ [][Next]_vars

-----------------------------------------------------------------------------

Within(indices) == Cardinality({i \in indices : admitted[i].age < Window - Delay})

From(a) == {i \in DOMAIN admitted : admitted[i].from = a}

(* However many addresses attempts come from, in whatever order threads    *)
(* with old times get the lock, and whichever addresses the map forgets:   *)
(* in a window, less what a thread may be late, no more passwords are      *)
(* tried than the limits say, in all and from one address; and the map     *)
(* does not grow with the attempts.                                        *)
TriesAreLimited ==
    /\ Within(DOMAIN admitted) <= GlobalLimit
    /\ \A a \in Addresses : Within(From(a)) <= LocalLimit
    /\ Len(places) <= MapLimit

(* A login is valid as long as it should be and no longer: to the end of   *)
(* its lifetime, unless it is revoked by a logout or by the next login of  *)
(* its browser; and others push it out only when as many as the limit came *)
(* after it.                                                               *)
LoginsHold ==
    \A t \in DOMAIN grants :
        /\ Accepts(t) => grants[t].age < Lifetime /\ ~grants[t].revoked
        /\ /\ Len(grants) - t < SessionLimit
           /\ grants[t].age < Lifetime - Delay /\ ~grants[t].revoked
           => Accepts(t)

=============================================================================
