---------------------------- MODULE RoundLedger ----------------------------
(***************************************************************************)
(* What the referee server promises about rounds, as a judge sees them.    *)
(* At most one round waits for its result. A round gets at most one        *)
(* verdict and keeps it; a round that missed its time limit can only be    *)
(* answered late; a round that was cancelled or interrupted is never       *)
(* answered. A verdict is acknowledged only when it is the round's verdict.*)
(***************************************************************************)
EXTENDS Sequences

CONSTANTS Verdicts, NoVerdict

VARIABLES rounds,  \* the rounds' states, in the order they were started
          acked    \* acknowledged verdicts, as <<round, verdict>>

Waiting == [status |-> "WAITING", verdict |-> NoVerdict]
Answered(status, v) == [status |-> status, verdict |-> v]
Void == {[status |-> s, verdict |-> NoVerdict] : s \in {"CANCELLED", "INTERRUPTED"}}

Init == rounds = <<>> /\ acked = {}

Start(state) ==
    /\ \A r \in DOMAIN rounds : rounds[r] # Waiting
    /\ rounds' = Append(rounds, state)
    /\ UNCHANGED acked

Becomes(r, state) == rounds' = [rounds EXCEPT ![r] = state]

(* An answer may be acknowledged at once, or later, or never.              *)
Answer(r, v) ==
    /\ \/ rounds[r] = Waiting /\ \E s \in {"RECEIVED", "LATE"} : Becomes(r, Answered(s, v))
       \/ rounds[r].status = "TIMEOUT" /\ Becomes(r, Answered("LATE", v))
    /\ acked' \in {acked, acked \cup {<<r, v>>}}

Expire(r) ==
    /\ rounds[r] = Waiting
    /\ Becomes(r, [Waiting EXCEPT !.status = "TIMEOUT"])
    /\ UNCHANGED acked

Cancel(r) ==
    /\ rounds[r] = Waiting
    /\ \E state \in Void : Becomes(r, state)
    /\ UNCHANGED acked

Acknowledge(r, v) ==
    /\ rounds[r].verdict = v
    /\ acked' = acked \cup {<<r, v>>}
    /\ UNCHANGED rounds

Next ==
    \/ \E state \in {Waiting} \cup Void : Start(state)
    \/ \E r \in DOMAIN rounds :
          \/ Expire(r) \/ Cancel(r)
          \/ \E v \in Verdicts : Answer(r, v) \/ Acknowledge(r, v)

Spec == Init /\ [][Next]_<<rounds, acked>>

=============================================================================
