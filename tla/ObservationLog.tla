--------------------------- MODULE ObservationLog ---------------------------
(***************************************************************************)
(* What the station receiver promises to the stations: accepted            *)
(* observations form an append-only log with at most one entry for each    *)
(* message of a station, and a message is acknowledged only when it is in  *)
(* the log, word for word. Nothing, not a crash, a closed connection or a  *)
(* failed disk, takes an entry or an acknowledgement back.                 *)
(***************************************************************************)
EXTENDS Sequences

CONSTANTS Entries,        \* what a station may report
          SameMessage(_, _) \* two entries carry the same message identity

VARIABLES log,    \* the entries, in the order they were accepted
          acked   \* the entries a station was told are saved

Entered(e) == \E i \in DOMAIN log : log[i] = e

Init == log = <<>> /\ acked = {}

Accept(e) ==
    /\ \A i \in DOMAIN log : ~SameMessage(log[i], e)
    /\ log' = Append(log, e)
    /\ UNCHANGED acked

Acknowledge(e) ==
    /\ Entered(e)
    /\ acked' = acked \cup {e}
    /\ UNCHANGED log

Next == \E e \in Entries : Accept(e) \/ Acknowledge(e)

Spec == Init /\ [][Next]_<<log, acked>>

=============================================================================
