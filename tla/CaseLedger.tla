------------------------------ MODULE CaseLedger ------------------------------
(***************************************************************************)
(* What the intake of external cases promises, and nothing of how: an      *)
(* event of a source is recorded at most once, a case only ever moves to a *)
(* version that is higher than its own, a cancelled case stays cancelled,  *)
(* and a working session is opened for a request of a case that has none.  *)
(* CaseIntake implements this specification.                               *)
(***************************************************************************)
EXTENDS Integers

CONSTANTS Cases, Payloads, Convs, NoConv

VARIABLES
    version,    \* version[k]: the version of case k, 0 before the first event
    cancelled,  \* cancelled[k]: case k is cancelled
    session,    \* session[k]: the conversation linked to case k
    recorded    \* the event ids that were recorded

clVars == <<version, cancelled, session, recorded>>

CLInit ==
    /\ version = [k \in Cases |-> 0]
    /\ cancelled = [k \in Cases |-> FALSE]
    /\ session = [k \in Cases |-> NoConv]
    /\ recorded = {}

\* The event is put on record and changes nothing.
Record(p) ==
    /\ p.id \notin recorded
    /\ recorded' = recorded \cup {p.id}
    /\ version[p.case] >= p.version
    /\ UNCHANGED <<version, cancelled, session>>

\* The event moves its case to a higher version.
Advance(p) ==
    /\ p.id \notin recorded
    /\ recorded' = recorded \cup {p.id}
    /\ version[p.case] < p.version
    /\ version' = [version EXCEPT ![p.case] = p.version]
    /\ \E b \in BOOLEAN :
          /\ cancelled[p.case] => b
          /\ b => cancelled[p.case] \/ p.kind = "cancelled"
          /\ cancelled' = [cancelled EXCEPT ![p.case] = b]
    /\ \/ UNCHANGED session
       \/ /\ p.kind = "requested"
          /\ ~cancelled[p.case]
          /\ session[p.case] = NoConv
          /\ \E v \in Convs :
                /\ \A k \in Cases : session[k] # v
                /\ session' = [session EXCEPT ![p.case] = v]

\* The conversation of a case is deleted.
Unlink(k) ==
    /\ session[k] # NoConv
    /\ session' = [session EXCEPT ![k] = NoConv]
    /\ UNCHANGED <<version, cancelled, recorded>>

CLNext ==
    \/ \E p \in Payloads : Record(p) \/ Advance(p)
    \/ \E k \in Cases : Unlink(k)

CLSpec == CLInit /\ [][CLNext]_clVars
===============================================================================
