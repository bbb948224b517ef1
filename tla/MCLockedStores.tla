--------------------------- MODULE MCLockedStores ---------------------------
(***************************************************************************)
(* vault_lock and the two smallest stores whose files it guards, side by   *)
(* side: they share no state, so each behaviour is one of one Part.        *)
(*   lock       three threads, two of them in one process                  *)
(*   lease      two agents that ask for less than no time or two minutes,  *)
(*              a minute of three half seconds, and a clock that outlasts  *)
(*              two leases                                                 *)
(*   telemetry  two arms of one experiment, each also a legacy row, and a  *)
(*              feedback record that is legacy or new; two processes       *)
(***************************************************************************)
EXTENDS VaultLock, TaskLease, Telemetry, TLC

CONSTANTS Parts, t1, t2, t3, p1, p2, a1, a2, c1, c2, useful

VARIABLE part

MCThread == {t1, t2, t3}
MCProcess == {p1, p2}
MCProcessOf == [t \in MCThread |-> IF t = t3 THEN p2 ELSE p1]

Ttls == {-1, 2}

Arms(mode) == [mode |-> mode, pair |-> "x", task |-> "t", tokens |-> 1, conditions |-> "c",
               evaluated |-> TRUE, legacy |-> FALSE]
Legacy(row) == [row EXCEPT !.pair = "", !.tokens = Unknown, !.legacy = TRUE]
Outcomes == {Arms("kb"), Arms("no-kb"), Legacy(Arms("kb")), Legacy(Arms("no-kb"))}
OneHome == [c \in {c1, c2} |-> 1]
TwoHomes == [c \in {c1, c2} |-> IF c = c1 THEN 1 ELSE 2]

allVars == <<vars, leaseVars, telemetryVars, part>>

MCInit ==
    /\ part \in Parts
    /\ Init /\ LeaseInit /\ TelemetryInit
    /\ part # "telemetry" => \A m \in Machine : old[m] = <<[f \in Files |-> {}], FALSE>>

MCNext ==
    \/ part = "lock" /\ Next /\ UNCHANGED <<leaseVars, telemetryVars, part>>
    \/ part = "lease" /\ LeaseNext /\ UNCHANGED <<vars, telemetryVars, part>>
    \/ part = "telemetry" /\ TelemetryNext /\ UNCHANGED <<vars, leaseVars, part>>

MCSpec == /\ MCInit /\ [][MCNext]_allVars
          /\ \A t \in Thread : WF_allVars(Step(t) /\ UNCHANGED <<leaseVars, telemetryVars, part>>)
=============================================================================
