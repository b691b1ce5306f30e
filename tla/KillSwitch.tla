----------------------------- MODULE KillSwitch -----------------------------
(***************************************************************************)
(* The persistent kill switch shared by the paper account and by cTrader   *)
(* demo execution, and the restart policy both of them apply to it.        *)
(* A switch is persisted as the pair (stopped, kill_switch_reason).  Only  *)
(* the reasons that the program tells apart are kept: a reason typed by an *)
(* operator is "operator", whatever its text.                              *)
(***************************************************************************)
LOCAL INSTANCE Integers

\* Reasons under which a switch may be stopped.
StopReasons ==
    {"missing_state", "corrupt_state", "operator", "risk_limit",
     "missing_credentials", "recovery_failed", "reconciliation_failed",
     "startup_reconciliation_failed", "broker_execution_failed",
     "transport_failure", "order_outcome_unknown",
     "broker_identity_collision", "max_consecutive_failures"}

\* Reasons left by the two kinds of start: an operator's, and the one an
\* unattended restart is allowed.
StartReasons == {"explicit_start", "unattended_start"}

Reasons == StopReasons \cup StartReasons

Switches == [stopped : BOOLEAN, reason : Reasons]

\* The allowlist: the only stop an unattended restart may clear.
KILL_SWITCH_AUTO_RESUME == {"missing_state"}

\* A state nobody has ever started or stopped.
FreshSwitch == [stopped |-> TRUE, reason |-> "missing_state"]

\* A plausible bug: a denylist of the operator's reason instead of the allowlist.
MutantDenylistPolicy(switch) ==
    IF ~switch.stopped THEN "running"
    ELSE IF switch.reason # "operator" THEN "resume"
    ELSE "refuse"

\* What an unattended restart may do with a persisted switch.
RestartPolicy(switch) ==
    IF ~switch.stopped THEN "running"
    ELSE IF switch.reason \in KILL_SWITCH_AUTO_RESUME THEN "resume"
    ELSE "refuse"
=============================================================================
