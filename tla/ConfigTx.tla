------------------------------ MODULE ConfigTx ------------------------------
(***************************************************************************)
(* What a router command promises (CLI.md, section 8): the configuration   *)
(* the switch serves is the one in the state file whenever no command is   *)
(* under way; a command replaces both or neither; a restart serves what    *)
(* the file holds.  Nothing is said of how the switch is programmed.       *)
(***************************************************************************)
CONSTANTS
  Config,     \* configurations
  NoConfig    \* nothing is served: the daemon is down

VARIABLES
  store,      \* the configuration in the state file
  serving,    \* the configuration memory and switch implement
  wanted,     \* what the command under way asks for
  phase       \* "idle", "busy", "committed" or "down"

txVars == <<store, serving, wanted, phase>>

TxInit ==
  /\ store \in Config /\ serving = store /\ wanted = store
  /\ phase = "idle"

Begin ==
  /\ phase = "idle" /\ phase' = "busy"
  /\ wanted' \in Config \ {store}
  /\ UNCHANGED <<store, serving>>

\* The rename of the state file: the commit point.
Commit ==
  /\ phase = "busy" /\ phase' = "committed"
  /\ store' = wanted
  /\ UNCHANGED <<serving, wanted>>

Publish ==
  /\ phase = "committed" /\ phase' = "idle"
  /\ serving' = wanted
  /\ UNCHANGED <<store, wanted>>

Abort ==
  /\ phase = "busy" /\ phase' = "idle"
  /\ wanted' = store
  /\ UNCHANGED <<store, serving>>

Crash ==
  /\ phase # "down" /\ phase' = "down"
  /\ serving' = NoConfig /\ wanted' = store
  /\ UNCHANGED store

Recover ==
  /\ phase = "down" /\ phase' = "idle"
  /\ serving' = store
  /\ UNCHANGED <<store, wanted>>

TxNext == Begin \/ Commit \/ Publish \/ Abort \/ Crash \/ Recover

\* A command that has begun is answered, and the daemon comes back.
TxSpec ==
  /\ TxInit /\ [][TxNext]_txVars
  /\ WF_txVars(Commit \/ Abort) /\ WF_txVars(Publish) /\ WF_txVars(Recover)

=============================================================================
