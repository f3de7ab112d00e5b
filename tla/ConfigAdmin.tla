----------------------------- MODULE ConfigAdmin -----------------------------
(***************************************************************************)
(* The life of the configuration under an admin who may submit anything,   *)
(* and the two kinds of reader that follow it from off chain: an indexer   *)
(* that rebuilds it from its events (`told`), and a backend that keeps a   *)
(* copy and refetches it when the stamp it compares has changed            *)
(* (`backend`).  Both are history variables; no handler reads them.        *)
(***************************************************************************)
EXTENDS ConfigStore

CONSTANT MaxWrites    \* bound on the granted writes, in Observed

ASSUME MaxWritesAssumption == MaxWrites \in Nat

VARIABLES told, backend, writes

vars == << roleVars, guardVars, reply, configVars, told, backend, writes, now >>

-----------------------------------------------------------------------------
(* Events, and the indexer that rebuilds the configuration from them *)

\* Mutant: whether the severity was known is asked after it has been written.
AddOrUpdateLate(severity) == IF severity \in DOMAIN custom' THEN "sev_upd" ELSE "sev_add"

AddOrUpdate(severity) == IF severity \in DOMAIN custom THEN "sev_upd" ELSE "sev_add"

\* An addition of what is known, an update or a removal of what is not, is an
\* anomaly: the indexer has missed something.
Told(topic, severity, c) ==
  CASE topic = "cfg_upd" -> [told EXCEPT !.config[severity] = c]
    [] topic = "sev_add" -> [told EXCEPT !.custom = With(@, severity, c),
                                           !.anomaly = @ \/ severity \in DOMAIN told.custom]
    [] topic = "sev_upd" -> [told EXCEPT !.custom = With(@, severity, c),
                                           !.anomaly = @ \/ severity \notin DOMAIN told.custom]
    [] topic = "cfg_rem" -> [told EXCEPT !.custom = [s \in DOMAIN @ \ {severity} |-> @[s]],
                                           !.anomaly = @ \/ severity \notin DOMAIN told.custom]

\* What the readers make of a call that publishes `event` when it is granted.
Observed(event) ==
  /\ IF Granted
     THEN writes < MaxWrites /\ writes' = writes + 1 /\ told' = event
     ELSE UNCHANGED << writes, told >>
  /\ UNCHANGED backend

Configure(caller, severity, c) ==
  \/ SetConfig(caller, severity, c) /\ Observed(Told("cfg_upd", severity, c))
  \/ SetCustomSeverity(caller, severity, c) /\ Observed(Told(AddOrUpdate(severity), severity, c))

Remove(caller, severity) == RemoveCustomSeverity(caller, severity) /\ Observed(Told("cfg_rem", severity, << >>))

\* pause, unpause, freeze_config and unfreeze_config, as the configuration
\* sees them; Governance has their whole handlers.
Guard(caller) ==
  /\ Answer("guard", caller, CheckVersion ?? RequireAdmin(caller))
  /\ \/ ~Granted /\ UNCHANGED << roleVars, guardVars >>
     \/ /\ Granted
        /\ \/ ~paused /\ SetPaused
           \/ paused /\ ClearPaused
           \/ ~frozen /\ SetFrozen
           \/ frozen /\ ClearFrozen
  /\ UNCHANGED << configVars, told, writes, backend >>

\* A backend reads a ledger that has closed, never the middle of one.
NewLedger ==
  /\ CloseLedger
  /\ backend' \in { backend, [update |-> lastUpdate, config |-> config] }
  /\ UNCHANGED << roleVars, guardVars, reply, configVars, told, writes >>

Init ==
  /\ ConfigInit
  /\ \E theAdmin, theOperator \in Addresses :
       theAdmin # theOperator /\ Initialized(theAdmin, theOperator)
  /\ told = [config |-> DefaultConfig, custom |-> NoCustom, anomaly |-> FALSE]
  /\ backend = [update |-> NoUpdate, config |-> DefaultConfig]
  /\ writes = 0
  /\ now = 0

Next ==
  \/ \E caller \in Addresses :
       \/ \E severity \in Canonical \cup Custom, c \in ConfigInputs :
            Configure(caller, severity, c)
       \/ \E severity \in Canonical \cup Custom : Remove(caller, severity)
       \/ Guard(caller)
  \/ NewLedger

Spec == Init /\ [][Next]_vars

-----------------------------------------------------------------------------
(* Properties *)

\* What an admin reads back from any tier can be submitted again unchanged:
\* the checks of the four tiers are symmetrical, so no update of one tier makes
\* another's own configuration illegal.  The one exception is the documented
\* low-severity exemption, which blocks medium while low's penalty exceeds it.
ReadsBackValid ==
  \A severity \in Canonical :
    \/ AcceptsConfig(severity, config[severity]) = Ok
    \/ severity = "medium" /\ config["low"].penalty > config["medium"].penalty

\* The events of set_config, set_custom_severity and remove_custom_severity
\* rebuild the configuration from the defaults, and each severity's life reads
\* add, update ..., remove.
StreamTellsConfig == told = [config |-> config, custom |-> custom, anomaly |-> FALSE]

\* The rule of config_metadata.rs is enough: a backend that refetches when the
\* stamp differs from its own never keeps an outdated canonical configuration,
\* several updates in one ledger included.
StaleCacheShows == config # backend.config => lastUpdate # backend.update

\* When the version hash in force has a registered snapshot, it is the
\* configuration in force, even after a removal moves the hash back to a value
\* registered earlier under another ladder; and from the first write on, the
\* ladder in force can be recovered from the registry, as record_config_registry
\* promises: a snapshot taken before the values are stored would miss it.
RegistryTellsTruth ==
  /\ ConfigVersionHash \in DOMAIN registry => registry[ConfigVersionHash] = config
  /\ lastUpdate # NoUpdate => \E hash \in DOMAIN registry : registry[hash] = config

=============================================================================
