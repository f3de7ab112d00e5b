--------------------------- MODULE VersionNegotiation ---------------------------
(***************************************************************************)
(* The version handshake of a fleet of contracts that are deployed and     *)
(* upgraded one at a time, each a step along one train of releases.        *)
(*                                                                         *)
(* A coordinator that wants to upgrade a contract asks every other one for *)
(* its get_version_negotiation_info, a call each, and then runs            *)
(* negotiate_contract_versions over what it has collected: a loop over the *)
(* peers, one step per peer here, that starts from Compatible and only     *)
(* ever gets worse.  Anything but Incompatible lets the upgrade through.   *)
(* Meanwhile the contracts go on living: an upgraded one is migrated, and  *)
(* any of them may be paused, between two answers or after the last.       *)
(***************************************************************************)
EXTENDS Naturals, Sequences, FiniteSets

CONSTANTS
  Contracts,
  NoContract,
  Train,              \* the releases, oldest first: a sequence of records
  HubOf,              \* whose view decides on an upgrade of each contract
  Pausable            \* bound: the contracts somebody pauses

ASSUME TrainAssumption ==
  /\ NoContract \notin Contracts
  /\ HubOf \in [Contracts -> Contracts]
  /\ Pausable \subseteq Contracts
  /\ Train \in Seq([protocol : Nat, min_compatible : Nat, storage : Nat, schema : Nat, event : Nat])
  /\ Train # << >>

VARIABLES
  release,            \* the binary each contract runs, a place in Train
  stored,             \* the storage version each contract is stamped with
  paused,
  handshake           \* the coordinator's

fleetVars == << release, stored, paused >>
negotiationVars == << fleetVars, handshake >>

Places == 1 .. Len(Train)

-----------------------------------------------------------------------------
(* The rules *)

\* What a contract running the release at place k answers.
BuildNegotiationInfo(c, k) ==
  [contract_name |-> c, protocol |-> Train[k].protocol, min_compatible |-> Train[k].min_compatible,
   storage |-> stored[c], schema |-> Train[k].schema, event |-> Train[k].event,
   is_paused |-> paused[c], needs_migration |-> stored[c] # Train[k].storage]

Info(c) == BuildNegotiationInfo(c, release[c])

Mismatch(who, reported, required, dimension) ==
  [contract_name |-> who, reported |-> reported, required_min |-> required, dimension |-> dimension]

When(condition, detail) == IF condition THEN << detail >> ELSE << >>

\* Mutant: only the peer is held against our bound.
MismatchesOneWay(our, peer) ==
     When(peer.protocol < our.min_compatible,
          Mismatch(peer.contract_name, peer.protocol, our.min_compatible, "protocol"))
  \o When(peer.storage # our.storage, Mismatch(peer.contract_name, peer.storage, our.storage, "storage"))
  \o When(peer.schema # our.schema, Mismatch(peer.contract_name, peer.schema, our.schema, "result_schema"))
  \o When(peer.event # our.event, Mismatch(peer.contract_name, 0, 0, "event"))

\* Mutant: the peer is blamed for our being behind.
MismatchesBlamingPeer(our, peer) ==
     When(peer.protocol < our.min_compatible \/ our.protocol < peer.min_compatible,
          Mismatch(peer.contract_name, peer.protocol, our.min_compatible, "protocol"))
  \o When(peer.storage # our.storage, Mismatch(peer.contract_name, peer.storage, our.storage, "storage"))
  \o When(peer.schema # our.schema, Mismatch(peer.contract_name, peer.schema, our.schema, "result_schema"))
  \o When(peer.event # our.event, Mismatch(peer.contract_name, 0, 0, "event"))

\* One pass of the loop's body: each test that fails adds a detail.
Mismatches(our, peer) ==
     When(peer.protocol < our.min_compatible,
          Mismatch(peer.contract_name, peer.protocol, our.min_compatible, "protocol"))
  \o When(our.protocol < peer.min_compatible,
          Mismatch(our.contract_name, our.protocol, peer.min_compatible, "protocol"))
  \o When(peer.storage # our.storage, Mismatch(peer.contract_name, peer.storage, our.storage, "storage"))
  \o When(peer.schema # our.schema, Mismatch(peer.contract_name, peer.schema, our.schema, "result_schema"))
  \o When(peer.event # our.event, Mismatch(peer.contract_name, 0, 0, "event"))

\* Mutant: the last peer's verdict stands.
DowngradeForgetful(outcome, our, peer) ==
  IF Mismatches(our, peer) # << >> THEN "Incompatible"
  ELSE IF peer.protocol # our.protocol THEN "Negotiated"
  ELSE "Compatible"

\* Mutant: a protocol that differs is not negotiable.
DowngradeStrict(outcome, our, peer) ==
  IF Mismatches(our, peer) # << >> \/ peer.protocol # our.protocol THEN "Incompatible" ELSE outcome

\* What one peer does to the outcome.
Downgrade(outcome, our, peer) ==
  IF Mismatches(our, peer) # << >> THEN "Incompatible"
  ELSE IF outcome = "Compatible" /\ peer.protocol # our.protocol THEN "Negotiated"
  ELSE outcome

\* outcome[i] is what negotiate_contract_versions holds after the first i peers.
VerdictLoop(our, peers) ==
  LET outcome[i \in 0 .. Len(peers)] ==
        IF i = 0 THEN "Compatible" ELSE Downgrade(outcome[i - 1], our, peers[i])
  IN  outcome

\* The handshake in one go, over all the peers in one order.
Verdict(our, peers) == VerdictLoop(our, peers)[Len(peers)]

-----------------------------------------------------------------------------
(* The handshake *)

Idle == [candidate |-> NoContract, target |-> 0, our |-> << >>, peers |-> << >>, checked |-> 0,
         outcome |-> "Compatible", mismatches |-> << >>]

Negotiating == handshake.candidate # NoContract

\* A contract answers for what it runs, the candidate for what it would run.
Candidacy(c) == IF c = handshake.candidate THEN BuildNegotiationInfo(c, handshake.target) ELSE Info(c)

Collected == { handshake.peers[i].contract_name : i \in 1 .. Len(handshake.peers) }
Outstanding == (Contracts \ {handshake.our.contract_name}) \ Collected

\* Somebody wants c to run another release, a later one or, to roll it back, an
\* earlier one.
Propose(c, k) ==
  /\ ~Negotiating
  /\ k \in Places \ {release[c]}
  /\ handshake' = [Idle EXCEPT !.candidate = c, !.target = k,
                               !.our = BuildNegotiationInfo(HubOf[c], IF HubOf[c] = c THEN k ELSE release[HubOf[c]])]
  /\ UNCHANGED fleetVars

\* One peer answers; nothing says in which order they are asked.
Collect(c) ==
  /\ Negotiating
  /\ c \in Outstanding
  /\ handshake' = [handshake EXCEPT !.peers = Append(@, Candidacy(c))]
  /\ UNCHANGED fleetVars

\* negotiate_contract_versions, one peer.
CheckPeer ==
  /\ Negotiating
  /\ Outstanding = {}
  /\ handshake.checked < Len(handshake.peers)
  /\ LET our  == handshake.our
         peer == handshake.peers[handshake.checked + 1]
     IN  handshake' = [handshake EXCEPT !.checked    = @ + 1,
                                        !.mismatches = @ \o Mismatches(our, peer),
                                        !.outcome    = Downgrade(@, our, peer)]
  /\ UNCHANGED fleetVars

Concluded == Negotiating /\ Outstanding = {} /\ handshake.checked = Len(handshake.peers)

Deploy ==
  /\ Concluded
  /\ handshake.outcome # "Incompatible"
  /\ release' = [release EXCEPT ![handshake.candidate] = handshake.target]
  /\ handshake' = Idle
  /\ UNCHANGED << stored, paused >>

Block ==
  /\ Concluded
  /\ handshake.outcome = "Incompatible"
  /\ handshake' = Idle
  /\ UNCHANGED fleetVars

-----------------------------------------------------------------------------
(* The contracts *)

Migrate(c) ==
  /\ stored[c] < Train[release[c]].storage
  /\ stored' = [stored EXCEPT ![c] = Train[release[c]].storage]
  /\ UNCHANGED << release, paused, handshake >>

SetPaused(c, flag) ==
  /\ paused[c] # flag
  /\ paused' = [paused EXCEPT ![c] = flag]
  /\ UNCHANGED << release, stored, handshake >>

NegotiationInit ==
  /\ release = [c \in Contracts |-> 1]
  /\ stored = [c \in Contracts |-> Train[1].storage]
  /\ paused = [c \in Contracts |-> FALSE]
  /\ handshake = Idle

\* One more answer, one more turn of the loop, or the decision.
HandshakeStep == (\E c \in Contracts : Collect(c)) \/ CheckPeer \/ Deploy \/ Block

NegotiationNext ==
  \/ \E c \in Contracts, k \in Places : Propose(c, k)
  \/ HandshakeStep
  \/ \E c \in Contracts : Migrate(c)
  \/ \E c \in Pausable, flag \in BOOLEAN : SetPaused(c, flag)

-----------------------------------------------------------------------------
(* Properties *)

Infos == [contract_name : Contracts, protocol : Nat, min_compatible : Nat, storage : Nat,
          schema : Nat, event : Nat, is_paused : BOOLEAN, needs_migration : BOOLEAN]

Outcomes == { "Compatible", "Negotiated", "Incompatible" }

NegotiationTypeOK ==
  /\ release \in [Contracts -> Places]
  /\ stored \in [Contracts -> Nat]
  /\ paused \in [Contracts -> BOOLEAN]
  /\ handshake.candidate \in Contracts \cup {NoContract}
  /\ handshake.peers \in Seq(Infos)
  /\ handshake.checked \in 0 .. Len(handshake.peers)
  /\ handshake.outcome \in Outcomes
  /\ Negotiating => handshake.target \in Places /\ handshake.our \in Infos

\* Two contracts can talk: each is recent enough for the other, and they agree
\* on the layouts of storage, results and events.
Interoperable(a, b) ==
  /\ a.protocol >= b.min_compatible /\ b.protocol >= a.min_compatible
  /\ a.storage = b.storage /\ a.schema = b.schema /\ a.event = b.event

Seen == { handshake.peers[i] : i \in 1 .. handshake.checked }

\* A detail blames the contract that is behind: what it reports is what that
\* contract answered, and the bound it misses is the other side's.
BlamesTheRightOne ==
  \A i \in 1 .. Len(handshake.mismatches) :
    LET detail == handshake.mismatches[i]
        our    == handshake.our
    IN  \E peer \in Seen :
          CASE detail.dimension = "protocol" ->
                 /\ detail.reported < detail.required_min
                 /\ \/ detail.contract_name = peer.contract_name /\ detail.reported = peer.protocol
                       /\ detail.required_min = our.min_compatible
                    \/ detail.contract_name = our.contract_name /\ detail.reported = our.protocol
                       /\ detail.required_min = peer.min_compatible
            [] detail.dimension = "storage" -> detail.contract_name = peer.contract_name /\ peer.storage # our.storage
            [] detail.dimension = "result_schema" -> detail.contract_name = peer.contract_name /\ peer.schema # our.schema
            [] detail.dimension = "event" -> detail.contract_name = peer.contract_name /\ peer.event # our.event

\* negotiate_contract_versions means what its rules say, at every turn of the
\* loop and whatever the order of the peers, their pauses and their pending
\* migrations: it fails exactly when some peer cannot talk to us, it says
\* Compatible exactly when all of them also speak our protocol version, and
\* there is a detail exactly when it fails, one that blames the right contract.
VerdictExact ==
  Negotiating =>
    /\ handshake.outcome = "Incompatible" <=> \E peer \in Seen : ~Interoperable(handshake.our, peer)
    /\ handshake.outcome = "Compatible" <=>
         \A peer \in Seen : Interoperable(handshake.our, peer) /\ peer.protocol = handshake.our.protocol
    /\ handshake.mismatches # << >> <=> handshake.outcome = "Incompatible"
    /\ BlamesTheRightOne

\* Any two deployed contracts speak protocols the other accepts and agree on
\* results and events, after any sequence of single upgrades each of which one
\* handshake let through.  Storage stamps are left out: a contract reports the
\* stamp it has, and a migration moves it after the handshake.
FleetInterops ==
  \A c, d \in Contracts :
    LET a == Train[release[c]]
        b == Train[release[d]]
    IN  a.protocol >= b.min_compatible /\ a.schema = b.schema /\ a.event = b.event

\* No contract is migrated to a storage version another's binary does not know.
MigratesTogether == \A c, d \in Contracts : stored[c] <= Train[release[d]].storage

RollsForward == \A c \in Contracts : release'[c] >= release[c]

\* The releases before the first that changes the layout of results or events.
Additive == { k \in Places : \A j \in 1 .. k : Train[j].schema = Train[1].schema /\ Train[j].event = Train[1].event }

\* A rollout of releases that introduce a protocol, let it coexist and only then
\* raise the minimum gets every contract through them once nothing is rolled back
\* any more, unless one is migrated ahead of another's binary: after that the
\* exact match on storage fails every handshake.
RolloutCompletes ==
  []MigratesTogether /\ <>[][RollsForward]_release
    => <>(\A c \in Contracts, k \in Additive : release[c] >= k)

=============================================================================
