---------------------------- MODULE MCDurability ----------------------------
(* What must survive failures, each part explored from its own initial states:  *)
(* the audit log on SQLite, the Postgres bridge, a published set of artifacts,  *)
(* a checkout that updates itself, the native handoff of an endpoint, the       *)
(* policy cache of its sensors, and the coverage of a browser.  They share no   *)
(* state; `component' names the one a behaviour moves.                          *)
EXTENDS AuditAnchor, PgBridge, NativeHandoff, ArtifactPublication, Updater, SignedPolicy,
        BrowserCoverage, TLC

CONSTANTS p1, p2, b1, b2, event

VARIABLE component

\* Two event files hold one event.
TwoCopies == [f \in {b1, b2} |-> event]

\* Processes are alike, and so are files.
Alike == Permutations({p1, p2}) \cup Permutations({b1, b2})

DurabilityInit ==
    /\ component \in {"anchor", "bridge", "handoff", "publication", "updater", "cache",
                     "coverage"}
    /\ Init /\ PgBridgeInit /\ HandoffInit /\ PublicationInit /\ UpdaterInit
    /\ PolicyCacheInit /\ CoverageInit
    /\ component # "publication" => ~force
    /\ component # "cache" => cache = NoBundle
    /\ component # "coverage" => \A b \in DOMAIN named : named[b] = {}

Only(c) == component = c /\ UNCHANGED component

DurabilityNext ==
    \/ Only("anchor") /\ Next
       /\ UNCHANGED <<bridgeVars, handoffVars, publicationVars, updaterVars,
                       policyVars, coverageVars>>
    \/ Only("bridge") /\ PgBridgeNext
       /\ UNCHANGED <<vars, handoffVars, publicationVars, updaterVars,
                       policyVars, coverageVars>>
    \/ Only("handoff") /\ HandoffNext
       /\ UNCHANGED <<vars, bridgeVars, publicationVars, updaterVars,
                       policyVars, coverageVars>>
    \/ Only("publication") /\ PublicationNext
       /\ UNCHANGED <<vars, bridgeVars, handoffVars, updaterVars,
                       policyVars, coverageVars>>
    \/ Only("updater") /\ UpdaterNext
       /\ UNCHANGED <<vars, bridgeVars, handoffVars, publicationVars,
                       policyVars, coverageVars>>
    \/ Only("cache") /\ PolicyCacheNext
       /\ UNCHANGED <<vars, bridgeVars, handoffVars, publicationVars,
                       updaterVars, coverageVars>>
    \/ Only("coverage") /\ CoverageNext
       /\ UNCHANGED <<vars, bridgeVars, handoffVars, publicationVars,
                       updaterVars, policyVars>>

DurabilityVars ==
    <<component, vars, bridgeVars, handoffVars, publicationVars, updaterVars, policyVars,
      coverageVars>>

DurabilitySpec == DurabilityInit /\ [][DurabilityNext]_DurabilityVars

------------------------------------------------------------------------------

\* Every component keeps its state well formed.
DurabilityTypes ==
    /\ TypeOK /\ PgBridgeTypes /\ HandoffTypes /\ PublicationTypes /\ UpdaterTypes
    /\ PolicyCacheTypes /\ CoverageTypes
=============================================================================
