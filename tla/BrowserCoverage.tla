--------------------------- MODULE BrowserCoverage ---------------------------
(* Policy publication and destination coverage of the browser extension         *)
(* (src/sensors/browser-extension/background.js, lib/destination-coverage.js).  *)
(* A destination of the policy that the manifest does not cover is protected by *)
(* a content script, where the user granted the permission, and blocked where   *)
(* not.  Rules, script and stored bundle outlive the service worker, which the  *)
(* browser may stop at any await; mutations of them run one after the other.    *)
EXTENDS Integers, FiniteSets

CONSTANTS
    Dest,          \* custom destinations
    LastBundle,    \* bound: bundles 1..LastBundle are issued, 0 is the built-in policy
    MaxRevocations \* bound: how often the user takes a permission back

ASSUME CoverageAssumption == LastBundle \in Nat /\ MaxRevocations \in Nat

VARIABLES
    named,      \* the destinations each bundle names
    stored,     \* chrome.storage.local: policyBundle
    expired,    \* the stored bundle is past its expiresAt
    blockRules, \* destinations with a dynamic blocking rule
    registered, \* matches of the dynamic content script
    permitted,  \* host permissions the user granted
    bare,       \* destinations open in a tab without the content script
    coverageJob, \* the serialized mutation the worker is in
    unread,     \* ghost: permissions taken back that no sync has read since
    revocations \* ghost: what MaxRevocations counts

coverageVars == <<named, stored, expired, blockRules, registered, permitted, bare,
                  coverageJob, unread, revocations>>

IssuedBundle == 1..LastBundle

Steps == {"block", "eject", "store", "confirm", "block_all", "permissions", "eject_new",
          "script", "final", "eject_final", "eject_all"}

NoJob == [step |-> "none"]

\* A mutation: the bundle it publishes or syncs with, what it covers, and the
\* permissions it has read.
Job == [step : Steps, bundle : 0..LastBundle, items : SUBSET Dest, granted : SUBSET Dest]

CoverageTypes ==
    /\ named \in [0..LastBundle -> SUBSET Dest]
    /\ stored \in 0..LastBundle /\ expired \in BOOLEAN
    /\ blockRules \subseteq Dest /\ registered \subseteq Dest /\ permitted \subseteq Dest
    /\ bare \subseteq Dest /\ unread \subseteq Dest
    /\ coverageJob \in Job \cup {NoJob}
    /\ revocations \in 0..MaxRevocations

CoverageInit ==
    /\ named \in [0..LastBundle -> SUBSET Dest] /\ named[0] = {}
    /\ stored = 0 /\ expired = FALSE
    /\ blockRules = {} /\ registered = {} /\ permitted = {} /\ bare = {}
    /\ coverageJob = NoJob /\ unread = {} /\ revocations = 0

------------------------------------------------------------------------------

Guarded(d) == d \in blockRules \/ (d \in registered /\ d \in permitted)

\* uncoveredCoverageItems, of which `read' are the permissions it could read.
Uncovered(items, read) == items \ (registered \cap read)

JobAt(step) == coverageJob # NoJob /\ coverageJob.step = step

JobGoesTo(step) == coverageJob' = [coverageJob EXCEPT !.step = step]

Syncs(b) == [step |-> "block_all", bundle |-> b, items |-> named[b], granted |-> {}]

\* replaceDestinationBlocks removes the rules it owns and adds others at once.
Blocks(items) == blockRules' = items

\* ejectUncoveredTabs
Ejects(items) == bare' = bare \ items

------------------------------------------------------------------------------
(* publishPolicyWithCoverage *)

\* Mutant: only what the next policy names is blocked meanwhile.
Conservative_NextOnly(b) == named[b]

\* conservativeCoverageItems of the stored policy, expired or not, and the next one.
Conservative(b) == named[stored] \cup named[b]

\* policySequence: a bundle that is older than the stored one is dropped.
PublishBegins(b) ==
    /\ coverageJob = NoJob /\ b >= stored
    /\ coverageJob' = [step |-> "block", bundle |-> b, items |-> Conservative(b), granted |-> {}]
    /\ UNCHANGED <<named, stored, expired, blockRules, registered, permitted, bare,
                   unread, revocations>>

PublishBlocks ==
    /\ JobAt("block")
    /\ Blocks(coverageJob.items) /\ JobGoesTo("eject")
    /\ UNCHANGED <<named, stored, expired, registered, permitted, bare, unread,
                   revocations>>

PublishEjects ==
    /\ JobAt("eject")
    /\ \E read \in SUBSET permitted : Ejects(Uncovered(coverageJob.items, read))
    /\ JobGoesTo("store")
    /\ UNCHANGED <<named, stored, expired, blockRules, registered, permitted, unread,
                   revocations>>

PublishStores ==
    /\ JobAt("store")
    /\ stored' = coverageJob.bundle /\ JobGoesTo("confirm")
    /\ \E e \in BOOLEAN : expired' = (e /\ coverageJob.bundle # 0)
    /\ UNCHANGED <<named, blockRules, registered, permitted, bare, unread, revocations>>

\* What was stored is read back and verified; policyPublicationFailure when it expired.
PublishConfirms ==
    /\ JobAt("confirm")
    /\ coverageJob' = IF expired THEN NoJob ELSE Syncs(coverageJob.bundle)
    /\ UNCHANGED <<named, stored, expired, blockRules, registered, permitted, bare,
                   unread, revocations>>

------------------------------------------------------------------------------
(* syncDestinationCoverageLocked *)

\* cfg: without a fresh bundle the built-in policy, which names no destination.
CurrentPolicy == IF expired THEN 0 ELSE stored

\* syncCurrentDestinationCoverage, after a change of permissions or of the stored
\* policy, for the hourly heartbeat and for messages of the extension's pages.
SyncBegins ==
    /\ coverageJob = NoJob
    /\ coverageJob' = Syncs(CurrentPolicy)
    /\ UNCHANGED <<named, stored, expired, blockRules, registered, permitted, bare,
                   unread, revocations>>

SyncBlocksAll ==
    /\ JobAt("block_all")
    /\ Blocks(coverageJob.items) /\ JobGoesTo("permissions")
    /\ UNCHANGED <<named, stored, expired, registered, permitted, bare, unread,
                   revocations>>

\* grantedDestinationItems; a permission that cannot be read counts as missing.
SyncReadsPermissions ==
    /\ JobAt("permissions")
    /\ \E read \in SUBSET permitted :
          coverageJob' = [coverageJob EXCEPT !.step = "eject_new", !.granted = coverageJob.items \cap read]
    /\ unread' = unread \ coverageJob.items
    /\ UNCHANGED <<named, stored, expired, blockRules, registered, permitted, bare,
                   revocations>>

\* Tabs opened before the script matched them run without it.
EjectedBefore(granted) == granted \ registered

SyncEjectsNew ==
    /\ JobAt("eject_new")
    /\ Ejects(EjectedBefore(coverageJob.granted)) /\ JobGoesTo("script")
    /\ UNCHANGED <<named, stored, expired, blockRules, registered, permitted, unread,
                   revocations>>

\* setDynamicDestinationScript
SyncSetsScript ==
    /\ JobAt("script")
    /\ registered' = coverageJob.granted /\ JobGoesTo("final")
    /\ UNCHANGED <<named, stored, expired, blockRules, permitted, bare, unread,
                   revocations>>

SyncUnblocks ==
    /\ JobAt("final")
    /\ Blocks(coverageJob.items \ coverageJob.granted) /\ JobGoesTo("eject_final")
    /\ UNCHANGED <<named, stored, expired, registered, permitted, bare, unread,
                   revocations>>

SyncEnds ==
    /\ JobAt("eject_final")
    /\ Ejects(coverageJob.items \ coverageJob.granted) /\ coverageJob' = NoJob
    /\ UNCHANGED <<named, stored, expired, blockRules, registered, permitted, unread,
                   revocations>>

\* Ejection, registration or the final rules fail: every tab of the policy goes.
SyncFails ==
    /\ JobAt("eject_new") \/ JobAt("script") \/ JobAt("final")
    /\ JobGoesTo("eject_all")
    /\ UNCHANGED <<named, stored, expired, blockRules, registered, permitted, bare,
                   unread, revocations>>

SyncEjectsAll ==
    /\ JobAt("eject_all")
    /\ Ejects(coverageJob.items) /\ coverageJob' = NoJob
    /\ UNCHANGED <<named, stored, expired, blockRules, registered, permitted, unread,
                   revocations>>

\* The worker is stopped, or another call rejects: what is done so far remains.
JobIsLost ==
    /\ coverageJob # NoJob /\ coverageJob' = NoJob
    /\ UNCHANGED <<named, stored, expired, blockRules, registered, permitted, bare,
                   unread, revocations>>

------------------------------------------------------------------------------
(* The browser, its user and time *)

BundleExpires ==
    /\ stored # 0 /\ ~expired /\ expired' = TRUE
    /\ UNCHANGED <<named, stored, blockRules, registered, permitted, bare, coverageJob,
                   unread, revocations>>

Grant(d) ==
    /\ d \notin permitted /\ permitted' = permitted \cup {d}
    /\ UNCHANGED <<named, stored, expired, blockRules, registered, bare, coverageJob,
                   unread, revocations>>

Revoke(d) ==
    /\ d \in permitted /\ revocations < MaxRevocations
    /\ permitted' = permitted \ {d}
    /\ unread' = unread \cup {d}
    /\ revocations' = revocations + 1
    /\ UNCHANGED <<named, stored, expired, blockRules, registered, bare, coverageJob>>

\* A page is loaded unless a rule blocks it, with the script where it matches.
Visit(d) ==
    /\ d \notin blockRules
    /\ bare' = IF d \in registered \cap permitted THEN bare ELSE bare \cup {d}
    /\ UNCHANGED <<named, stored, expired, blockRules, registered, permitted, coverageJob,
                   unread, revocations>>

CoverageNext ==
    \/ PublishBlocks \/ PublishEjects \/ PublishStores \/ PublishConfirms
    \/ SyncBegins \/ SyncBlocksAll \/ SyncReadsPermissions \/ SyncEjectsNew
    \/ SyncSetsScript \/ SyncUnblocks \/ SyncEnds \/ SyncFails \/ SyncEjectsAll
    \/ JobIsLost \/ BundleExpires
    \/ \E b \in IssuedBundle : PublishBegins(b)
    \/ \E d \in Dest : Grant(d) \/ Revoke(d) \/ Visit(d)

CoverageSpec == CoverageInit /\ [][CoverageNext]_coverageVars

------------------------------------------------------------------------------
(* Properties *)

\* While the stored policy is trusted, each destination it names is blocked or runs
\* the content script, and until a permission is taken back no tab shows it without
\* the script: whatever await the worker dies at, whichever call fails, and however
\* policies, permissions and visits follow one another.  A permission taken back
\* counts from the next sync that reads it (publishPolicyWithCoverage,
\* syncDestinationCoverageLocked).
GovernedIsGuarded ==
    ~expired => \A d \in named[stored] :
        /\ d \in unread \/ Guarded(d)
        /\ revocations = 0 => d \notin bare

\* The same once no fresh bundle is left ("no fresh verified current/LKG policy
\* fails closed before browser [...] egress").
GuardedAfterExpiry ==
    \A d \in named[stored] : d \in unread \/ Guarded(d)
=============================================================================
