---------------------------- MODULE SignedPolicy ----------------------------
(* The last-known-good cache of signed policy bundles that the sensors of one   *)
(* machine share (src/sensors/shared/signed-policy.js; fetchPolicy of the       *)
(* endpoint agent, the MCP guard and the protected-upload collector).  A sensor *)
(* takes what the control plane, or somebody who replays it, sends when it is   *)
(* verified, fresh and not older than the cache and what it took itself; the    *)
(* cache is replaced under file locks, which are taken to exclude, by a         *)
(* publication that moves the old file aside before it links the new one; who   *)
(* falls back on the cache reads it without a lock.                             *)
EXTENDS Integers

CONSTANTS
    Sensor,   \* sensor processes with one cache path
    LastTime, \* bound: how long the clock runs
    NoBundle, \* no file, nothing in memory
    Unverified \* a cache that cannot be read, or that the pinned key does not verify

ASSUME PolicyCacheAssumption == LastTime \in Nat

\* A bundle stands for its signature: two bundles of one issuedAt may differ.
SignedBundle ==
    {b \in [issued : 0..LastTime, expires : 1..LastTime + 1] : b.issued < b.expires}

ASSUME NotBundles ==
    NoBundle \notin SignedBundle /\ Unverified \notin SignedBundle /\ NoBundle # Unverified

VARIABLES
    time,
    cache,       \* the file at the cache path
    publication, \* the publication under the cache's locks
    highWater,   \* runtimeHighWater of each process
    inUse,       \* the policy each sensor enforces, NoBundle when it trusts none
    mark,        \* ghost: the bundle a sensor took last
    torn,        \* ghost: a publication stopped with the cache moved aside
    undone       \* ghost: a publication was rolled back after a sensor took its bundle

policyVars == <<time, cache, publication, highWater, inUse, mark, torn, undone>>

Publication ==
    [sensor : Sensor, bundle : SignedBundle, prior : SignedBundle \cup {NoBundle},
     step : {"aside", "link", "unlink", "confirm"}]

NoPublication == [step |-> "none"]

PolicyCacheTypes ==
    /\ time \in 0..LastTime
    /\ cache \in SignedBundle \cup {NoBundle, Unverified}
    /\ publication \in Publication \cup {NoPublication}
    /\ highWater \in [Sensor -> SignedBundle \cup {NoBundle}]
    /\ inUse \in [Sensor -> SignedBundle \cup {NoBundle}]
    /\ mark \in SignedBundle \cup {NoBundle}
    /\ torn \in BOOLEAN /\ undone \in BOOLEAN

PolicyCacheInit ==
    /\ time = 0
    /\ cache \in {NoBundle, Unverified}
    /\ publication = NoPublication
    /\ highWater = [s \in Sensor |-> NoBundle]
    /\ inUse = [s \in Sensor |-> NoBundle]
    /\ mark = NoBundle /\ torn = FALSE /\ undone = FALSE

------------------------------------------------------------------------------

Fresh(b) == b.expires > time

\* sequenceCheck: not older, and no other bundle of the same time.
Succeeds(b, previous) ==
    previous # NoBundle => previous.issued < b.issued \/ previous = b

\* Mutant: an expired cache does not count.
CachedHighWater_Fresh ==
    IF cache \in SignedBundle /\ ~Fresh(cache) THEN NoBundle ELSE cache

\* cachedHighWater, which an expired bundle still is.
CachedHighWater == cache

Publishes(s) == publication # NoPublication /\ publication.sensor = s

PublicationAt(s, step) == Publishes(s) /\ publication.step = step

\* The process takes b: runtimeHighWater, and what it enforces from now on.
Takes(s, b) ==
    /\ highWater' = [highWater EXCEPT ![s] = b]
    /\ inUse' = [inUse EXCEPT ![s] = b]

\* acceptSignedPolicyBundle, up to what it does under the locks; a sensor whose
\* bundle is refused falls back on the cache.
Accept(s, b) ==
    /\ publication = NoPublication
    /\ b.issued <= time /\ Fresh(b)
    /\ Succeeds(b, highWater[s])
    /\ CachedHighWater # Unverified /\ Succeeds(b, CachedHighWater)
    /\ IF cache = b
       THEN Takes(s, b) /\ mark' = b /\ UNCHANGED publication
       ELSE /\ publication' = [sensor |-> s, bundle |-> b, prior |-> cache,
                               step |-> IF cache = NoBundle THEN "link" ELSE "aside"]
            /\ UNCHANGED <<highWater, inUse, mark>>
    /\ UNCHANGED <<time, cache, torn, undone>>

\* quarantinePriorPublication
SetAside(s) ==
    /\ PublicationAt(s, "aside")
    /\ cache' = NoBundle
    /\ publication' = [publication EXCEPT !.step = "link"]
    /\ UNCHANGED <<time, highWater, inUse, mark, torn, undone>>

\* The temporary file is linked to the path: while it keeps its first name as
\* well, the cache has two links and nobody reads it.
Link(s) ==
    /\ PublicationAt(s, "link")
    /\ cache' = Unverified
    /\ publication' = [publication EXCEPT !.step = "unlink"]
    /\ UNCHANGED <<time, highWater, inUse, mark, torn, undone>>

\* removePublishedSource: from here on whoever holds no lock reads the bundle,
\* although the publication is still to be verified.
Unlink(s) ==
    /\ PublicationAt(s, "unlink")
    /\ cache' = publication.bundle
    /\ publication' = [publication EXCEPT !.step = "confirm"]
    /\ UNCHANGED <<time, highWater, inUse, mark, torn, undone>>

\* The bundle is durable, and the sensor takes it.
Confirm(s) ==
    /\ PublicationAt(s, "confirm")
    /\ Takes(s, publication.bundle) /\ mark' = publication.bundle
    /\ publication' = NoPublication
    /\ UNCHANGED <<time, cache, torn, undone>>

\* publishFileDurably fails and rolls back: the prior is back at the path, or it
\* is left aside or under two names; or what was linked could not be taken away.
PublicationFails(s) ==
    /\ Publishes(s)
    /\ publication' = NoPublication
    /\ \/ /\ cache' = publication.prior
          /\ undone' = (undone \/ (publication.step = "confirm" /\ mark = publication.bundle))
          /\ UNCHANGED torn
       \/ /\ publication.step # "aside" /\ publication.prior # NoBundle
          /\ \/ cache' = NoBundle /\ torn' = TRUE
             \/ cache' = Unverified /\ UNCHANGED torn
          /\ UNCHANGED undone
       \/ /\ publication.step \in {"unlink", "confirm"}
          /\ UNCHANGED <<cache, torn, undone>>
    /\ UNCHANGED <<time, highWater, inUse, mark>>

\* readCachedSignedPolicy finds a fresh bundle that follows what it took; no lock is held.
Readable(s) == cache \in SignedBundle /\ Fresh(cache) /\ Succeeds(cache, highWater[s])

\* The control plane does not answer, or what it sent is refused.
ReadCached(s) ==
    /\ ~Publishes(s)
    /\ IF Readable(s)
       THEN Takes(s, cache) /\ mark' = cache
       ELSE inUse' = [inUse EXCEPT ![s] = NoBundle] /\ UNCHANGED <<highWater, mark>>
    /\ UNCHANGED <<time, cache, publication, torn, undone>>

\* The process dies and is started again; its locks are reclaimed.  Nothing
\* finishes or undoes the publication it was in: a cache left under two names
\* stays unreadable.
Restart(s) ==
    /\ highWater' = [highWater EXCEPT ![s] = NoBundle]
    /\ inUse' = [inUse EXCEPT ![s] = NoBundle]
    /\ IF Publishes(s)
       THEN /\ publication' = NoPublication
            /\ torn' = (torn \/ (publication.step = "link" /\ publication.prior # NoBundle))
       ELSE UNCHANGED <<publication, torn>>
    /\ UNCHANGED <<time, cache, mark, undone>>

TimePasses ==
    /\ time < LastTime /\ time' = time + 1
    /\ UNCHANGED <<cache, publication, highWater, inUse, mark, torn, undone>>

PolicyCacheNext ==
    \/ TimePasses
    \/ \E s \in Sensor :
          \/ SetAside(s) \/ Link(s) \/ Unlink(s) \/ Confirm(s) \/ PublicationFails(s)
          \/ ReadCached(s) \/ Restart(s)
          \/ \E b \in SignedBundle : Accept(s, b)

PolicyCacheSpec == PolicyCacheInit /\ [][PolicyCacheNext]_policyVars

------------------------------------------------------------------------------
(* Properties *)

\* No sensor is made to enforce a policy older than, or in conflict with, one that
\* some sensor of the machine took before: not by a replay, not by the cache, not
\* after restarts and failed publications, and not when the newer one has expired
\* (sequenceCheck, cachedHighWater).  Two failures are excepted: a publication that
\* left the cache moved aside (`torn'), and one that was rolled back after a sensor
\* had read its bundle, which nothing had confirmed yet (`undone').
PolicyNeverRolledBack ==
    [][\A s \in Sensor :
          inUse'[s] # inUse[s] /\ inUse'[s] # NoBundle /\ ~torn' /\ ~undone'
              => Succeeds(inUse'[s], mark)
      ]_policyVars

\* What the deployment guide says without an exception: "an older but still-valid
\* signed replay cannot roll policy back across a sensor restart"
\* (acceptSignedPolicyBundle).  It does not hold: a sensor that dies between the
\* two renames of a publication has no cache to compare a replay with.
ReplayNeverRollsBack ==
    [][\A s \in Sensor :
          inUse'[s] # inUse[s] /\ inUse'[s] # NoBundle /\ mark # NoBundle
              => mark.issued <= inUse'[s].issued
      ]_policyVars
=============================================================================
