--------------------------- MODULE MCControlPlane ---------------------------
(* The components of the control plane that share no state with one another,    *)
(* each explored from its own initial states: `component' names the one a       *)
(* behaviour moves, and the others stay where they began.                       *)
EXTENDS FileMutationLock, Sessions, Provisioning, LoginThrottle, ParsePool, PgRestore,
        PolicyStore, TLC

CONSTANTS a1, a2, b1, b2, lockHost

VARIABLE component

\* Every process of the supported layout runs on one lock hostname.
OneHost == [p \in {a1, a2} |-> lockHost]

\* Processes, instances, servers, nodes and clients are alike, and so are logins,
\* invitations and user names.
Alike == Permutations({a1, a2}) \cup Permutations({b1, b2})

ControlPlaneInit ==
    /\ component \in {"lock", "sessions", "provisioning", "throttle", "parse", "pgrestore",
                     "policy"}
    /\ Init /\ SessionInit /\ ProvisioningInit /\ ThrottleInit /\ ParsePoolInit /\ RestoreInit
    /\ PolicyStoreInit
    /\ component # "policy" => policyFile = NoFile
    /\ component # "lock" => dir = Absent
    /\ component # "sessions" =>
          \A a \in Account : account[a].role = "auditor" /\ account[a].source = "local"

Only(c) == component = c /\ UNCHANGED component

ControlPlaneNext ==
    \/ Only("lock") /\ Next
       /\ UNCHANGED <<sessionVars, provisioningVars, throttleVars, poolVars,
                       restoreVars, policyStoreVars>>
    \/ Only("sessions") /\ SessionNext
       /\ UNCHANGED <<vars, provisioningVars, throttleVars, poolVars,
                       restoreVars, policyStoreVars>>
    \/ Only("provisioning") /\ ProvisioningNext
       /\ UNCHANGED <<vars, sessionVars, throttleVars, poolVars,
                       restoreVars, policyStoreVars>>
    \/ Only("throttle") /\ ThrottleNext
       /\ UNCHANGED <<vars, sessionVars, provisioningVars, poolVars,
                       restoreVars, policyStoreVars>>
    \/ Only("parse") /\ ParsePoolNext
       /\ UNCHANGED <<vars, sessionVars, provisioningVars, throttleVars,
                       restoreVars, policyStoreVars>>
    \/ Only("pgrestore") /\ RestoreNext
       /\ UNCHANGED <<vars, sessionVars, provisioningVars, throttleVars,
                       poolVars, policyStoreVars>>
    \/ Only("policy") /\ PolicyStoreNext
       /\ UNCHANGED <<vars, sessionVars, provisioningVars, throttleVars,
                       poolVars, restoreVars>>

ControlPlaneVars ==
    <<component, vars, sessionVars, provisioningVars, throttleVars, poolVars, restoreVars,
      policyStoreVars>>

ControlPlaneSpec == ControlPlaneInit /\ [][ControlPlaneNext]_ControlPlaneVars

------------------------------------------------------------------------------

\* Every component keeps its state well formed.
ControlPlaneTypes ==
    /\ TypeOK /\ SessionTypes /\ ProvisioningTypes /\ ThrottleTypes
    /\ ParsePoolTypes /\ RestoreTypes /\ PolicyStoreTypes
=============================================================================
