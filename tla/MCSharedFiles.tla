---------------------------- MODULE MCSharedFiles ----------------------------
(***************************************************************************)
(* Small instances of the components whose processes meet in files: the    *)
(* deployer under power losses, the exchange that leads to a deployment,   *)
(* the default that yields to one, the waiter that looks for one, the      *)
(* known_hosts file and the backend's socket.  The initial state chooses a *)
(* scene, the component that moves; the others rest in one of their        *)
(* initial states, so what TLC explores is the sum of the components'      *)
(* state spaces and not their product.                                     *)
(***************************************************************************)
EXTENDS GenerationDeploy, MCDeploymentExchange, PublicDefault, ReadyWaiter, HostTrust,
        SocketLease

CONSTANTS e1, e2, k1  \* host keys

VARIABLE scene

MCIds == 1..3
MCPower == {"power"}

MCAlgorithm(k) == IF k = k1 THEN "rsa" ELSE "ed25519"

RestWorld == CHOOSE w \in Worlds({"g", "d"}) : w.stale = {}

MCSecrets == <<"a", "b">>

Scenes == {"deploy", "exchange", "default", "waiter", "trust", "lease"}

FilesInit ==
    /\ scene \in Scenes
    /\ Init /\ LeaseInit
    /\ ExchangeInit /\ (scene # "exchange" => world = RestWorld /\ stored = [i \in Values |-> None])
    /\ DefaultInit /\ (scene # "default" => declared = CHOOSE d \in Declarations : TRUE)
    /\ WaiterInit /\ (scene # "waiter" => \A s \in ExpectedSecrets : secretTree[s] = "ready")
    /\ TrustInit /\ (scene # "trust" => Recorded = {})

\* A component that is not on stage.
Rests(s, component) == IF scene = s THEN TRUE ELSE UNCHANGED component

FilesNext ==
    /\ UNCHANGED scene
    /\ Rests("deploy", vars) /\ Rests("exchange", exchangeVars) /\ Rests("default", defaultVars)
    /\ Rests("waiter", waiterVars) /\ Rests("trust", trustVars) /\ Rests("lease", leaseVars)
    /\ \/ scene = "deploy" /\ Next
       \/ scene = "exchange" /\ ExchangeNext
       \/ scene = "default" /\ DefaultNext
       \/ scene = "waiter" /\ WaiterNext
       \/ scene = "trust" /\ TrustNext
       \/ scene = "lease" /\ LeaseNext

FilesSpec ==
    FilesInit /\ [][FilesNext]_<<scene, vars, exchangeVars, defaultVars, waiterVars, trustVars, leaseVars>>

\* What tells two states of the run apart: the others never move.
SceneView ==
    <<scene, CASE scene = "deploy" -> vars [] scene = "exchange" -> exchangeVars
               [] scene = "default" -> defaultVars [] scene = "waiter" -> waiterVars
               [] scene = "trust" -> trustVars [] OTHER -> leaseVars>>
=============================================================================
