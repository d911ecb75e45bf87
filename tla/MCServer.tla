------------------------------ MODULE MCServer ------------------------------
(* Instances for TLC of parts of the server that do not touch each other's  *)
(* state: the settings that reach every pod, the orders to a mesh client,   *)
(* its revocation, the alerts.  A behaviour is one of them.                 *)
EXTENDS RuntimeSync, MeshClients, OpsAlert

CONSTANTS p1, p2, f1, d1, d2, a1, a2, w1, w2, r1

VARIABLE focus

serverVars == <<vars, meshVars, alertVars, focus>>

ServerInit ==
    /\ Init /\ MeshInit /\ AlertInit
    /\ focus \in {"settings", "orders", "revocation", "alerts"}
    /\ focus # "settings" => rev = 0

\* Which conn serves a request does not matter: the second is taken if the first is busy.
InTurn(x, y) == conn[y] = Free /\ conn'[y] # Free => conn[x] # Free

\* Two administrators who both give orders, or one who gives one and one who revokes.
Administrators ==
    /\ conn'[a1].does # "revoke"
    /\ conn'[a2].does \in IF focus = "orders" THEN {"nothing", "order"} ELSE {"nothing", "revoke"}
    /\ focus = "orders" => InTurn(a1, a2)
    /\ focus = "revocation" => issued' <= 1

ServerNext ==
    /\ \/ focus = "settings" /\ Next /\ UNCHANGED <<meshVars, alertVars>>
       \/ /\ focus \in {"orders", "revocation"} /\ MeshNext /\ Administrators /\ InTurn(d1, d2)
          /\ UNCHANGED <<vars, alertVars>>
       \/ focus = "alerts" /\ AlertNext /\ UNCHANGED <<vars, meshVars>>
    /\ UNCHANGED focus

ServerFairness ==
    /\ \A p \in Pods :
        WF_vars(focus = "settings" /\ SyncStep(p)) /\ WF_vars(focus = "settings" /\ PutStep(p))
    /\ WF_meshVars(focus \in {"orders", "revocation"} /\ DeviceStep)
    /\ WF_meshVars(focus \in {"orders", "revocation"} /\ Expire)
    /\ \A x \in DeviceConns : WF_meshVars(focus \in {"orders", "revocation"} /\ ReportStep(x))

ServerSpec == ServerInit /\ [][ServerNext]_serverVars /\ ServerFairness

\* Only the orders to a mesh client.
OrdersSpec == ServerInit /\ focus = "orders" /\ [][ServerNext]_serverVars /\ ServerFairness

ServerTypeOK == TypeOK /\ MeshTypeOK /\ AlertTypeOK
=============================================================================
