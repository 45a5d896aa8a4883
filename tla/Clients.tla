------------------------------ MODULE Clients -------------------------------
(***************************************************************************)
(* The two clients that stand between an application and its target        *)
(* without a connection of their own: the queued client of queued.rs,      *)
(* which waits for its target, and the reconnecting one of reconnect.rs,   *)
(* which replaces it.  Neither knows of the other, so a behaviour is one   *)
(* of module Queued or one of module Reconnect.                            *)
(***************************************************************************)
EXTENDS Queued, Reconnect

ClientsInit == QInit /\ ReconnectInit

ClientsNext ==
    \/ ReconnectInit /\ QNext /\ UNCHANGED reconnect_vars
    \/ QInit /\ ReconnectNext /\ UNCHANGED all_vars

ClientsSpec == ClientsInit /\ [][ClientsNext]_<<all_vars, reconnect_vars>>

\* The fairness of FairQSpec: whoever awaits is polled, and what runs ends.
FairClientsSpec == ClientsSpec /\ QFairness
=============================================================================
