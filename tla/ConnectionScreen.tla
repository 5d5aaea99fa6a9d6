-------------------------- MODULE ConnectionScreen --------------------------
(***************************************************************************)
(* The connection screen: its cards and its SSO panel, looked at by one    *)
(* Process, and the connections its forms save                             *)
(* (src/internal/ui/gateway_screen.go).                                    *)
(*                                                                         *)
(* The parts share the screen and nothing else, so it is enough that in    *)
(* each behaviour the user works at one of them.                           *)
(***************************************************************************)
EXTENDS Cards, SSOPanel, SavedConnections

VARIABLE part   \* bound: the part of the screen the user works at

vars == <<screenVars, cardVars, panelVars, savedVars, part>>

Init ==
  /\ part \in {"cards", "panel", "saved"}
  /\ ScreenInit /\ CardsInit /\ PanelInit /\ SavedInit
  /\ part # "panel" => UnderWay = {}

Next ==
  /\ UNCHANGED part
  /\ \/ part = "cards" /\ CardsNext /\ UNCHANGED <<panelVars, savedVars>>
     \/ part = "panel" /\ PanelNext /\ UNCHANGED <<cardVars, savedVars>>
     \/ part = "saved" /\ SavedNext /\ UNCHANGED <<screenVars, cardVars, panelVars>>

Spec == Init /\ [][Next]_vars /\ CardsFairness /\ PanelFairness
=============================================================================
