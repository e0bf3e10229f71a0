-------------------------------- MODULE Services --------------------------------
(***************************************************************************)
(* Six parts of the program beside its backups: pairing a phone with the   *)
(* desktop, the window and its worker threads, the schema of the catalog,  *)
(* the consolidation command, the organisation of the library, and picking *)
(* photos on web pages.  They share no state, so a behaviour of all is one *)
(* of each; `focus' is the part whose steps are looked at, and the others  *)
(* stand still.                                                            *)
(***************************************************************************)
EXTENDS Pairing, Desktop, Schema, Consolidation, Organisation, Culling

VARIABLE focus

vars == <<focus, pairingVars, desktopVars, schemaVars, consolidationVars, organisationVars,
          cullingVars>>

\* A part that is not looked at has one initial state.
Init ==
  /\ focus \in {"pairing", "desktop", "schema", "consolidation", "organisation", "culling"}
  /\ PairingInit /\ CullingInit
  /\ SchemaInit /\ (focus # "schema" => recorded = {})
  /\ ConsolidationInit /\ (focus # "consolidation" => files = {})
  /\ DesktopInit /\ (focus # "desktop" => lane = CHOOSE l \in Lanes : TRUE)
  /\ OrganisationInit /\ (focus # "organisation" => kind = CHOOSE k \in Kinds : TRUE)

PairingStep ==
  /\ focus = "pairing" /\ PairingNext
  /\ UNCHANGED <<focus, desktopVars, schemaVars, consolidationVars,
                 organisationVars, cullingVars>>
DesktopStep ==
  /\ focus = "desktop" /\ DesktopNext
  /\ UNCHANGED <<focus, pairingVars, schemaVars, consolidationVars,
                 organisationVars, cullingVars>>
SchemaStep ==
  /\ focus = "schema" /\ SchemaNext
  /\ UNCHANGED <<focus, pairingVars, desktopVars, consolidationVars,
                 organisationVars, cullingVars>>
ConsolidationStep ==
  /\ focus = "consolidation" /\ ConsolidationNext
  /\ UNCHANGED <<focus, pairingVars, desktopVars, schemaVars, organisationVars,
                 cullingVars>>
OrganisationStep ==
  /\ focus = "organisation" /\ OrganisationNext
  /\ UNCHANGED <<focus, pairingVars, desktopVars, schemaVars, consolidationVars,
                 cullingVars>>
CullingStep ==
  /\ focus = "culling" /\ CullingNext
  /\ UNCHANGED <<focus, pairingVars, desktopVars, schemaVars, consolidationVars,
                 organisationVars>>

Next ==
  \/ PairingStep \/ DesktopStep \/ SchemaStep
  \/ ConsolidationStep \/ OrganisationStep \/ CullingStep

Spec == Init /\ [][Next]_vars

-------------------------------------------------------------------------------
\* What stands still has the type it began with.
TypeOK ==
  /\ focus = "pairing" => PairingTypeOK
  /\ focus = "desktop" => DesktopTypeOK
  /\ focus = "schema" => SchemaTypeOK
  /\ focus = "consolidation" => ConsolidationTypeOK
  /\ focus = "organisation" => OrganisationTypeOK
  /\ focus = "culling" => CullingTypeOK
===============================================================================
