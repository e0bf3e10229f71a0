-------------------------------- MODULE Catalogue --------------------------------
(***************************************************************************)
(* The catalog of files: scans and audits keep it true to the volumes, and *)
(* the web page and the window read it a page at a time.  Reading writes   *)
(* nothing, and what a scan adds or marks as missing between two pages is  *)
(* to a reader what a rejected or restored photo is; so a behaviour of     *)
(* both is one of each.  `focus' is the part whose steps are looked at,    *)
(* and the other stands still.                                             *)
(***************************************************************************)
EXTENDS Audits, Browse

VARIABLE focus

catalogueVars == <<focus, vars, browseVars>>

\* A part that is not looked at has one initial state.
CatalogueInit ==
  /\ focus \in {"scans", "pages"}
  /\ Init /\ BrowseInit
  /\ focus = "pages" => (\A pl \in Place : file[pl] = Absent) /\ catalog.assets = {}
  /\ focus = "scans" => /\ taken = [e \in Entry |-> CHOOSE t \in Stamps : TRUE]
                        /\ reader = "web" /\ twins = FALSE

ScanStep == focus = "scans" /\ Next /\ UNCHANGED <<focus, browseVars>>
PageStep == focus = "pages" /\ BrowseNext /\ UNCHANGED <<focus, vars>>
CatalogueNext == ScanStep \/ PageStep

CatalogueSpec == CatalogueInit /\ [][CatalogueNext]_catalogueVars

-------------------------------------------------------------------------------
\* What stands still has the type it began with.
CatalogueTypeOK == (focus = "scans" => TypeOK) /\ (focus = "pages" => BrowseTypeOK)
===============================================================================
