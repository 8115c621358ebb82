------------------------------ MODULE SeedData ------------------------------
(***************************************************************************)
(* What tools/seeder inserts, one sequence per collection in the order of  *)
(* the literals.  Of each document only its key is kept, and the keys of   *)
(* the documents it names and that are inserted before it.  What comes     *)
(* after it (the sub zones of a zone, the badge of an employee) is left    *)
(* out: the other side names it back.  A gate is part of its zone, so an   *)
(* entry in the log of a badge names the zone of the gate.  A reading has  *)
(* no key in the database; it is numbered here.                            *)
(***************************************************************************)
EXTENDS Sequences

Doc(key, refs) == [key |-> key, refs |-> refs]

-----------------------------------------------------------------------------
(* zones: the parent *)

MainAndReactorZones == <<
  Doc("ZONE-MAIN", {}),
  Doc("ZONE-CR-01", {"ZONE-MAIN"}),
  Doc("ZONE-RC-01", {"ZONE-MAIN"}),
  Doc("ZONE-RC-01A", {"ZONE-RC-01"}),
  Doc("ZONE-RC-01B", {"ZONE-RC-01"}) >>

OtherZones == <<
  Doc("ZONE-TB-01", {"ZONE-MAIN"}),
  Doc("ZONE-AUX-01", {"ZONE-MAIN"}),
  Doc("ZONE-SF-01", {"ZONE-MAIN"}),
  Doc("ZONE-ADM-01", {"ZONE-MAIN"}) >>

-----------------------------------------------------------------------------
(* personnel: the assigned zones *)

ManagementAndOperations == <<
  Doc("NP-2024-0001",
      {"ZONE-MAIN", "ZONE-CR-01", "ZONE-RC-01", "ZONE-TB-01", "ZONE-AUX-01",
       "ZONE-SF-01", "ZONE-ADM-01"}),
  Doc("NP-2024-0142",
      {"ZONE-MAIN", "ZONE-CR-01", "ZONE-TB-01", "ZONE-AUX-01"}),
  Doc("NP-2024-0143", {"ZONE-MAIN", "ZONE-CR-01", "ZONE-TB-01"}) >>

MaintenanceAndProtection == <<
  Doc("NP-2024-0201", {"ZONE-MAIN", "ZONE-TB-01", "ZONE-AUX-01"}),
  Doc("NP-2024-0067",
      {"ZONE-MAIN", "ZONE-CR-01", "ZONE-RC-01", "ZONE-TB-01", "ZONE-SF-01"}),
  Doc("NP-2024-0180",
      {"ZONE-MAIN", "ZONE-CR-01", "ZONE-RC-01", "ZONE-TB-01", "ZONE-SF-01",
       "ZONE-ADM-01"}) >>

Inspectors == <<
  Doc("NP-2024-0300",
      {"ZONE-MAIN", "ZONE-CR-01", "ZONE-RC-01", "ZONE-SF-01", "ZONE-ADM-01"}) >>

-----------------------------------------------------------------------------
(* access_badges: the holder, the zones it opens and those it was used in *)

OperationsBadges == <<
  Doc("BDG-00001",
      {"NP-2024-0001", "ZONE-MAIN", "ZONE-CR-01", "ZONE-RC-01", "ZONE-TB-01",
       "ZONE-AUX-01", "ZONE-SF-01", "ZONE-ADM-01"}),
  Doc("BDG-00142", {"NP-2024-0142", "ZONE-MAIN", "ZONE-CR-01", "ZONE-TB-01",
                    "ZONE-AUX-01"}),
  Doc("BDG-00143", {"NP-2024-0143", "ZONE-MAIN", "ZONE-CR-01", "ZONE-TB-01"}) >>

ProtectionBadges == <<
  Doc("BDG-00201", {"NP-2024-0201", "ZONE-MAIN", "ZONE-TB-01", "ZONE-AUX-01"}),
  Doc("BDG-00067", {"NP-2024-0067", "ZONE-MAIN", "ZONE-CR-01", "ZONE-RC-01",
                    "ZONE-TB-01", "ZONE-SF-01"}),
  Doc("BDG-00180", {"NP-2024-0180", "ZONE-MAIN", "ZONE-CR-01", "ZONE-RC-01",
                    "ZONE-TB-01", "ZONE-SF-01", "ZONE-ADM-01"}) >>

InspectorBadges == <<
  Doc("BDG-00300", {"NP-2024-0300", "ZONE-MAIN", "ZONE-CR-01", "ZONE-RC-01",
                    "ZONE-SF-01", "ZONE-ADM-01"}) >>

-----------------------------------------------------------------------------
(* reactor_parameters: who recorded them *)

Readings == <<
  Doc("reading1", {"NP-2024-0142"}),
  Doc("reading2", {"NP-2024-0143"}),
  Doc("reading3", {"NP-2024-0142"}),
  Doc("reading4", {"NP-2024-0143"}),
  Doc("reading5", {"NP-2024-0142"}) >>

(* maintenance_orders: the zone, the requester, the assignees, the approvers *)

MaintenanceOrders == <<
  Doc("MO-2025-0234",
      {"ZONE-RC-01", "NP-2024-0142", "NP-2024-0201", "NP-2024-0067"}),
  Doc("MO-2025-0240", {"ZONE-RC-01", "NP-2024-0001", "NP-2024-0201"}),
  Doc("MO-2024-0890", {"ZONE-AUX-01", "NP-2024-0201"}),
  Doc("MO-2025-0250", {"ZONE-RC-01", "NP-2024-0142", "NP-2024-0201"}) >>

-----------------------------------------------------------------------------
(* documents: the author, the approver and the zones of the document.  The   *)
(* earlier revisions a document lists are not kept in the collection.        *)

ProceduresAndManuals == <<
  Doc("DOC-PROC-2024-0891", {"NP-2024-0001", "ZONE-RC-01", "ZONE-CR-01"}),
  Doc("DOC-PROC-2024-0120", {"NP-2024-0142", "NP-2024-0001", "ZONE-CR-01"}),
  Doc("DOC-MAN-2023-0045", {"NP-2024-0201", "NP-2024-0001", "ZONE-RC-01"}) >>

AnalysesAndReports == <<
  Doc("DOC-ANL-2024-0033", {"NP-2024-0001", "ZONE-RC-01", "ZONE-CR-01"}),
  Doc("DOC-DWG-2022-0150",
      {"NP-2024-0142", "NP-2024-0001", "ZONE-RC-01", "ZONE-TB-01"}),
  Doc("DOC-RPT-2024-0005",
      {"NP-2024-0180", "NP-2024-0001", "ZONE-MAIN", "ZONE-SF-01"}),
  Doc("DOC-PROC-2024-0300",
      {"NP-2024-0067", "NP-2024-0001", "ZONE-RC-01", "ZONE-AUX-01",
       "ZONE-SF-01"}) >>

-----------------------------------------------------------------------------
(* nuclear_materials: where it is and who verified it *)

MaterialsInReactor == <<
  Doc("NM-UO2-2022-0056", {"ZONE-RC-01", "NP-2024-0001"}),
  Doc("NM-UO2-2023-0012", {"ZONE-RC-01", "NP-2024-0001"}) >>

MaterialsStored == <<
  Doc("NM-UO2-2018-0034", {"ZONE-SF-01", "NP-2024-0001"}),
  Doc("NM-UO2-2024-0001", {"ZONE-SF-01", "NP-2024-0001"}),
  Doc("NM-WST-2024-0100", {"ZONE-SF-01", "NP-2024-0001"}) >>

-----------------------------------------------------------------------------
(* The seven calls of main, and the collections whose key has a unique index *)

BusinessSeeds == <<
  MainAndReactorZones \o OtherZones,
  ManagementAndOperations \o MaintenanceAndProtection \o Inspectors,
  OperationsBadges \o ProtectionBadges \o InspectorBadges,
  Readings,
  MaintenanceOrders,
  ProceduresAndManuals \o AnalysesAndReports,
  MaterialsInReactor \o MaterialsStored >>

UniquelyKeyed == {1, 2, 3, 5, 6, 7}
=============================================================================
