-------------------------------- MODULE Content --------------------------------
(***************************************************************************)
(* Five parts of the program that share no state, beside each other: a     *)
(* behaviour is a behaviour of the part its first step chooses.            *)
(***************************************************************************)
EXTENDS PageScrolling, ContentExtraction, ProductSheets, BackupRestore,
        SessionKey

VARIABLE part

contentVars ==
  <<part, scrollVars, extractionVars, sheetVars, backupVars, keyVars>>

Only(p) == part \in {"none", p} /\ part' = p

ContentInit ==
  /\ part = "none"
  /\ ScrollingInit /\ ExtractionInit /\ ProductSheetsInit /\ BackupInit
  /\ SessionKeyInit

ContentNext ==
  \/ /\ Only("page") /\ ScrollingNext
     /\ UNCHANGED <<extractionVars, sheetVars, backupVars, keyVars>>
  \/ /\ Only("extraction") /\ ExtractionNext
     /\ UNCHANGED <<scrollVars, sheetVars, backupVars, keyVars>>
  \/ /\ Only("sheets") /\ ProductSheetsNext
     /\ UNCHANGED <<scrollVars, extractionVars, backupVars, keyVars>>
  \/ /\ Only("backup") /\ BackupNext
     /\ UNCHANGED <<scrollVars, extractionVars, sheetVars, keyVars>>
  \/ /\ Only("key") /\ SessionKeyNext
     /\ UNCHANGED <<scrollVars, extractionVars, sheetVars, backupVars>>

Spec == ContentInit /\ [][ContentNext]_contentVars

(* Every variable of the five parts has its type.                          *)
TypeInvariant ==
  /\ ScrollingTypes /\ ExtractionTypes /\ ProductSheetTypes /\ BackupTypes
  /\ SessionKeyTypes
  /\ part \in {"none", "page", "extraction", "sheets", "backup", "key"}

===============================================================================
