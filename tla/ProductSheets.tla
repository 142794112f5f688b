----------------------------- MODULE ProductSheets -----------------------------
(***************************************************************************)
(* The product sheets linked from a table (fiches_liens.py).  The run that *)
(* captures the table writes an image of each row beside its capture, puts *)
(* what it found in a JSON file and starts a process of its own, which     *)
(* sends to Drive the table of the prices, the images of the rows, then a  *)
(* capture of every link.                                                  *)
(*                                                                         *)
(* The process goes on while other runs start theirs, and nothing starts   *)
(* it again when it dies.  The processes of one day share the work files:  *)
(* they are named after the date and the rank of the link.  The images of  *)
(* the rows are named after the capture and shared by none.                *)
(***************************************************************************)
EXTENDS Integers, Sequences, FiniteSets, SequencesExt

CONSTANTS
  Launches,      \* the runs whose table is read
  Days,          \* the capture dates explored
  RawLinks,      \* by launch: the links of the table, in its order
  RawRows,       \* by launch: the names of its rows, in their order
  IgnoredMarkets \* marketplaces_ignorees

ASSUME ProductSheetsAssumption ==
  \A p \in Launches : \A list \in {RawLinks[p], RawRows[p]} :
    Len(list) \in Nat /\ DOMAIN list = 1..Len(list)

(* A link is [url, market, name]: Lien.marketplace and Lien.nom_fichier.   *)
VARIABLES
  sheets,     \* the processes
  workFiles,  \* fiches-liens/<date>/NNNN.jpg: the link it shows
  tableFile,  \* fiches-liens/... <date>.csv: the launch it comes from
  rowFiles,   \* by launch: the files of <capture>-lignes/
  drive,      \* the files on Drive: where, and what they show
  overlapped  \* the days two processes have worked at once (history)

sheetVars == <<sheets, workFiles, tableFile, rowFiles, drive, overlapped>>

Working == {"start", "send table", "drop table", "rows", "send rows", "links",
            "shoot", "send", "drop", "unlist"}
SheetSteps == Working \cup {"none", "failed", "done", "dead"}

(* rows: of its JSON file, those that are not sent yet.  unsent: it found  *)
(* no Drive to send them to (history).                                     *)
NoSheets == [step |-> "none", day |-> "none", rows |-> {}, unsent |-> FALSE,
             rank |-> 1, ok |-> {}, blocked |-> {}, errors |-> {}]

(* depuis_json: one link by sheet and one by address; then the exclusions. *)
Keep(links, link) ==
  IF \E i \in 1..Len(links) : \/ links[i].url = link.url
                              \/ /\ links[i].market = link.market
                                 /\ links[i].name = link.name
  THEN links ELSE Append(links, link)
Follow(links, link) ==
  IF link.market \in IgnoredMarkets THEN links ELSE Append(links, link)
LinkLists ==
  [p \in Launches |-> FoldLeft(Follow, <<>>, FoldLeft(Keep, <<>>, RawLinks[p]))]
Links(p) == LinkLists[p]
Ranks(p) == 1..Len(Links(p))
(* One image by name, of the rows read before a failure.                   *)
FirstRows(p, n) == {RawRows[p][i] : i \in 1..n}
AllRows(p) == FirstRows(p, Len(RawRows[p]))
Link(p) == Links(p)[sheets[p].rank]

(* Mutant: work files named after the rank alone.                          *)
WorkFileOfRank(day, rank) == <<"any", rank>>

(* The name of the work file.                                              *)
WorkFile(day, rank) == <<day, rank>>
WorkFiles == {WorkFile(d, n) : d \in Days,
                               n \in UNION {Ranks(p) : p \in Launches}}
Missing == "missing"

ProductSheetTypes ==
  /\ \A p \in Launches :
       /\ sheets[p].step \in SheetSteps
       /\ sheets[p].day \in Days \cup {"none"}
       /\ sheets[p].rank \in 1..(Len(Links(p)) + 1)
       /\ UNION {sheets[p].ok, sheets[p].blocked, sheets[p].errors}
            \subseteq Ranks(p)
       /\ sheets[p].rows \subseteq rowFiles[p] /\ rowFiles[p] \subseteq AllRows(p)
       /\ sheets[p].unsent \in BOOLEAN
  /\ DOMAIN workFiles = WorkFiles /\ DOMAIN tableFile = Days
  /\ overlapped \subseteq Days

ProductSheetsInit ==
  /\ sheets = [p \in Launches |-> NoSheets]
  /\ workFiles = [f \in WorkFiles |-> Missing]
  /\ tableFile = [d \in Days |-> Missing]
  /\ rowFiles = [p \in Launches |-> {}]
  /\ drive = {} /\ overlapped = {}

Goto(p, step) == sheets' = [sheets EXCEPT ![p].step = step]
Day(p) == sheets[p].day

(* capturer_lignes, then lancer_en_arriere_plan.  JSON file of p: there    *)
(* until p is "done".                                                      *)
LaunchSheets(p, day) ==
  /\ sheets[p].step = "none"
  /\ \E n \in 0..Len(RawRows[p]) :
       /\ rowFiles' = [rowFiles EXCEPT ![p] = FirstRows(p, n)]
       /\ sheets' = [sheets EXCEPT ![p] = [NoSheets EXCEPT
            !.step = "start", !.day = day, !.rows = FirstRows(p, n)]]
  /\ overlapped' = IF \E q \in Launches : /\ sheets[q].step \in Working
                                          /\ Day(q) = day
                   THEN overlapped \cup {day} ELSE overlapped
  /\ UNCHANGED <<workFiles, tableFile, drive>>

(* The rest of the capture fails, the worker is killed, or no process can  *)
(* be started: nothing sends the images of the rows or removes them.       *)
CaptureFails(p) ==
  /\ sheets[p].step = "none"
  /\ \E n \in 0..Len(RawRows[p]) :
       rowFiles' = [rowFiles EXCEPT ![p] = FirstRows(p, n)]
  /\ Goto(p, "failed")
  /\ UNCHANGED <<workFiles, tableFile, drive, overlapped>>

(* The process is killed, or Drive refuses it one of the folders it asks   *)
(* for before its loops: an exception that nothing catches.                *)
DieInSheets(p) ==
  /\ sheets[p].step \in Working
  /\ Goto(p, "dead")
  /\ UNCHANGED <<workFiles, tableFile, rowFiles, drive, overlapped>>

(* drive_client.upload does not send a name that the folder has already.   *)
Upload(place, content) ==
  drive' = IF \E file \in drive : file.place = place THEN drive
           ELSE drive \cup {[place |-> place, shows |-> content]}

(* envoyer_prix: without a price or without Drive, there is no table.      *)
WriteTable(p) ==
  /\ sheets[p].step = "start"
  /\ tableFile' = [tableFile EXCEPT ![Day(p)] = <<p>>]
  /\ Goto(p, "send table")
  /\ UNCHANGED <<workFiles, rowFiles, drive, overlapped>>

NoTable(p) ==
  /\ sheets[p].step = "start"
  /\ Goto(p, "rows")
  /\ UNCHANGED <<workFiles, tableFile, rowFiles, drive, overlapped>>

SendTable(p) ==
  /\ sheets[p].step = "send table"
  /\ \/ /\ tableFile[Day(p)] # Missing
        /\ Upload(<<"prices", Day(p)>>, tableFile[Day(p)])
     \/ UNCHANGED drive
  /\ Goto(p, "drop table")
  /\ UNCHANGED <<workFiles, tableFile, rowFiles, overlapped>>

DropTable(p) ==
  /\ sheets[p].step = "drop table"
  /\ tableFile' = [tableFile EXCEPT ![Day(p)] = Missing]
  /\ Goto(p, "rows")
  /\ UNCHANGED <<workFiles, rowFiles, drive, overlapped>>

(* envoyer_lignes: sent or not, an image is removed; but it returns at     *)
(* once without Drive, and the images stay.                                *)
StartRows(p) ==
  /\ sheets[p].step = "rows" /\ sheets[p].rows # {}
  /\ Goto(p, "send rows")
  /\ UNCHANGED <<workFiles, tableFile, rowFiles, drive, overlapped>>

LeaveRows(p) ==
  /\ sheets[p].step = "rows"
  /\ sheets' = [sheets EXCEPT ![p].step = "links", ![p].rows = {},
                              ![p].unsent = (sheets[p].rows # {})]
  /\ UNCHANGED <<workFiles, tableFile, rowFiles, drive, overlapped>>

SendRow(p, row) ==
  /\ sheets[p].step = "send rows" /\ row \in sheets[p].rows
  /\ \/ Upload(<<"rows", Day(p), row>>, <<row>>)
     \/ UNCHANGED drive
  /\ rowFiles' = [rowFiles EXCEPT ![p] = @ \ {row}]
  /\ sheets' = [sheets EXCEPT ![p].rows = @ \ {row}]
  /\ UNCHANGED <<workFiles, tableFile, overlapped>>

RowsAreSent(p) ==
  /\ sheets[p].step = "send rows" /\ sheets[p].rows = {}
  /\ Goto(p, "links")
  /\ UNCHANGED <<workFiles, tableFile, rowFiles, drive, overlapped>>

(* capturer_tout; without Drive it returns at once.                        *)
StartLinks(p) ==
  /\ sheets[p].step = "links"
  /\ \/ sheets[p].rank \in Ranks(p) /\ Goto(p, "shoot")
     \/ Goto(p, "unlist")
  /\ UNCHANGED <<workFiles, tableFile, rowFiles, drive, overlapped>>

(* One link: the page is written, then judged.                             *)
Shoot(p) ==
  /\ sheets[p].step = "shoot"
  /\ workFiles' = [workFiles EXCEPT
       ![WorkFile(Day(p), sheets[p].rank)] = <<Link(p)>>]
  /\ \/ sheets' = [sheets EXCEPT ![p].step = "send", ![p].ok = @ \cup {sheets[p].rank}]
     \/ sheets' = [sheets EXCEPT ![p].step = "drop", ![p].blocked = @ \cup {sheets[p].rank}]
  /\ UNCHANGED <<tableFile, rowFiles, drive, overlapped>>

(* An exception counts the link as blocked or as an error by its text.     *)
CountFailure(p) ==
  \/ sheets' = [sheets EXCEPT ![p].step = "drop", ![p].blocked = @ \cup {sheets[p].rank}]
  \/ sheets' = [sheets EXCEPT ![p].step = "drop", ![p].errors = @ \cup {sheets[p].rank}]

ShootFails(p) ==
  /\ sheets[p].step = "shoot"
  /\ CountFailure(p)
  /\ UNCHANGED <<workFiles, tableFile, rowFiles, drive, overlapped>>

SheetPlace(day, link) == <<"sheets", day, link.market, link.name>>

SendSheet(p) ==
  /\ sheets[p].step = "send"
  /\ workFiles[WorkFile(Day(p), sheets[p].rank)] # Missing
  /\ Upload(SheetPlace(Day(p), Link(p)),
            workFiles[WorkFile(Day(p), sheets[p].rank)])
  /\ Goto(p, "drop")
  /\ UNCHANGED <<workFiles, tableFile, rowFiles, overlapped>>

(* The upload fails, or the file is not there any more: the link has been  *)
(* counted as captured and is counted again.                               *)
SendFails(p) ==
  /\ sheets[p].step = "send"
  /\ CountFailure(p)
  /\ UNCHANGED <<workFiles, tableFile, rowFiles, drive, overlapped>>

DropSheet(p) ==
  /\ sheets[p].step = "drop"
  /\ workFiles' = [workFiles EXCEPT
       ![WorkFile(Day(p), sheets[p].rank)] = Missing]
  /\ sheets' = [sheets EXCEPT
       ![p].rank = @ + 1,
       ![p].step = IF sheets[p].rank + 1 \in Ranks(p) THEN "shoot" ELSE "unlist"]
  /\ UNCHANGED <<tableFile, rowFiles, drive, overlapped>>

(* main: the JSON file is removed last.                                    *)
FinishSheets(p) ==
  /\ sheets[p].step = "unlist"
  /\ Goto(p, "done")
  /\ UNCHANGED <<workFiles, tableFile, rowFiles, drive, overlapped>>

ProductSheetsNext ==
  \E p \in Launches :
    \/ \E day \in Days : LaunchSheets(p, day)
    \/ CaptureFails(p)
    \/ DieInSheets(p)
    \/ WriteTable(p) \/ NoTable(p) \/ SendTable(p) \/ DropTable(p)
    \/ StartRows(p) \/ LeaveRows(p) \/ \E row \in AllRows(p) : SendRow(p, row)
    \/ RowsAreSent(p) \/ StartLinks(p) \/ Shoot(p) \/ ShootFails(p) \/ SendSheet(p)
    \/ SendFails(p) \/ DropSheet(p) \/ FinishSheets(p)

ProductSheetsSpec == ProductSheetsInit /\ [][ProductSheetsNext]_sheetVars

-------------------------------------------------------------------------------
(* What a day leaves.  Unless two processes of that day worked at once: a  *)
(* sheet on Drive shows the link of its marketplace and of its product;    *)
(* every link of a finished process that found Drive is there or is        *)
(* counted as blocked or in error; and only a process that died or still   *)
(* works leaves a table or the image of a link on the disk.  The image of  *)
(* a row stays besides when its capture started no process, and when the   *)
(* process found no Drive to send it to.                                   *)
SheetsAreTrue ==
  /\ \A d \in Days \ overlapped :
       /\ \A file \in drive :
            file.place[1] = "sheets" /\ file.place[2] = d =>
              SheetPlace(d, file.shows[1]) = file.place
       /\ \A p \in Launches :
            sheets[p].step = "done" /\ Day(p) = d /\ sheets[p].rank > 1 =>
              \A n \in Ranks(p) \ (sheets[p].blocked \cup sheets[p].errors) :
                /\ n \in sheets[p].ok
                /\ \E file \in drive : file.place = SheetPlace(d, Links(p)[n])
       /\ \/ \E p \in Launches : /\ Day(p) = d
                                 /\ sheets[p].step \in Working \cup {"dead"}
          \/ /\ tableFile[d] = Missing
             /\ \A n \in UNION {Ranks(p) : p \in Launches} :
                  workFiles[WorkFile(d, n)] = Missing
  /\ \A p \in Launches :
       sheets[p].step = "done" /\ rowFiles[p] # {} => sheets[p].unsent

===============================================================================
