----------------------------- MODULE PageScrolling -----------------------------
(***************************************************************************)
(* How a long page becomes one image, and the image a PDF: the scroll      *)
(* loops of capture.py (load_lazy_content before an ordinary full page     *)
(* screenshot, capture_stitched_page for the feeds that unload what is out *)
(* of sight) and the page limits of pagination.py.                         *)
(*                                                                         *)
(* The page is the other actor: it grows while the browser waits, and it   *)
(* may intercept the wheel.  It grows at its end only, and its rows keep   *)
(* their places.  A row is a CSS pixel, drawn by one row of the image.     *)
(***************************************************************************)
EXTENDS Integers, Sequences

CONSTANTS
  Viewport,      \* window.innerHeight
  StitchWheel,   \* int(viewport * 0.90)
  LazyWheel,     \* int(viewport * 0.85)
  Slack,         \* the 8 pixels of at_bottom
  Heights,       \* the heights of the page explored
  MaxSteps,      \* settings.auto_scroll_max_steps
  StableRounds,  \* settings.auto_scroll_stable_rounds
  PageHeights,   \* the heights of a PDF page explored
  Overlap        \* RECOUVREMENT

ASSUME ScrollingAssumption ==
  /\ {Viewport, StitchWheel, LazyWheel, MaxSteps, StableRounds}
       \subseteq Nat \ {0}
  /\ StitchWheel <= Viewport /\ LazyWheel <= Viewport
  /\ Slack \in Nat /\ Slack < Viewport
  /\ Overlap \in Nat
  /\ Heights \subseteq Nat \ {0} /\ \A h \in Heights : h >= Viewport
  /\ PageHeights \subseteq Nat /\ \A h \in PageHeights : h > Overlap

(* scan.opened is a history variable: the height of the page once loaded.  *)
VARIABLES
  page,  \* the page: its height, and where it is scrolled
  scan,  \* the local variables of the loop
  tiles, \* the rows of the page that the image shows, from top to bottom
  pdf    \* the rows of the image on each page

scrollVars == <<page, scan, tiles, pdf>>

Scan == [step : {"idle", "measure", "wheel", "check", "done", "paginate",
                 "merge", "printed"},
         stitched : BOOLEAN, round : 0..MaxSteps, opened : Nat,
         seen : Nat, y : Nat,
         previous : Nat, stable : 0..StableRounds, covered : Nat,
         sheet : {0} \cup PageHeights]
NoScan == [step |-> "idle", stitched |-> FALSE, round |-> 0,
           opened |-> 0, seen |-> 0, y |-> 0, previous |-> 0, stable |-> 0, covered |-> 0, sheet |-> 0]

ScrollingTypes ==
  /\ page \in [height : {0} \cup Heights, y : Nat]
  /\ scan \in Scan
  /\ tiles \in Seq(Nat \X Nat)
  /\ pdf \in Seq(Nat \X Nat)

ScrollingInit ==
  /\ page = [height |-> 0, y |-> 0]
  /\ scan = NoScan
  /\ tiles = <<>> /\ pdf = <<>>

Smaller(a, b) == IF a < b THEN a ELSE b
Larger(a, b) == IF a < b THEN b ELSE a

(* The browser keeps the scroll inside the page.                           *)
ScrollTo(y) == Smaller(y, page.height - Viewport)
AtBottom == page.y + Viewport >= page.height - Slack

(* _capture_page_impl, once the page is loaded: window.scrollTo(0, 0).     *)
OpenPage ==
  /\ scan.step = "idle"
  /\ \E h \in Heights, stitched \in BOOLEAN :
       /\ page' = [height |-> h, y |-> 0]
       /\ scan' = [NoScan EXCEPT !.step = "measure",
                                !.stitched = stitched, !.opened = h]
  /\ UNCHANGED <<tiles, pdf>>

(* Mutant: a screenshot keeps the band it shares with the one before.      *)
NewRowsUncropped == <<page.y, page.y + Viewport>>

(* The crop of a screenshot below what the previous ones have covered.     *)
NewRows == <<Larger(scan.covered, page.y), page.y + Viewport>>

Stable == IF AtBottom /\ page.height = scan.previous THEN scan.stable + 1 ELSE 0

(* One turn of the loop: the metrics, the tile, the test of stability.     *)
Measure ==
  /\ scan.step = "measure"
  /\ IF scan.stitched /\ NewRows[1] < NewRows[2]
     THEN tiles' = Append(tiles, NewRows)
     ELSE UNCHANGED tiles
  /\ scan' = [scan EXCEPT
       !.step = IF Stable >= StableRounds THEN "done" ELSE "wheel",
       !.round = @ + 1,
       !.stable = Stable,
       !.seen = page.height, !.y = page.y, !.previous = page.height,
       !.covered = IF scan.stitched THEN Larger(@, NewRows[2]) ELSE @]
  /\ UNCHANGED <<page, pdf>>

Distance == IF scan.stitched THEN StitchWheel ELSE LazyWheel
(* Mutant: a loop without limit.                                             *)
NextTurnUnlimited == "measure"
NextTurn == IF scan.round = MaxSteps THEN "done" ELSE "measure"

(* page.mouse.wheel, that the page may intercept; then it loads more.      *)
Wheel ==
  /\ scan.step = "wheel"
  /\ \E y \in {page.y, ScrollTo(page.y + Distance)}, h \in Heights :
       /\ h >= page.height
       /\ page' = [height |-> h, y |-> y]
  /\ scan' = [scan EXCEPT !.step = IF scan.stitched THEN "check" ELSE NextTurn]
  /\ UNCHANGED <<tiles, pdf>>

(* The wheel did nothing and the bottom is not reached: a direct scroll,   *)
(* computed with the height measured before.                               *)
ForceScroll ==
  /\ scan.step = "check"
  /\ page.y <= scan.y /\ scan.y + Viewport < scan.seen
  /\ page' = [page EXCEPT
       !.y = ScrollTo(Smaller(scan.y + Distance,
                              Larger(0, scan.seen - Viewport)))]
  /\ scan' = [scan EXCEPT !.step = NextTurn]
  /\ UNCHANGED <<tiles, pdf>>

Unforced ==
  /\ scan.step = "check"
  /\ page.y > scan.y \/ scan.y + Viewport >= scan.seen
  /\ scan' = [scan EXCEPT !.step = NextTurn]
  /\ UNCHANGED <<page, tiles, pdf>>

-------------------------------------------------------------------------------
(* The image: the tiles one under the other, or all the page at once.      *)
ImageHeight == IF scan.stitched THEN scan.covered ELSE page.height

(* pdf_par_ecran: an image of one screen is not worth a PDF.               *)
Paginate ==
  /\ scan.step = "done"
  /\ \E h \in PageHeights :
       /\ ImageHeight > h
       /\ scan' = [scan EXCEPT !.step = "paginate", !.sheet = h]
  /\ UNCHANGED <<page, tiles, pdf>>

(* _limites: the loop, then a last page too thin joins the one before.     *)
(* Mutant: pages that share no band.                                       *)
TopWithoutOverlap == Len(pdf) * scan.sheet
Top == Len(pdf) * (scan.sheet - Overlap)
AddPage ==
  /\ scan.step = "paginate"
  /\ LET bottom == Smaller(ImageHeight, Top + scan.sheet)
     IN /\ pdf' = Append(pdf, <<Top, bottom>>)
        /\ scan' = [scan EXCEPT
             !.step = IF bottom >= ImageHeight THEN "merge" ELSE @]
  /\ UNCHANGED <<page, tiles>>

Thin(sheet) == 3 * (sheet[2] - sheet[1]) < scan.sheet
MergeLastPage ==
  /\ scan.step = "merge"
  /\ LET n == Len(pdf) IN
       pdf' = IF n >= 2 /\ Thin(pdf[n])
              THEN [SubSeq(pdf, 1, n - 1) EXCEPT ![n - 1] = <<@[1], pdf[n][2]>>]
              ELSE pdf
  /\ scan' = [scan EXCEPT !.step = "printed"]
  /\ UNCHANGED <<page, tiles>>

ScrollingNext ==
  \/ OpenPage \/ Measure \/ Wheel \/ ForceScroll \/ Unforced
  \/ Paginate \/ AddPage \/ MergeLastPage

ScrollingSpec == ScrollingInit /\ [][ScrollingNext]_scrollVars

-------------------------------------------------------------------------------
(* "sans sauter de contenu": whatever the page loads and intercepts while  *)
(* it scrolls, the tiles show it from its first row, each row once and in  *)
(* its place.                                                              *)
Seamless ==
  /\ scan.round > 0 => Len(tiles) > 0 /\ tiles[1][1] = 0
  /\ \A i \in 1..Len(tiles) :
       /\ tiles[i][1] < tiles[i][2]
       /\ i > 1 => tiles[i][1] = tiles[i - 1][2]
  /\ Len(tiles) > 0 => tiles[Len(tiles)][2] = scan.covered

(* A feed is captured without a gap, and each turn adds the rows of one    *)
(* wheel until the bottom: what the page held when it was opened is in the *)
(* image, up to what MaxSteps turns can reach.                             *)
FeedIsCaptured ==
  scan.stitched =>
    /\ Seamless
    /\ scan.step = "done" =>
         scan.covered >= Smaller(scan.opened - Slack,
                                 Viewport + (MaxSteps - 1) * StitchWheel)

(* The pages of the PDF show all the image: two of them share the band     *)
(* that keeps a line from being cut, none is too thin or too tall.         *)
PdfIsComplete ==
  scan.step = "printed" =>
    LET n == Len(pdf) IN
    /\ pdf[1][1] = 0 /\ pdf[n][2] = ImageHeight
    /\ \A i \in 1..(n - 1) : pdf[i + 1][1] = pdf[i][2] - Overlap
    /\ \A i \in 1..n : 3 * (pdf[i][2] - pdf[i][1]) < 4 * scan.sheet
    /\ n > 1 => 3 * (pdf[n][2] - pdf[n][1]) >= scan.sheet

===============================================================================
