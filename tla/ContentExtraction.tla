--------------------------- MODULE ContentExtraction ---------------------------
(***************************************************************************)
(* What is read on a captured page: the extraction of its rows by a        *)
(* language model, its storage and its reuse, and the comparison of two    *)
(* successive extractions (extraction.py, extraction_store.py,             *)
(* extraction_diff.py, and the step 1ter of runner.py).                    *)
(*                                                                         *)
(* One target.  Its runs are executed in any order and some of them twice, *)
(* its tags may change at any time, and the model may answer anything.  A  *)
(* text is known by the words it holds, a price by its value.              *)
(***************************************************************************)
EXTENDS Integers, Sequences, FiniteSets, SequencesExt

CONSTANTS
  Runs,        \* the runs of the target, numbered in the order of creation
  Readers,     \* the workers
  Texts,       \* run.body_text, up to spaces
  Blank,       \* the text of an empty page, one of Texts
  LongTexts,   \* the texts of more than MAX_CARACTERES characters
  Words,       \* for each text, the names it holds
  KeyOf,       \* _cle: what a name becomes without case, accents and signs
  Converted,   \* by type: what convertir_<type> makes of what it accepts
  Answers,     \* the answers of the model explored
  MaxRows,     \* regle.max_lignes
  Delays,      \* the number of gemini_retry_delays
  MaxReadings, \* bound: executions of runs
  MaxTags      \* bound: changes of the tags

Null == "null"
NoText == "no text"
Purged == "purged"

ASSUME ExtractionAssumption ==
  /\ Runs \subseteq Nat /\ MaxRows \in Nat /\ Delays \in Nat
  /\ MaxReadings \in Nat /\ MaxTags \in Nat
  /\ Blank \in Texts /\ LongTexts \subseteq Texts \ {Blank}
  /\ NoText \notin Texts /\ Purged \notin Texts
  /\ \A type \in {"number", "boolean", "date"} :
       \A v \in DOMAIN Converted[type] : v # Null /\ Converted[type][v] # Null
  /\ \A v \in DOMAIN Converted["boolean"] :
       Converted["boolean"][v] \in {"yes", "no"}
  /\ \A answer \in Answers : answer \in Seq({answer[i] : i \in DOMAIN answer})

VARIABLES
  texts,       \* runs: body_text of each run
  retaken,     \* the runs executed twice (history)
  rule,        \* regle_pour(target.tags)
  extractions, \* page_extractions, by run
  reading,     \* the extraction each worker is doing
  readings,    \* bound
  tagged       \* bound

extractionVars ==
  <<texts, retaken, rule, extractions, reading, readings, tagged>>

Unreadable == <<[json |-> "invalid"]>>  \* not JSON, or no list "lignes"
NotAnObject == [json |-> "no object"]

(* Champ, and the fields of the three rules that validation and comparison *)
(* tell apart.                                                             *)
Field(type, required, verifiable) ==
  [type |-> type, required |-> required, verifiable |-> verifiable]

Fields ==
  [catalogue |-> [modele |-> Field("text", TRUE, TRUE),
                  prix |-> Field("number", FALSE, FALSE),
                  prix_barre |-> Field("number", FALSE, FALSE),
                  en_stock |-> Field("boolean", FALSE, FALSE)],
   tarifs |-> [forfait |-> Field("text", TRUE, TRUE),
               prix_mensuel |-> Field("number", FALSE, FALSE),
               prix_annuel |-> Field("number", FALSE, FALSE)],
   editorial |-> [titre |-> Field("text", TRUE, TRUE),
                  date_publication |-> Field("date", FALSE, FALSE)]]

CLES == [catalogue |-> "modele", tarifs |-> "forfait", editorial |-> "titre"]
Rules == DOMAIN Fields

-------------------------------------------------------------------------------
(* analyser_reponse: what is kept of an answer.                            *)
Get(line, f) == IF f \in DOMAIN line THEN line[f] ELSE Null

(* A number is what is left of the answer without its other signs, so that *)
(* "10 or 12" is one number; a date is the first that is found.            *)
Convert(type, value) ==
  IF type = "text" THEN value
  ELSE IF value \in DOMAIN Converted[type] THEN Converted[type][value] ELSE Null

Kept(r, text, line, f) ==
  LET value == Convert(Fields[r][f].type, Get(line, f))
  IN IF Fields[r][f].verifiable /\ value \notin Words[text]
     THEN Null ELSE value

Row(r, text, line) == [f \in DOMAIN Fields[r] |-> Kept(r, text, line, f)]

Usable(r, text, line) ==
  /\ line # NotAnObject
  /\ \A f \in DOMAIN Fields[r] :
       Fields[r][f].required => Row(r, text, line)[f] # Null
  /\ \E f \in DOMAIN Fields[r] : Row(r, text, line)[f] # Null

Read(answer) ==
  IF answer = Unreadable THEN <<>>
  ELSE SubSeq(answer, 1, IF Len(answer) < MaxRows THEN Len(answer) ELSE MaxRows)

KeepLine(r, text, lines, line) ==
  IF Usable(r, text, line) THEN Append(lines, Row(r, text, line)) ELSE lines
Lines(r, text, answer) ==
  FoldLeft(LAMBDA lines, line : KeepLine(r, text, lines, line), <<>>, Read(answer))

(* A value that is set aside is an anomaly, a boolean excepted.            *)
Discarded(r, text, line, f) ==
  /\ Get(line, f) # Null /\ Kept(r, text, line, f) = Null
  /\ Fields[r][f].type # "boolean"

Doubtful(r, text, line) ==
  \/ ~ Usable(r, text, line)
  \/ ~ DOMAIN line \subseteq DOMAIN Fields[r]
  \/ \E f \in DOMAIN Fields[r] : Discarded(r, text, line, f)

(* The numbers of the doubtful lines, 0 for an anomaly of all the answer.  *)
Anomalies(r, text, answer) ==
  {i \in 1..Len(Read(answer)) : Doubtful(r, text, Read(answer)[i])}
    \cup {i \in {0} : \/ answer = Unreadable
                      \/ Len(answer) > MaxRows
                      \/ text \in LongTexts}

-------------------------------------------------------------------------------
(* PageExtraction, with the answer it comes from (history).                *)
NoExtraction == [rule |-> "none"]
Extraction(r, text, answer) ==
  [rule |-> r, text |-> text, lines |-> Lines(r, text, answer),
   anomalies |-> Anomalies(r, text, answer), truncated |-> text \in LongTexts,
   reused |-> FALSE, answer |-> answer]
(* reprise: the rows of the previous one, without its anomalies.           *)
Reused(before) == [before EXCEPT !.anomalies = {}, !.reused = TRUE]

Extracted == {r \in Runs : extractions[r] # NoExtraction}

(* precedente: the extraction of the last run created before this one.     *)
PreviousRun(run) ==
  CHOOSE r \in Extracted : /\ r < run
                           /\ \A s \in Extracted : s < run => s <= r
HasPrevious(run) == \E r \in Extracted : r < run
Previous(run) ==
  IF HasPrevious(run) THEN extractions[PreviousRun(run)] ELSE NoExtraction

NotReading ==
  [step |-> "idle", run |-> 0, rule |-> "none", text |-> NoText, calls |-> 0]

ExtractionTypes ==
  /\ texts \in [Runs -> Texts \cup {NoText, Purged}] /\ retaken \subseteq Runs
  /\ rule \in Rules \cup {"none"}
  /\ \A r \in Extracted :
       /\ extractions[r].rule \in Rules /\ extractions[r].text \in Texts
       /\ extractions[r].reused \in BOOLEAN
  /\ reading \in [Readers ->
       [step : {"idle", "prepare", "call"}, run : Runs \cup {0},
        rule : Rules \cup {"none"}, text : Texts \cup {NoText},
        calls : 0..(Delays + 1)]]
  /\ readings \in 0..MaxReadings /\ tagged \in 0..MaxTags

ExtractionInit ==
  /\ texts = [r \in Runs |-> NoText] /\ retaken = {}
  /\ rule = "catalogue"
  /\ extractions = [r \in Runs |-> NoExtraction]
  /\ reading = [w \in Readers |-> NotReading]
  /\ readings = 0 /\ tagged = 0

(* _execute_capture commits the text of the page, then comes here: the     *)
(* tags are those that the target had when the session loaded it.          *)
TakeCapture(w, run, text) ==
  /\ reading[w].step = "idle" /\ readings < MaxReadings
  /\ texts[run] # Purged
  /\ readings' = readings + 1
  /\ texts' = [texts EXCEPT ![run] = text]
  /\ retaken' = IF texts[run] = NoText THEN retaken ELSE retaken \cup {run}
  /\ reading' = [reading EXCEPT
       ![w] = [step |-> "prepare", run |-> run, rule |-> rule, text |-> text,
               calls |-> 0]]
  /\ UNCHANGED <<rule, extractions, tagged>>

Finish(w) == reading' = [reading EXCEPT ![w] = NotReading]

(* Run "run" keeps the extraction it has, whatever its text is now (deja). *)
AlreadyDone(w) == extractions[reading[w].run] # NoExtraction
(* Mutant: a reuse that does not look at the text.                         *)
SamePageByRule(w) == Previous(reading[w].run).rule = reading[w].rule
SamePage(w) == LET before == Previous(reading[w].run)
               IN /\ before.rule = reading[w].rule
                  /\ before.text = reading[w].text

NothingToExtract(w) ==
  /\ reading[w].step = "prepare"
  /\ reading[w].rule = "none" \/ reading[w].text = Blank \/ AlreadyDone(w)
  /\ Finish(w)
  /\ UNCHANGED <<texts, retaken, rule, extractions, readings, tagged>>

Reuse(w) ==
  /\ reading[w].step = "prepare"
  /\ reading[w].rule # "none" /\ reading[w].text # Blank /\ ~ AlreadyDone(w)
  /\ HasPrevious(reading[w].run) /\ SamePage(w)
  /\ extractions' = [extractions EXCEPT
       ![reading[w].run] = Reused(Previous(reading[w].run))]
  /\ Finish(w)
  /\ UNCHANGED <<texts, retaken, rule, readings, tagged>>

Ask(w) ==
  /\ reading[w].step = "prepare"
  /\ reading[w].rule # "none" /\ reading[w].text # Blank /\ ~ AlreadyDone(w)
  /\ ~ (HasPrevious(reading[w].run) /\ SamePage(w))
  /\ reading' = [reading EXCEPT
       ![w] = [@ EXCEPT !.step = "call", !.calls = 1]]
  /\ UNCHANGED <<texts, retaken, rule, extractions, readings, tagged>>

(* _appeler_gemini: a busy provider is asked again after a delay.          *)
AskAgain(w) ==
  /\ reading[w].step = "call" /\ reading[w].calls <= Delays
  /\ reading' = [reading EXCEPT ![w].calls = @ + 1]
  /\ UNCHANGED <<texts, retaken, rule, extractions, readings, tagged>>

(* Refused, cut at max_tokens, unreachable: the capture goes on without an *)
(* extraction; a crash of the worker leaves none either.                   *)
GiveUp(w) ==
  /\ reading[w].step = "call"
  /\ Finish(w)
  /\ UNCHANGED <<texts, retaken, rule, extractions, readings, tagged>>

(* _enregistrer and the commit.  uq_page_extractions_run_id refuses the    *)
(* extraction of a run that another worker has extracted meanwhile.        *)
Store(w, answer) ==
  /\ reading[w].step = "call"
  /\ extractions' =
       IF AlreadyDone(w) THEN extractions
       ELSE [extractions EXCEPT ![reading[w].run] =
               Extraction(reading[w].rule, reading[w].text, answer)]
  /\ Finish(w)
  /\ UNCHANGED <<texts, retaken, rule, readings, tagged>>

(* update_target.                                                          *)
ChangeTags(r) ==
  /\ tagged < MaxTags /\ tagged' = tagged + 1
  /\ rule' = r
  /\ UNCHANGED <<texts, retaken, extractions, reading, readings>>

(* purge_expired_runs: the extraction goes with its run.                   *)
PurgeRun(run) ==
  /\ texts[run] \in Texts /\ \A w \in Readers : reading[w].run # run
  /\ \A r \in Runs : r < run => texts[r] \notin Texts
  /\ extractions' = [extractions EXCEPT ![run] = NoExtraction]
  /\ texts' = [texts EXCEPT ![run] = Purged]
  /\ retaken' = retaken \ {run}
  /\ UNCHANGED <<rule, reading, readings, tagged>>

ExtractionNext ==
  \/ \E w \in Readers :
       \/ \E run \in Runs, text \in Texts : TakeCapture(w, run, text)
       \/ NothingToExtract(w) \/ Reuse(w) \/ Ask(w) \/ AskAgain(w) \/ GiveUp(w)
       \/ \E answer \in Answers : Store(w, answer)
  \/ \E r \in Rules \cup {"none"} : ChangeTags(r)
  \/ \E run \in Runs : PurgeRun(run)

ExtractionSpec == ExtractionInit /\ [][ExtractionNext]_extractionVars

-------------------------------------------------------------------------------
(* extraction_diff.comparer, on the rows of two extractions.  _index: the  *)
(* first row of each key.                                                  *)
KeyField(r, line) == KeyOf[line[CLES[r]]]
KeysOf(r, lines) == {KeyField(r, lines[i]) : i \in 1..Len(lines)} \ {""}
FirstOf(r, lines, key) ==
  CHOOSE i \in 1..Len(lines) :
    /\ KeyField(r, lines[i]) = key
    /\ \A j \in 1..Len(lines) : KeyField(r, lines[j]) = key => i <= j
Index(r, lines) == [k \in KeysOf(r, lines) |-> lines[FirstOf(r, lines, k)]]

Event(type, key) == [type |-> type, key |-> key]

Differ(a, b, f) == a[f] # Null /\ b[f] # Null /\ a[f] # b[f]
CatalogueEvents == {"prix_change", "promo_debut", "promo_fin",
                     "prix_barre_change", "rupture", "retour_stock"}
Happens(type, a, b) ==
  CASE type = "prix_change" -> Differ(a, b, "prix")
    [] type = "promo_debut" -> a.prix_barre = Null /\ b.prix_barre # Null
    [] type = "promo_fin" -> /\ a.prix_barre # Null /\ b.prix_barre = Null
                             /\ b.prix # Null
    [] type = "prix_barre_change" -> Differ(a, b, "prix_barre")
    [] type = "rupture" -> a.en_stock = "yes" /\ b.en_stock = "no"
    [] type = "retour_stock" -> a.en_stock = "no" /\ b.en_stock = "yes"

(* Mutant: the comparison of the current price alone.                      *)
RowEventsOfPrice(r, key, a, b) ==
  {Event("prix_change", key) :
     f \in {g \in {"prix", "prix_mensuel"} \cap DOMAIN a : Differ(a, b, g)}}

(* _comparer_catalogue and _comparer_tarifs, for a row on both sides.      *)
RowEvents(r, key, a, b) ==
  IF r = "catalogue"
  THEN {Event(type, key) : type \in {t \in CatalogueEvents : Happens(t, a, b)}}
  ELSE {Event("prix_change", key) :
          f \in {g \in {"prix_mensuel", "prix_annuel"} : Differ(a, b, g)}}

(* SEUIL_DISPARITION_SUSPECTE.                                             *)
Suspicious(before, after) ==
  /\ Cardinality(before) >= 3
  /\ after = {} \/ 5 * Cardinality(before \ after) >= 4 * Cardinality(before)

Comparer(r, before, after) ==
  LET ia == Index(r, before)
      ib == Index(r, after)
      ka == DOMAIN ia
      kb == DOMAIN ib
  IN IF r = "editorial" THEN {Event("annonce", k) : k \in kb \ ka}
     ELSE IF Suspicious(ka, kb) THEN {Event("lecture_suspecte", "Page")}
     ELSE {Event("ajout", k) : k \in kb \ ka}
            \cup {Event("retrait", k) : k \in ka \ kb}
            \cup UNION {RowEvents(r, k, ia[k], ib[k]) : k \in ka \cap kb}

(* _alertes_extraction: the extractions that a run compares.  Its call     *)
(* fails on an argument comparer does not have, and nothing is sent.       *)
Compared == {r \in Extracted : /\ ~ extractions[r].reused /\ HasPrevious(r)
                               /\ Previous(r).rule = extractions[r].rule}

-------------------------------------------------------------------------------
(* What the database says of a page comes from that page.  Whatever the    *)
(* model answers, and along a chain of reuses: the names of the rows are   *)
(* in the text of the run, no row lacks its required field, the text is    *)
(* that of the run unless the run was executed again, and of a line that   *)
(* raised no anomaly nothing is lost: it is there with the names that were *)
(* answered and what its numbers and dates were converted to.  That these  *)
(* are the numbers of the page is not said: a conversion may change them.  *)
ExtractionsAreFaithful ==
  \A r \in Extracted :
    LET e == extractions[r]
        fields == Fields[e.rule]
    IN /\ \A i \in 1..Len(e.lines), f \in DOMAIN fields :
            /\ fields[f].required => e.lines[i][f] # Null
            /\ fields[f].verifiable /\ e.lines[i][f] # Null =>
                 e.lines[i][f] \in Words[texts[r]] \/ r \in retaken
       /\ e.text = texts[r] \/ r \in retaken
       /\ e.truncated = (e.text \in LongTexts)
       /\ ~ e.reused =>
            \A n \in 1..Len(Read(e.answer)) :
              \/ n \in e.anomalies
              \/ \E i \in 1..Len(e.lines) : \A f \in DOMAIN fields :
                   LET answered == Get(e.answer[n], f)
                       type == fields[f].type
                   IN \/ type = "boolean"
                      \/ /\ e.lines[i][f] = Convert(type, answered)
                         /\ answered # Null => e.lines[i][f] # Null

(* The events tell what became of the page: with the rows of before they   *)
(* give the products of after, silence means that what was read on both    *)
(* sides is equal, and a value that was not read makes no change of price  *)
(* ("un prix inconnu d un cote (null) n est pas une variation").           *)
ComparisonIsSound ==
  \A r \in Compared :
    LET x == extractions[r].rule
        before == Index(x, Previous(r).lines)
        after == Index(x, extractions[r].lines)
        events == Comparer(x, Previous(r).lines, extractions[r].lines)
        Of(type) == {e.key : e \in {d \in events : d.type = type}}
    IN IF Event("lecture_suspecte", "Page") \in events
       THEN /\ events = {Event("lecture_suspecte", "Page")}
            /\ 5 * Cardinality(DOMAIN before \cap DOMAIN after)
                 <= Cardinality(DOMAIN before)
       ELSE IF x = "editorial"
       THEN Of("annonce") = DOMAIN after \ DOMAIN before
       ELSE /\ DOMAIN after =
                 (DOMAIN before \ Of("retrait")) \cup Of("ajout")
            /\ Of("ajout") \cap DOMAIN before = {}
            /\ \A k \in DOMAIN before \cap DOMAIN after :
                 /\ \A f \in DOMAIN before[k] :
                      Differ(before[k], after[k], f) =>
                        f = CLES[x] \/ \E e \in events : e.key = k
                 /\ k \in Of("prix_change") =>
                      \E f \in {"prix", "prix_mensuel", "prix_annuel"}
                              \cap DOMAIN before[k] :
                        Differ(before[k], after[k], f)

===============================================================================
