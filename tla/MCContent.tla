------------------------------- MODULE MCContent -------------------------------
(***************************************************************************)
(* A small instance of each of the five parts.                             *)
(***************************************************************************)
EXTENDS Content, TLC

(* Three pages: one without text, a catalogue, and a catalogue too long to *)
(* be read whole.  "LYNX" and "Lynx" are one product.                      *)
MCWords ==
  [t \in {"blank", "spring", "long"} |->
     CASE t = "blank" -> {}
       [] t = "spring" -> {"Lynx", "Buck", "Hawk"}
       [] t = "long" -> {"LYNX", "Wolf"}]
MCKeyOf ==
  [n \in {"Lynx", "LYNX", "Buck", "Hawk", "Wolf"} |->
     IF n = "LYNX" THEN "Lynx" ELSE n]

Product(name, price, struck, stock) ==
  [modele |-> name, prix |-> price, prix_barre |-> struck, en_stock |-> stock]
Plan(name, month, year) ==
  [forfait |-> name, prix_mensuel |-> month, prix_annuel |-> year]
Announce(title) == [titre |-> title, date_publication |-> "yesterday"]
(* "10 or 12" and "2 for 30" lose their words, without an anomaly.         *)
MCConverted ==
  [number |-> [v \in {"10", "$10", "12", "15", "20", "25", "30", "10 or 12",
                      "2 for 30"} |->
                 CASE v = "$10" -> "10"
                   [] v = "10 or 12" -> "1012"
                   [] v = "2 for 30" -> "230"
                   [] OTHER -> v],
   boolean |-> [v \in {"yes", "no", "in stock"} |->
                  IF v = "in stock" THEN "yes" ELSE v],
   date |-> [v \in {"2026-01-31", "31/01/2026"} |-> "2026-01-31"]]

(* Right, wrong, altered and unreadable values, invented products, the     *)
(* fields of another rule, a line that is not an object, one line too many.*)
MCAnswers ==
  {Unreadable,
   <<Product("Lynx", "$10", Null, "in stock"), Product("Buck", "20", "25", "yes"),
     Product("Hawk", "2 for 30", Null, "sold out?")>>,
   <<Product("LYNX", "12", "15", "no"), Product("Ghost", "10", Null, Null),
     NotAnObject, Product("Lynx", "10", Null, Null)>>,
   <<Product("Lynx", "on request", Null, "no"),
     Product("LYNX", "10 or 12", Null, "yes"), Announce("Wolf")>>,
   <<Announce("Lynx"), Announce("Wolf"), Plan("Lynx", "10", "20")>>,
   <<Plan("Lynx", "12", Null)>>}

(* Two tables: a product listed twice, a page listed twice, an excluded    *)
(* marketplace; another product at the same rank.                          *)
Listed(url, market, name) == [url |-> url, market |-> market, name |-> name]
MCRawLinks ==
  <<<<Listed("a1", "Amazon", "Lynx"), Listed("a2", "Amazon", "Lynx"),
      Listed("w1", "Walmart", "Lynx"), Listed("w1", "Walmart", "Buck"),
      Listed("x1", "Academy", "Lynx")>>,
    <<Listed("w2", "Walmart", "Buck")>>>>
MCRawRows == <<<<"Lynx", "Lynx">>, <<>>>>

MCSymmetry == Permutations(Readers) \cup Permutations(Rollbacks)

MCBackupOptions == {{}, {"secrets", "captures"}}
MCRestoreOptions == {{}, {"env", "secrets", "captures"}}

===============================================================================
