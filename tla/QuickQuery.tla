----------------------------- MODULE QuickQuery -----------------------------
(***************************************************************************)
(* The quick query of a metrics query form: an expression (the DSL) that a *)
(* script mirrors into the form's SQL editor, and the handlers that the    *)
(* form is sent to (ui/templates/quickquery.templ, ui/metrics.go,          *)
(* ui/dashboards.go).                                                      *)
(*                                                                         *)
(* Typing arms a debounce timer; when it fires, the text is copied to the  *)
(* hidden field the form submits and sent to be compiled.  Answers arrive  *)
(* in any order and are not cancelled.  Editing the SQL by hand detaches   *)
(* the expression.  The server compiles a submitted expression again and   *)
(* stores that SQL, not the one in the form.                               *)
(*                                                                         *)
(* A text is one of Exprs (it parses), Broken (it does not), or empty.  An *)
(* SQL query is named by the expression it was compiled from and by the    *)
(* services that were known then, which count for the expressions in       *)
(* Pivots ("by service") and without which these do not compile; SQL       *)
(* written by hand by the text "hand".                                     *)
(***************************************************************************)
EXTENDS Naturals, FiniteSets

CONSTANTS
    Exprs,        \* expressions that parse
    Pivots,       \* those whose SQL lists the services
    Broken,       \* texts that do not parse
    MaxEdits,     \* bound on the edits of one form
    MaxFetches,   \* bound on the compile requests under way
    MaxForms,     \* bound on the forms opened or rendered again
    MaxServices   \* bound on the services that report metrics

ASSUME QuickQueryAssumption ==
    /\ Pivots \subseteq Exprs
    /\ Exprs \cap Broken = {}
    /\ {"", "hand"} \cap (Exprs \cup Broken) = {}
    /\ MaxServices \in Nat

VARIABLES
    at,            \* the form: "closed", "panel" (editing the panel), "explorer"
    doc,           \* the text in the DSL editor
    hidden,        \* the form's hidden field dsl
    sql,           \* the SQL editor
    timer,         \* whether compileTimer is armed
    mode,          \* "builder" or "text", kept in localStorage
    built,         \* the expression the builder's fields describe
    populateNext,  \* populateBuilderNext
    fetches,       \* compile requests and answers under way
    ran,           \* the explorer's results: what "Save as panel" would send
    posted,        \* the panel form on its way to the server
    panel,         \* the panel as stored
    knownServices, \* how many services report metrics
    shown,         \* history: what the editors showed when the query left the form
    missed,        \* history: the server could not compile the expression, or its
                   \* answer was lost, or came for a text no longer shown
    edits,         \* number of edits in this form
    forms          \* number of forms rendered

editor == <<doc, hidden, sql, timer, mode, built, populateNext, fetches, missed, edits>>
vars == <<editor, at, ran, posted, panel, knownServices, shown, forms>>

Texts == Exprs \cup Broken \cup {""}
None == [dsl |-> "none", query |-> [of |-> "none", services |-> 0]]
Hand(n) == [of |-> "hand", services |-> n]
Snippet == Hand(0)

Panel(dsl, query) == [dsl |-> dsl, query |-> query]

\* The services a handler finds; none if the query for them fails.
servicesForMetric == {0, knownServices}

\* Parsing and compiling: a pivot without services is an error.
compiles(e, n) == e \in Exprs /\ (e \in Pivots => n > 0)
SQL(e, n) == [of |-> e, services |-> IF e \in Pivots THEN n ELSE 0]

Nothing == [text |-> "", sql |-> Snippet, settled |-> FALSE, saved |-> FALSE]

\* A panel stored earlier, with an expression or without.
Init ==
    /\ at = "closed"
    /\ knownServices \in 0..MaxServices
    /\ \/ panel = Panel("", Snippet)
       \/ \E e \in Exprs, n \in 1..MaxServices : panel = Panel(e, SQL(e, n))
    /\ doc = "" /\ hidden = "" /\ sql = Snippet /\ timer = FALSE
    /\ mode = "builder" /\ built = "" /\ populateNext = FALSE
    /\ fetches = {} /\ ran = None /\ posted = None
    /\ shown = Nothing
    /\ missed = FALSE /\ edits = 0 /\ forms = 0

-----------------------------------------------------------------------------
(* The script of a form *)

Fetch(text, why) == [text |-> text, why |-> why, answer |-> "none", sql |-> Snippet]

\* A form is rendered with an expression and an SQL query: the script mounts
\* on it, and asks for the parts of the expression to fill the builder.  (ok: the
\* query is the expression's, not one the server kept as it could not compile.)
Mount(e, query, ok) ==
    /\ forms < MaxForms
    /\ forms' = forms + 1
    /\ doc' = e /\ hidden' = e /\ sql' = query
    /\ timer' = FALSE /\ built' = "" /\ populateNext' = FALSE
    /\ fetches' = IF e = "" THEN {} ELSE {Fetch(e, "mount")}
    /\ missed' = ~ok /\ edits' = 0
    /\ UNCHANGED mode

\* The form leaves the page, and its script with it.
Unmount ==
    /\ at' = "closed"
    /\ doc' = "" /\ hidden' = "" /\ sql' = Snippet
    /\ timer' = FALSE /\ built' = "" /\ populateNext' = FALSE /\ fetches' = {}
    /\ missed' = FALSE /\ edits' = 0
    /\ UNCHANGED <<mode, forms>>

Edit ==
    /\ at # "closed" /\ edits < MaxEdits
    /\ edits' = edits + 1
    /\ UNCHANGED <<at, mode, fetches, ran, posted, panel, knownServices, shown, missed, forms>>

\* The editor's document changes; its listener starts the debounce anew.
setDoc(text) == doc' = text /\ timer' = TRUE

\* The expression no longer stands for the SQL.
detach ==
    /\ hidden' = "" /\ built' = ""
    /\ doc' = "" /\ timer' = (doc # "")

TypeDSL(text) ==
    /\ mode = "text" /\ text # doc
    /\ Edit /\ setDoc(text)
    /\ UNCHANGED <<hidden, sql, built, populateNext>>

\* A field of the builder changes.
syncFromBuilder(e) ==
    /\ mode = "builder" /\ e # built
    /\ Edit
    /\ built' = e
    /\ IF e = doc THEN UNCHANGED <<doc, timer>> ELSE setDoc(e)
    /\ UNCHANGED <<hidden, sql, populateNext>>

\* An example: its SQL goes to the SQL editor, its expression to the DSL
\* editor; without an expression it detaches.
ChipDSL(e) ==
    /\ Edit
    /\ sql' = Snippet /\ setDoc(e) /\ populateNext' = TRUE
    /\ UNCHANGED <<hidden, built>>

ChipSQL == Edit /\ sql' = Snippet /\ detach /\ UNCHANGED populateNext

\* pooml:user-edit
EditSQL == Edit /\ sql' = Hand(1) /\ sql # Hand(1) /\ detach /\ UNCHANGED populateNext

\* Variation of compile: the field is left to the answer.
compileLeavesField ==
    /\ timer
    /\ timer' = FALSE
    /\ \/ doc = "" /\ hidden' = "" /\ UNCHANGED fetches
       \/ /\ doc # "" /\ Cardinality(fetches) < MaxFetches
          /\ fetches' = fetches \cup {Fetch(doc, "compile")} /\ UNCHANGED hidden
    /\ UNCHANGED <<at, doc, sql, mode, built, populateNext, ran, posted, panel, knownServices,
                   shown, missed, edits, forms>>

\* The debounce timer fires.
compile ==
    /\ timer
    /\ timer' = FALSE
    /\ hidden' = doc
    /\ \/ doc = "" /\ UNCHANGED fetches
       \/ /\ doc # "" /\ Cardinality(fetches) < MaxFetches
          /\ fetches' = fetches \cup {Fetch(doc, "compile")}
    /\ UNCHANGED <<at, doc, sql, mode, built, populateNext, ran, posted, panel, knownServices,
                   shown, missed, edits, forms>>

applyMode(m) == mode' = m

\* Switching to the builder waits for the expression's parts.
SwitchMode ==
    /\ at # "closed" /\ edits < MaxEdits
    /\ edits' = edits + 1
    /\ \/ mode = "builder" /\ applyMode("text") /\ UNCHANGED fetches
       \/ mode = "text" /\ doc = "" /\ applyMode("builder") /\ UNCHANGED fetches
       \/ /\ mode = "text" /\ doc # "" /\ Cardinality(fetches) < MaxFetches
          /\ fetches' = fetches \cup {Fetch(doc, "switch")} /\ UNCHANGED mode
    /\ UNCHANGED <<at, doc, hidden, sql, timer, built, populateNext, ran, posted, panel,
                   knownServices, shown, missed, forms>>

\* The server answers /metrics-explorer/compile: with the SQL and the parts of
\* the expression, or with an error alone.
compileDSL(f) ==
    /\ f.answer = "none"
    /\ \E n \in servicesForMetric :
          fetches' = (fetches \ {f}) \cup
            {IF compiles(f.text, n) THEN [f EXCEPT !.answer = "sql", !.sql = SQL(f.text, n)]
             ELSE [f EXCEPT !.answer = "error"]}
    /\ UNCHANGED <<at, doc, hidden, sql, timer, mode, built, populateNext, ran, posted, panel,
                   knownServices, shown, missed, edits, forms>>

\* The answer is an error although the text is an expression.
uncompiled(f) == f.answer = "error" /\ f.text \in Exprs

\* Variation of Arrive: an example does not reach the builder.
ArriveWithoutParts(f) ==
    /\ f.answer # "none"
    /\ fetches' = fetches \ {f}
    /\ missed' = (missed \/ f.text # doc \/ uncompiled(f))
    /\ built' = IF f.answer = "sql" /\ f.why # "compile" THEN f.text ELSE built
    /\ populateNext' = (populateNext /\ (f.why # "compile" \/ f.answer = "error"))
    /\ sql' = IF f.answer = "sql" /\ f.why = "compile" THEN f.sql ELSE sql
    /\ mode' = IF f.answer = "sql" /\ f.why = "switch" THEN "builder" ELSE mode
    /\ UNCHANGED <<at, doc, hidden, timer, ran, posted, panel, knownServices, shown, edits, forms>>

\* Its answer arrives: the SQL editor gets what was compiled, whatever it
\* holds by now; the builder its parts, if it was asked for.
Arrive(f) ==
    /\ f.answer # "none"
    /\ fetches' = fetches \ {f}
    /\ missed' = (missed \/ f.text # doc \/ uncompiled(f))
    /\ built' = IF f.answer = "sql" /\ (f.why # "compile" \/ populateNext) THEN f.text ELSE built
    /\ populateNext' = (populateNext /\ (f.why # "compile" \/ f.answer = "error"))
    /\ sql' = IF f.answer = "sql" /\ f.why = "compile" THEN f.sql ELSE sql
    /\ mode' = IF f.answer = "sql" /\ f.why = "switch" THEN "builder" ELSE mode
    /\ UNCHANGED <<at, doc, hidden, timer, ran, posted, panel, knownServices, shown, edits, forms>>

\* The request fails; the script ignores it.
Lose(f) ==
    /\ fetches' = fetches \ {f}
    /\ missed' = TRUE
    /\ UNCHANGED <<at, doc, hidden, sql, timer, mode, built, populateNext, ran, posted, panel,
                   knownServices, shown, edits, forms>>

-----------------------------------------------------------------------------
(* The forms and their handlers *)

\* What leaves a form, and what its editors showed at that moment.
leaves == shown' = [text |-> doc, sql |-> sql, settled |-> ~timer, saved |-> FALSE]

\* GET /dashboards/{id}/panels/{pid}?edit=1
OpenPanel ==
    /\ at = "closed" /\ at' = "panel"
    /\ Mount(panel.dsl, panel.query, TRUE)
    /\ shown' = Nothing
    /\ UNCHANGED <<ran, posted, panel, knownServices>>

\* GET /metrics-explorer, without a query
OpenExplorer ==
    /\ at = "closed" /\ at' = "explorer"
    /\ Mount("", Snippet, TRUE)
    /\ ran' = None /\ shown' = Nothing
    /\ UNCHANGED <<posted, panel, knownServices>>

\* The panel form is submitted, by its button or by Enter in an editor.
SubmitPanel ==
    /\ at = "panel" /\ posted = None
    /\ posted' = Panel(hidden, sql)
    /\ leaves
    /\ UNCHANGED <<editor, at, ran, panel, knownServices, forms>>

\* Variation of applyPanelDSL: the SQL of the form is kept.
applyPanelDSLTrusting(p, n) == p

\* An expression's own SQL replaces the form's; one that does not compile is
\* refused, and the form's SQL stays.
applyPanelDSL(p, n) == IF compiles(p.dsl, n) THEN Panel(p.dsl, SQL(p.dsl, n)) ELSE p
refused(p, n) == p.dsl # "" /\ ~compiles(p.dsl, n)

\* PUT /dashboards/{id}/panels/{pid}: the card, or the form with a message,
\* because the expression was refused or the panel could not be stored.
updatePanel ==
    /\ posted # None
    /\ posted' = None
    /\ \E n \in servicesForMetric :
          \/ /\ ~refused(posted, n)
             /\ panel' = applyPanelDSL(posted, n)
             /\ Unmount /\ shown' = [shown EXCEPT !.saved = TRUE]
          \/ /\ Mount(posted.dsl, applyPanelDSL(posted, n).query, ~refused(posted, n))
             /\ UNCHANGED <<at, panel, shown>>
    /\ UNCHANGED <<ran, knownServices>>

\* Run: the explorer is loaded again with what the form held, its SQL replaced
\* by the expression's if that compiles.  Results, if there are any, come with a
\* form to save them.
renderExplorer ==
    /\ at = "explorer"
    /\ leaves
    /\ \E n \in servicesForMetric :
          LET form == Panel(hidden, sql)
              query == applyPanelDSL(form, n).query
          IN /\ Mount(hidden, query, ~refused(form, n))
             /\ ran' \in {None, Panel(hidden, query)}
    /\ UNCHANGED <<at, posted, panel, knownServices>>

\* "Save as panel".  When it is refused or fails, the page is rendered again
\* without the expression, which is read from the URL, where a POST has none:
\* from then on its SQL stands for itself.
saveExplorerPanel ==
    /\ at = "explorer" /\ ran # None
    /\ \E n \in servicesForMetric :
          \/ /\ ~refused(ran, n)
             /\ panel' = applyPanelDSL(ran, n)
             /\ Unmount /\ ran' = None /\ shown' = [shown EXCEPT !.saved = TRUE]
          \/ /\ LET query == applyPanelDSL(ran, n).query
                IN /\ Mount("", query, TRUE) /\ ran' \in {None, Panel("", query)}
                   /\ shown' = [text |-> "", sql |-> query, settled |-> TRUE, saved |-> FALSE]
             /\ UNCHANGED <<at, panel>>
    /\ UNCHANGED <<posted, knownServices>>

\* A service pushes metrics for the first time, or its last ones are swept away.
ServicesChange ==
    /\ knownServices' \in {knownServices - 1, knownServices + 1} \cap 0..MaxServices
    /\ UNCHANGED <<editor, at, ran, posted, panel, shown, forms>>

Next ==
    \/ OpenPanel \/ OpenExplorer \/ SubmitPanel \/ updatePanel \/ renderExplorer
    \/ saveExplorerPanel \/ ServicesChange
    \/ \E text \in Texts : TypeDSL(text)
    \/ \E e \in Exprs \cup {""} : syncFromBuilder(e)
    \/ \E e \in Exprs : ChipDSL(e)
    \/ ChipSQL \/ EditSQL \/ compile \/ SwitchMode
    \/ \E f \in fetches : compileDSL(f) \/ Arrive(f) \/ Lose(f)

Spec == Init /\ [][Next]_vars

-----------------------------------------------------------------------------
(* Properties *)

\* A panel that remembers an expression runs the SQL of that expression,
\* whatever the form held when it was saved (applyPanelDSL).
PanelMatchesDSL ==
    panel.dsl # "" => panel.dsl \in Exprs /\ panel.query.of = panel.dsl

kept(s) ==
    /\ s.text \in Exprs => panel.query.of = s.text
    /\ s.text = "" => panel.query = s.sql

\* What is saved after the debounce timer has fired is what the form showed:
\* the expression, or else the SQL (the hidden field follows the DSL editor,
\* also through detach, refused expressions, failed saves and answers that come
\* late).  A failed "Save as panel" shows a new form, with the SQL alone.
SettledSaveIsKept == (shown.saved /\ shown.settled) => kept(shown)

\* "a save inside the client's compile debounce can never persist stale SQL"
\* (ui/dashboards.go): what is saved is what the form showed, always.
NoStaleSave == shown.saved => kept(shown)

\* When the timer has fired and every answer has arrived, each with the compiled
\* SQL and while its text was still there, the SQL editor shows the expression's
\* SQL and the builder the expression, however the edits, answers and saves of
\* the form were interleaved.
MirrorsFollow ==
    (at # "closed" /\ ~timer /\ fetches = {} /\ ~missed /\ doc \in Exprs) =>
       /\ sql.of = doc
       /\ mode = "builder" => built = doc
=============================================================================
