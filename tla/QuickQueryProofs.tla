-------------------------- MODULE QuickQueryProofs --------------------------
(***************************************************************************)
(* Proofs about the quick query, for any expressions, any number of edits, *)
(* compile requests under way and services.                                *)
(*                                                                         *)
(* The inductive invariant is FormInv.  HiddenFollows and QueryUnderWay    *)
(* follow an expression from the editors through the hidden field and the  *)
(* request to the panel; Followed follows it from the DSL editor through   *)
(* the compile requests back to the SQL editor and the builder.            *)
(***************************************************************************)
EXTENDS QuickQuery, TLAPS

Queries == [of : Texts \cup {"hand", "none"}, services : Nat]
Panels == [dsl : Texts \cup {"none"}, query : Queries]
Fetches == [text : Texts, why : {"mount", "compile", "switch"},
            answer : {"none", "sql", "error"}, sql : Queries]

\* Types of the forms, the requests and the panel.
FormTypes ==
    /\ at \in {"closed", "panel", "explorer"}
    /\ doc \in Texts /\ hidden \in Texts
    /\ sql \in Queries
    /\ timer \in BOOLEAN /\ populateNext \in BOOLEAN /\ missed \in BOOLEAN
    /\ mode \in {"builder", "text"}
    /\ fetches \subseteq Fetches
    /\ ran \in Panels /\ (ran # None => ran.dsl \in Texts)
    /\ posted \in Panels /\ (posted # None => posted.dsl \in Texts)
    /\ panel \in Panels /\ panel.dsl \in Texts
    /\ knownServices \in Nat
    /\ shown \in [text : Texts, sql : Queries, settled : BOOLEAN, saved : BOOLEAN]

\* An answer with SQL is the SQL of its text.
AnswersMatch == \A f \in fetches : f.answer = "sql" => f.sql.of = f.text

\* The hidden field lags behind the editor only while the timer is armed.
HiddenFollows == ~timer => hidden = doc

\* A query is under way from the form that is open, and no other.
OneForm ==
    /\ posted # None => at = "panel"
    /\ ran # None => at = "explorer"

\* What a settled form sent is what it showed.
QueryUnderWay ==
    shown.settled =>
       /\ posted # None => posted.dsl = shown.text /\ posted.query = shown.sql
       /\ ran # None => ran.dsl = shown.text /\ (shown.text = "" => ran.query = shown.sql)

\* A compile request for the text in the DSL editor is under way.
Asked(why) == \E f \in fetches : f.why \in why /\ f.text = doc

\* Unless an answer was missed, the SQL editor and the builder have followed the
\* expression or an answer that will make them is on its way.
Followed ==
    at # "closed" /\ ~missed /\ doc \in Exprs =>
       /\ ~timer => sql.of = doc \/ Asked({"compile"})
       /\ mode = "builder" =>
             \/ built = doc
             \/ Asked({"mount", "switch"})
             \/ populateNext /\ (timer \/ Asked({"compile"}))

FormInv ==
    /\ FormTypes /\ AnswersMatch /\ HiddenFollows /\ OneForm /\ QueryUnderWay
    /\ PanelMatchesDSL /\ SettledSaveIsKept /\ Followed

-----------------------------------------------------------------------------
(* The first state, and the facts about the pieces of a state.             *)

\* No text is the empty one and an expression, or broken and an expression.
LEMMA TextsDisjoint ==
    /\ "" \notin Exprs /\ "" \notin Broken /\ Exprs \cap Broken = {}
    /\ "" \in Texts /\ Exprs \subseteq Texts
  BY QuickQueryAssumption DEF Texts

\* The SQL of a text is a query that names it.
LEMMA SQLType ==
    ASSUME NEW e \in Texts, NEW n \in Nat
    PROVE  SQL(e, n) \in Queries /\ SQL(e, n).of = e
  BY DEF SQL, Queries

\* So is one written by hand.
LEMMA HandType == \A n \in Nat : Hand(n) \in Queries
  BY DEF Hand, Queries

\* Counts of services are naturals.
LEMMA ServicesNat == (\A n \in 1..MaxServices : n \in Nat) /\ (\A n \in 0..MaxServices : n \in Nat)
  <1>1. MaxServices \in Nat
    BY QuickQueryAssumption
  <1> QED
    BY <1>1

\* The first form is still to be opened, and the panel was stored earlier.
LEMMA FormInit == Init => FormInv
  <1> SUFFICES ASSUME Init PROVE FormInv
    OBVIOUS
  <1> USE TextsDisjoint DEF Init
  <1>1. panel \in Panels /\ panel.dsl \in Texts /\ PanelMatchesDSL
    <2>1. CASE panel = Panel("", Snippet)
      BY <2>1, HandType DEF Panel, Panels, Snippet, PanelMatchesDSL
    <2>2. ASSUME NEW e \in Exprs, NEW n \in 1..MaxServices, panel = Panel(e, SQL(e, n))
          PROVE  panel \in Panels /\ panel.dsl \in Texts /\ PanelMatchesDSL
      <3>1. SQL(e, n) \in Queries /\ SQL(e, n).of = e
        BY SQLType, ServicesNat
      <3> QED
        BY <2>2, <3>1 DEF Panel, Panels, PanelMatchesDSL
    <2> QED
      BY <2>1, <2>2
  <1>2. None \in Panels
    BY DEF None, Panels, Queries
  <1>3. Nothing \in [text : Texts, sql : Queries, settled : BOOLEAN, saved : BOOLEAN]
    BY HandType DEF Nothing, Snippet
  <1>4. timer \in BOOLEAN /\ populateNext \in BOOLEAN /\ missed \in BOOLEAN
    BY Zenon
  <1>5. FormTypes
    BY <1>1, <1>2, <1>3, <1>4, HandType, ServicesNat DEF FormTypes, Snippet
  <1>6. AnswersMatch /\ HiddenFollows /\ OneForm /\ QueryUnderWay /\ Followed
    BY DEF AnswersMatch, HiddenFollows, OneForm, QueryUnderWay, Followed
  <1>7. SettledSaveIsKept
    BY DEF SettledSaveIsKept, Nothing
  <1> QED
    BY <1>1, <1>5, <1>6, <1>7 DEF FormInv

-----------------------------------------------------------------------------
(* The script.  It leaves the panel and what is under way to it alone.     *)

Outside == <<ran, posted, panel, knownServices, shown>>

\* What a step inside a form has still to show.
LEMMA ScriptStep ==
    ASSUME FormInv, UNCHANGED <<Outside, at>>,
           doc' \in Texts, hidden' \in Texts, sql' \in Queries,
           timer' \in BOOLEAN, populateNext' \in BOOLEAN, missed' \in BOOLEAN,
           mode' \in {"builder", "text"}, fetches' \subseteq Fetches,
           AnswersMatch', HiddenFollows', Followed'
    PROVE  FormInv'
  <1> USE DEF Outside
  <1>1. FormTypes'
    BY DEF FormInv, FormTypes
  <1>2. OneForm' /\ QueryUnderWay'
    BY DEF FormInv, OneForm, QueryUnderWay
  <1>3. PanelMatchesDSL'
    BY DEF FormInv, PanelMatchesDSL
  <1>4. SettledSaveIsKept'
    BY DEF FormInv, SettledSaveIsKept, kept
  <1> QED
    BY <1>1, <1>2, <1>3, <1>4 DEF FormInv

\* Edits of either editor, of the builder, or by an example: the timer is armed,
\* or the expression is gone.
LEMMA EditStep ==
    ASSUME FormInv,
           \/ \E text \in Texts : TypeDSL(text)
           \/ \E e \in Exprs \cup {""} : syncFromBuilder(e)
           \/ \E e \in Exprs : ChipDSL(e)
           \/ ChipSQL \/ EditSQL
    PROVE  FormInv'
  <1> USE TextsDisjoint DEF Edit, setDoc, Outside
  <1>a. FormTypes /\ AnswersMatch /\ HiddenFollows /\ Followed
    BY DEF FormInv
  <1>h. Snippet \in Queries /\ Hand(1) \in Queries
    BY HandType DEF Snippet
  <1>1. ASSUME NEW text \in Texts, TypeDSL(text) PROVE FormInv'
    <2>1. AnswersMatch' /\ HiddenFollows' /\ Followed'
      BY <1>1, <1>a DEF TypeDSL, AnswersMatch, HiddenFollows, Followed
    <2>2. timer' \in BOOLEAN
      BY <1>1, Zenon DEF TypeDSL
    <2> QED
      BY <1>1, <1>a, <2>1, <2>2, ScriptStep DEF TypeDSL, FormTypes
  <1>2. ASSUME NEW e \in Exprs \cup {""}, syncFromBuilder(e) PROVE FormInv'
    <2>1. AnswersMatch' /\ HiddenFollows'
      BY <1>2, <1>a DEF syncFromBuilder, AnswersMatch, HiddenFollows
    <2>2. Followed'
      BY <1>2, <1>a DEF syncFromBuilder, Followed, Asked
    <2>3. timer' \in BOOLEAN
      BY <1>2, <1>a, Zenon DEF syncFromBuilder, FormTypes
    <2> QED
      BY <1>2, <1>a, <2>1, <2>2, <2>3, ScriptStep DEF syncFromBuilder, FormTypes
  <1>3. ASSUME NEW e \in Exprs, ChipDSL(e) PROVE FormInv'
    <2>1. AnswersMatch' /\ HiddenFollows' /\ Followed'
      BY <1>3, <1>a DEF ChipDSL, AnswersMatch, HiddenFollows, Followed
    <2>2. timer' \in BOOLEAN /\ populateNext' \in BOOLEAN
      BY <1>3, Zenon DEF ChipDSL
    <2> QED
      BY <1>3, <1>a, <1>h, <2>1, <2>2, ScriptStep DEF ChipDSL, FormTypes
  <1>4. ASSUME ChipSQL \/ EditSQL PROVE FormInv'
    <2> USE DEF ChipSQL, EditSQL, detach
    <2>1. AnswersMatch' /\ HiddenFollows' /\ Followed'
      BY <1>4, <1>a DEF AnswersMatch, HiddenFollows, Followed
    <2>2. timer' \in BOOLEAN
      BY <1>4, Zenon
    <2> QED
      BY <1>4, <1>a, <1>h, <2>1, <2>2, ScriptStep DEF FormTypes
  <1> QED
    BY <1>1, <1>2, <1>3, <1>4

\* A request that has just been sent has no answer yet.
LEMMA FetchType ==
    ASSUME NEW text \in Texts, NEW why \in {"mount", "compile", "switch"}
    PROVE  /\ Fetch(text, why) \in Fetches
           /\ Fetch(text, why).text = text /\ Fetch(text, why).why = why
           /\ Fetch(text, why).answer = "none"
  BY HandType DEF Fetch, Fetches, Snippet

\* The timer fires: the field follows the editor, and the text is sent.
LEMMA CompileStep == FormInv /\ compile => FormInv'
  <1> SUFFICES ASSUME FormInv, compile PROVE FormInv'
    OBVIOUS
  <1> USE TextsDisjoint DEF compile, Outside
  <1>a. FormTypes /\ AnswersMatch /\ Followed
    BY DEF FormInv
  <1> DEFINE n == Fetch(doc, "compile")
  <1>1. n \in Fetches /\ n.text = doc /\ n.why = "compile" /\ n.answer = "none"
    BY <1>a, FetchType DEF FormTypes
  <1>2. /\ doc = "" => fetches' = fetches
        /\ doc # "" => fetches' = fetches \cup {n}
    OBVIOUS
  <1> HIDE DEF n
  <1>3. fetches' \subseteq Fetches /\ AnswersMatch' /\ HiddenFollows'
    BY <1>a, <1>1, <1>2 DEF FormTypes, AnswersMatch, HiddenFollows
  <1>4. Followed'
    BY <1>a, <1>1, <1>2 DEF Followed, Asked
  <1>5. timer' \in BOOLEAN
    BY Zenon
  <1> QED
    BY <1>a, <1>3, <1>4, <1>5, ScriptStep DEF FormTypes

\* Switching between text and builder.
LEMMA SwitchStep == FormInv /\ SwitchMode => FormInv'
  <1> SUFFICES ASSUME FormInv, SwitchMode PROVE FormInv'
    OBVIOUS
  <1> USE TextsDisjoint DEF SwitchMode, applyMode, Outside
  <1>a. FormTypes /\ AnswersMatch /\ HiddenFollows /\ Followed
    BY DEF FormInv
  <1> DEFINE n == Fetch(doc, "switch")
  <1>1. n \in Fetches /\ n.text = doc /\ n.why = "switch" /\ n.answer = "none"
    BY <1>a, FetchType DEF FormTypes
  <1>2. /\ fetches' = fetches \/ fetches' = fetches \cup {n}
        /\ mode' = mode \/ mode' = "text" \/ doc = ""
        /\ mode' \in {"builder", "text"}
    BY <1>a DEF FormTypes
  <1> HIDE DEF n
  <1>3. fetches' \subseteq Fetches /\ AnswersMatch' /\ HiddenFollows'
    BY <1>a, <1>1, <1>2 DEF FormTypes, AnswersMatch, HiddenFollows
  <1>4. Followed'
    BY <1>a, <1>1, <1>2 DEF Followed, Asked
  <1> QED
    BY <1>a, <1>2, <1>3, <1>4, ScriptStep DEF FormTypes

\* The server answers a request: with its SQL, or with an error.
LEMMA AnswerStep ==
    ASSUME FormInv, NEW f \in fetches, compileDSL(f)
    PROVE  FormInv'
  <1> USE DEF compileDSL, Outside
  <1>a. FormTypes /\ AnswersMatch /\ HiddenFollows /\ Followed
    BY DEF FormInv
  <1>b. f \in Fetches
    BY <1>a DEF FormTypes
  <1>1. PICK g : /\ g \in Fetches /\ g.text = f.text /\ g.why = f.why
                 /\ g.answer = "sql" => g.sql.of = g.text
                 /\ fetches' = (fetches \ {f}) \cup {g}
    <2>1. PICK n \in servicesForMetric :
             fetches' = (fetches \ {f}) \cup
               {IF compiles(f.text, n) THEN [f EXCEPT !.answer = "sql", !.sql = SQL(f.text, n)]
                ELSE [f EXCEPT !.answer = "error"]}
      OBVIOUS
    <2>2. SQL(f.text, n) \in Queries /\ SQL(f.text, n).of = f.text
      BY <1>a, <1>b, SQLType DEF FormTypes, Fetches, servicesForMetric
    <2>3. CASE compiles(f.text, n)
      BY <2>1, <2>2, <2>3, <1>b DEF Fetches
    <2>4. CASE ~compiles(f.text, n)
      BY <2>1, <2>4, <1>b DEF Fetches
    <2> QED
      BY <2>3, <2>4
  <1>2. fetches' \subseteq Fetches /\ AnswersMatch' /\ HiddenFollows'
    BY <1>a, <1>1 DEF FormTypes, AnswersMatch, HiddenFollows
  <1>3. Asked({"compile"}) => Asked({"compile"})'
    BY <1>1 DEF Asked
  <1>4. Asked({"mount", "switch"}) => Asked({"mount", "switch"})'
    BY <1>1 DEF Asked
  <1>5. Followed'
    BY <1>a, <1>3, <1>4 DEF Followed
  <1> QED
    BY <1>a, <1>2, <1>5, ScriptStep DEF FormTypes

\* An answer arrives for the text that is shown, or is counted as missed.
LEMMA ArriveStep ==
    ASSUME FormInv, NEW f \in fetches, Arrive(f)
    PROVE  FormInv'
  <1> USE DEF Arrive, Outside
  <1>a. FormTypes /\ AnswersMatch /\ HiddenFollows /\ Followed
    BY DEF FormInv
  <1>b. f \in Fetches
    BY <1>a DEF FormTypes
  <1>1. /\ fetches' \subseteq Fetches /\ sql' \in Queries /\ mode' \in {"builder", "text"}
        /\ AnswersMatch' /\ HiddenFollows'
    BY <1>a, <1>b DEF FormTypes, AnswersMatch, HiddenFollows, Fetches
  <1>2. populateNext' \in BOOLEAN /\ missed' \in BOOLEAN
    BY Zenon
  <1>3. Followed'
    <2> SUFFICES ASSUME at # "closed", ~missed', doc \in Exprs
                 PROVE  /\ ~timer => sql'.of = doc \/ Asked({"compile"})'
                        /\ mode' = "builder" =>
                              \/ built' = doc
                              \/ Asked({"mount", "switch"})'
                              \/ populateNext' /\ (timer \/ Asked({"compile"})')
      BY DEF Followed
    <2>1. ~missed /\ f.text = doc
      OBVIOUS
    <2>2. f.answer = "sql" /\ f.sql.of = doc
      BY <2>1, <1>a, <1>b DEF AnswersMatch, Fetches, uncompiled
    <2>3. CASE f.why = "compile"
      <3>1. sql'.of = doc /\ mode' = mode
        BY <2>2, <2>3
      <3>2. populateNext => built' = doc
        BY <2>1, <2>2, <2>3
      <3>3. ~populateNext => built' = built
        BY <2>3
      <3>4. Asked({"mount", "switch"}) => Asked({"mount", "switch"})'
        BY <2>3 DEF Asked
      <3> QED
        BY <3>1, <3>2, <3>3, <3>4, <2>1, <1>a DEF Followed
    <2>4. CASE f.why # "compile"
      <3>1. sql' = sql /\ built' = doc
        BY <2>1, <2>2, <2>4
      <3>2. Asked({"compile"}) => Asked({"compile"})'
        BY <2>4 DEF Asked
      <3> QED
        BY <3>1, <3>2, <2>1, <1>a DEF Followed
    <2> QED
      BY <2>3, <2>4
  <1> QED
    BY <1>a, <1>1, <1>2, <1>3, ScriptStep DEF FormTypes

\* A compile request that fails: nothing is shown.
LEMMA LoseStep ==
    ASSUME FormInv, NEW f \in fetches, Lose(f)
    PROVE  FormInv'
  <1> USE DEF Lose, Outside
  <1>a. FormTypes /\ AnswersMatch /\ HiddenFollows
    BY DEF FormInv
  <1>1. fetches' \subseteq Fetches /\ AnswersMatch' /\ HiddenFollows' /\ Followed'
    BY <1>a DEF FormTypes, AnswersMatch, HiddenFollows, Followed
  <1>2. missed' \in BOOLEAN
    BY Zenon
  <1> QED
    BY <1>a, <1>1, <1>2, ScriptStep DEF FormTypes

-----------------------------------------------------------------------------
(* The forms and their handlers *)

\* A form is rendered with an expression and that expression's SQL, or without
\* an expression, or the server could not compile it: everything that is about
\* the editors holds anew.
LEMMA MountStep ==
    ASSUME FormInv, NEW e \in Texts, NEW query \in Queries, NEW ok \in BOOLEAN,
           Mount(e, query, ok), ok /\ e \in Exprs => query.of = e
    PROVE  /\ doc' \in Texts /\ hidden' \in Texts /\ sql' \in Queries
           /\ timer' \in BOOLEAN /\ populateNext' \in BOOLEAN /\ missed' \in BOOLEAN
           /\ mode' \in {"builder", "text"} /\ fetches' \subseteq Fetches
           /\ AnswersMatch' /\ HiddenFollows' /\ Followed'
  <1> USE TextsDisjoint DEF Mount
  <1> DEFINE n == Fetch(e, "mount")
  <1>1. n \in Fetches /\ n.text = e /\ n.why = "mount" /\ n.answer = "none"
    BY FetchType
  <1>2. fetches' = IF e = "" THEN {} ELSE {n}
    OBVIOUS
  <1> HIDE DEF n
  <1>3. timer' \in BOOLEAN /\ populateNext' \in BOOLEAN /\ missed' \in BOOLEAN
    BY Zenon
  <1>4. mode' \in {"builder", "text"}
    BY DEF FormInv, FormTypes
  <1>5. AnswersMatch' /\ HiddenFollows'
    BY <1>1, <1>2 DEF AnswersMatch, HiddenFollows
  <1>6. Followed'
    BY <1>1, <1>2 DEF Followed, Asked
  <1> QED
    BY <1>1, <1>2, <1>3, <1>4, <1>5, <1>6

\* A form that is gone has no editors.
LEMMA UnmountStep ==
    ASSUME FormInv, Unmount
    PROVE  /\ doc' \in Texts /\ hidden' \in Texts /\ sql' \in Queries
           /\ timer' \in BOOLEAN /\ populateNext' \in BOOLEAN /\ missed' \in BOOLEAN
           /\ mode' \in {"builder", "text"} /\ fetches' \subseteq Fetches
           /\ AnswersMatch' /\ HiddenFollows' /\ Followed'
  <1> USE TextsDisjoint DEF Unmount
  <1>1. timer' \in BOOLEAN /\ populateNext' \in BOOLEAN /\ missed' \in BOOLEAN
    BY Zenon
  <1>2. sql' \in Queries /\ mode' \in {"builder", "text"}
    BY HandType DEF FormInv, FormTypes, Snippet
  <1> QED
    BY <1>1, <1>2 DEF AnswersMatch, HiddenFollows, Followed

\* What the server stores for a form it accepts: the form's own SQL, or that of
\* the expression.
LEMMA Applied ==
    ASSUME FormInv, NEW p \in Panels, p.dsl \in Texts, NEW n \in servicesForMetric
    PROVE  /\ applyPanelDSL(p, n) \in Panels /\ applyPanelDSL(p, n).dsl = p.dsl
           /\ p.dsl = "" => applyPanelDSL(p, n) = p
           /\ p.dsl # "" /\ ~refused(p, n) =>
                 p.dsl \in Exprs /\ applyPanelDSL(p, n).query.of = p.dsl
           /\ applyPanelDSL(p, n).query \in Queries
           /\ refused(p, n) \in BOOLEAN
  <1>1. SQL(p.dsl, n) \in Queries /\ SQL(p.dsl, n).of = p.dsl
    BY SQLType DEF FormInv, FormTypes, servicesForMetric
  <1>2. refused(p, n) \in BOOLEAN
    BY Zenon DEF refused
  <1>3. p.dsl = "" => ~compiles(p.dsl, n)
    BY TextsDisjoint DEF compiles
  <1>4. p.dsl # "" /\ ~refused(p, n) => p.dsl \in Exprs /\ compiles(p.dsl, n)
    BY Zenon DEF refused, compiles
  <1>5. p.dsl \in Texts \cup {"none"} /\ p.query \in Queries
    BY DEF Panels
  <1>6. CASE compiles(p.dsl, n)
    BY <1>1, <1>2, <1>3, <1>4, <1>5, <1>6 DEF applyPanelDSL, Panel, Panels
  <1>7. CASE ~compiles(p.dsl, n)
    BY <1>2, <1>4, <1>5, <1>7 DEF applyPanelDSL
  <1> QED
    BY <1>6, <1>7

\* What leaves a form is well typed, and not saved yet.
LEMMA Leaves ==
    ASSUME FormInv, leaves
    PROVE  /\ shown' \in [text : Texts, sql : Queries, settled : BOOLEAN, saved : BOOLEAN]
           /\ shown'.text = doc /\ shown'.sql = sql /\ shown'.settled = ~timer
           /\ shown'.saved = FALSE
  BY DEF leaves, FormInv, FormTypes

\* Opening the panel's form or the explorer, while no form is open.
LEMMA OpenStep == FormInv /\ (OpenPanel \/ OpenExplorer) => FormInv'
  <1> SUFFICES ASSUME FormInv, OpenPanel \/ OpenExplorer PROVE FormInv'
    OBVIOUS
  <1> USE TextsDisjoint
  <1>a. FormTypes /\ OneForm /\ PanelMatchesDSL
    BY DEF FormInv
  <1>b. Nothing \in [text : Texts, sql : Queries, settled : BOOLEAN, saved : BOOLEAN]
    BY HandType DEF Nothing, Snippet
  <1>c. panel.query \in Queries /\ Snippet \in Queries
    BY <1>a, HandType DEF FormTypes, Panels, Snippet
  <1>1. /\ doc' \in Texts /\ hidden' \in Texts /\ sql' \in Queries
        /\ timer' \in BOOLEAN /\ populateNext' \in BOOLEAN /\ missed' \in BOOLEAN
        /\ mode' \in {"builder", "text"} /\ fetches' \subseteq Fetches
        /\ AnswersMatch' /\ HiddenFollows' /\ Followed'
    <2>1. CASE OpenPanel
      <3>1. Mount(panel.dsl, panel.query, TRUE)
        BY <2>1 DEF OpenPanel
      <3>2. panel.dsl \in Texts /\ (panel.dsl \in Exprs => panel.query.of = panel.dsl)
        BY <1>a DEF FormTypes, PanelMatchesDSL
      <3> QED
        BY <1>c, <3>1, <3>2, MountStep
    <2>2. CASE OpenExplorer
      <3>1. Mount("", Snippet, TRUE)
        BY <2>2 DEF OpenExplorer
      <3> QED
        BY <1>c, <3>1, MountStep
    <2> QED
      BY <2>1, <2>2
  <1>2. /\ at = "closed" /\ at' \in {"panel", "explorer"} /\ shown' = Nothing
        /\ UNCHANGED <<posted, panel, knownServices>>
        /\ ran' \in {ran, None}
    BY DEF OpenPanel, OpenExplorer
  <1>3. posted = None /\ ran = None
    BY <1>a, <1>2 DEF OneForm
  <1>4. FormTypes'
    BY <1>a, <1>b, <1>1, <1>2, <1>3 DEF FormTypes
  <1>5. OneForm' /\ QueryUnderWay' /\ PanelMatchesDSL'
    BY <1>a, <1>2, <1>3 DEF OneForm, QueryUnderWay, PanelMatchesDSL
  <1>6. SettledSaveIsKept'
    BY <1>2 DEF SettledSaveIsKept, Nothing
  <1> QED
    BY <1>1, <1>4, <1>5, <1>6 DEF FormInv

\* The panel's form is submitted: a settled one carries what it shows.
LEMMA SubmitStep == FormInv /\ SubmitPanel => FormInv'
  <1> SUFFICES ASSUME FormInv, SubmitPanel PROVE FormInv'
    OBVIOUS
  <1>a. /\ FormTypes /\ AnswersMatch /\ HiddenFollows /\ OneForm /\ PanelMatchesDSL
        /\ Followed
    BY DEF FormInv
  <1>b. /\ shown' \in [text : Texts, sql : Queries, settled : BOOLEAN, saved : BOOLEAN]
        /\ shown'.text = doc /\ shown'.sql = sql /\ shown'.settled = ~timer
        /\ shown'.saved = FALSE
    BY Leaves DEF SubmitPanel
  <1>1. /\ at = "panel" /\ posted' = Panel(hidden, sql)
        /\ UNCHANGED <<editor, at, ran, panel, knownServices>>
    BY DEF SubmitPanel
  <1>2. posted' \in Panels /\ posted'.dsl = hidden /\ posted'.query = sql
    BY <1>a, <1>1 DEF Panel, Panels, FormTypes
  <1>3. ran = None
    BY <1>a, <1>1 DEF OneForm
  <1>4. FormTypes'
    BY <1>a, <1>b, <1>1, <1>2 DEF FormTypes, editor
  <1>5. AnswersMatch' /\ HiddenFollows' /\ Followed'
    BY <1>a, <1>1 DEF AnswersMatch, HiddenFollows, Followed, Asked, editor
  <1>6. OneForm' /\ PanelMatchesDSL'
    BY <1>a, <1>1 DEF OneForm, PanelMatchesDSL
  <1>7. QueryUnderWay'
    BY <1>a, <1>b, <1>1, <1>2, <1>3 DEF QueryUnderWay, HiddenFollows
  <1>8. SettledSaveIsKept'
    BY <1>b DEF SettledSaveIsKept
  <1> QED
    BY <1>4, <1>5, <1>6, <1>7, <1>8 DEF FormInv

\* The server stores the panel, or shows the form again.
LEMMA UpdateStep == FormInv /\ updatePanel => FormInv'
  <1> SUFFICES ASSUME FormInv, updatePanel PROVE FormInv'
    OBVIOUS
  <1> USE TextsDisjoint
  <1>a. /\ FormTypes /\ OneForm /\ QueryUnderWay /\ PanelMatchesDSL /\ SettledSaveIsKept
    BY DEF FormInv
  <1>b. /\ posted # None /\ posted' = None /\ UNCHANGED <<ran, knownServices>>
        /\ posted \in Panels /\ posted.dsl \in Texts /\ posted.query \in Queries
    BY <1>a DEF updatePanel, FormTypes, Panels
  <1>c. ran = None /\ None \in Panels
    BY <1>a, <1>b DEF OneForm, FormTypes
  <1>e. OneForm' /\ QueryUnderWay'
    BY <1>b, <1>c DEF OneForm, QueryUnderWay
  <1>0. PICK n \in servicesForMetric :
           \/ /\ ~refused(posted, n)
              /\ panel' = applyPanelDSL(posted, n)
              /\ Unmount /\ shown' = [shown EXCEPT !.saved = TRUE]
           \/ /\ Mount(posted.dsl, applyPanelDSL(posted, n).query, ~refused(posted, n))
              /\ UNCHANGED <<at, panel, shown>>
    BY DEF updatePanel
  <1> DEFINE p == applyPanelDSL(posted, n)
             no == refused(posted, n)
  <1>d. /\ p \in Panels /\ p.dsl = posted.dsl /\ p.query \in Queries
        /\ posted.dsl = "" => p = posted
        /\ posted.dsl # "" /\ ~no => posted.dsl \in Exprs /\ p.query.of = posted.dsl
        /\ no \in BOOLEAN
    BY <1>b, Applied
  <1> HIDE DEF p, no
  <1>1. CASE ~no /\ panel' = p /\ Unmount /\ shown' = [shown EXCEPT !.saved = TRUE]
    <2>1. FormTypes' /\ AnswersMatch' /\ HiddenFollows' /\ Followed'
      <3>1. shown' \in [text : Texts, sql : Queries, settled : BOOLEAN, saved : BOOLEAN]
        BY <1>a, <1>1 DEF FormTypes
      <3>2. at' = "closed"
        BY <1>1 DEF Unmount
      <3> QED
        BY <1>1, <1>a, <1>b, <1>c, <1>d, <3>1, <3>2, UnmountStep DEF FormTypes
    <2>2. PanelMatchesDSL'
      BY <1>1, <1>b, <1>d DEF PanelMatchesDSL
    <2>3. shown'.text = shown.text /\ shown'.sql = shown.sql /\ shown'.settled = shown.settled
      BY <1>a, <1>1 DEF FormTypes
    <2>4. shown.settled => posted.dsl = shown.text /\ posted.query = shown.sql
      BY <1>a, <1>b DEF QueryUnderWay
    <2>5. SettledSaveIsKept'
      BY <1>1, <1>d, <2>3, <2>4 DEF SettledSaveIsKept, kept
    <2> QED
      BY <1>e, <2>1, <2>2, <2>5 DEF FormInv
  <1>2. CASE Mount(posted.dsl, p.query, ~no) /\ UNCHANGED <<at, panel, shown>>
    <2>1. FormTypes' /\ AnswersMatch' /\ HiddenFollows' /\ Followed'
      <3>1. ~no /\ posted.dsl \in Exprs => p.query.of = posted.dsl
        BY <1>d
      <3>2. (~no) \in BOOLEAN
        BY <1>d, Zenon
      <3> QED
        BY <1>2, <1>a, <1>b, <1>c, <1>d, <3>1, <3>2, MountStep DEF FormTypes
    <2>2. PanelMatchesDSL' /\ SettledSaveIsKept'
      BY <1>2, <1>a DEF PanelMatchesDSL, SettledSaveIsKept, kept
    <2> QED
      BY <1>e, <2>1, <2>2 DEF FormInv
  <1> QED
    BY <1>0, <1>1, <1>2 DEF p, no

\* The explorer runs its query, and keeps it with the results for a save.
LEMMA RunStep == FormInv /\ renderExplorer => FormInv'
  <1> SUFFICES ASSUME FormInv, renderExplorer PROVE FormInv'
    OBVIOUS
  <1> USE TextsDisjoint
  <1>a. FormTypes /\ HiddenFollows /\ OneForm /\ PanelMatchesDSL
    BY DEF FormInv
  <1>b. /\ shown' \in [text : Texts, sql : Queries, settled : BOOLEAN, saved : BOOLEAN]
        /\ shown'.text = doc /\ shown'.sql = sql /\ shown'.settled = ~timer
        /\ shown'.saved = FALSE
    BY Leaves DEF renderExplorer
  <1> DEFINE f == Panel(hidden, sql)
  <1>f. f \in Panels /\ f.dsl = hidden /\ f.query = sql /\ hidden \in Texts
    BY <1>a DEF FormTypes, Panel, Panels
  <1>0. PICK n \in servicesForMetric :
           /\ Mount(hidden, applyPanelDSL(f, n).query, ~refused(f, n))
           /\ ran' \in {None, Panel(hidden, applyPanelDSL(f, n).query)}
    BY DEF renderExplorer
  <1> HIDE DEF f
  <1> DEFINE q == applyPanelDSL(f, n).query
             no == refused(f, n)
  <1>1. /\ q \in Queries /\ (hidden = "" => q = sql)
        /\ ~no /\ hidden \in Exprs => q.of = hidden
        /\ no \in BOOLEAN
    BY <1>f, Applied
  <1>2. /\ at = "explorer" /\ Mount(hidden, q, ~no) /\ ran' \in {None, Panel(hidden, q)}
        /\ UNCHANGED <<at, posted, panel, knownServices>>
    BY <1>0 DEF renderExplorer
  <1> HIDE DEF q, no
  <1>3. posted = None
    BY <1>a, <1>2 DEF OneForm
  <1>4. /\ ran' \in Panels
        /\ ran' # None => ran'.dsl = hidden /\ ran'.query = q
    <2>1. None \in Panels
      BY <1>a, <1>3 DEF FormTypes
    <2>2. /\ Panel(hidden, q) \in Panels
          /\ Panel(hidden, q).dsl = hidden /\ Panel(hidden, q).query = q
      BY <1>1, <1>f DEF Panel, Panels
    <2> QED
      BY <1>2, <2>1, <2>2
  <1>5. FormTypes' /\ AnswersMatch' /\ HiddenFollows' /\ Followed'
    <2>1. (~no) \in BOOLEAN
      BY <1>1, Zenon
    <2> QED
      BY <1>a, <1>b, <1>f, <1>1, <1>2, <1>4, <2>1, MountStep DEF FormTypes
  <1>6. OneForm' /\ PanelMatchesDSL'
    BY <1>a, <1>2, <1>3 DEF OneForm, PanelMatchesDSL
  <1>7. QueryUnderWay'
    BY <1>a, <1>b, <1>1, <1>2, <1>3, <1>4 DEF QueryUnderWay, HiddenFollows
  <1>8. SettledSaveIsKept'
    BY <1>b DEF SettledSaveIsKept
  <1> QED
    BY <1>5, <1>6, <1>7, <1>8 DEF FormInv

\* "Save as panel" stores the query that was run, or shows its SQL again.
LEMMA SaveStep == FormInv /\ saveExplorerPanel => FormInv'
  <1> SUFFICES ASSUME FormInv, saveExplorerPanel PROVE FormInv'
    OBVIOUS
  <1> USE TextsDisjoint
  <1>a. /\ FormTypes /\ OneForm /\ QueryUnderWay /\ PanelMatchesDSL
    BY DEF FormInv
  <1>b. /\ at = "explorer" /\ ran # None /\ UNCHANGED <<posted, knownServices>>
        /\ ran \in Panels /\ ran.dsl \in Texts /\ ran.query \in Queries
    BY <1>a DEF saveExplorerPanel, FormTypes, Panels
  <1>c. posted = None /\ None \in Panels
    BY <1>a, <1>b DEF OneForm, FormTypes
  <1>0. PICK n \in servicesForMetric :
           \/ /\ ~refused(ran, n)
              /\ panel' = applyPanelDSL(ran, n)
              /\ Unmount /\ ran' = None /\ shown' = [shown EXCEPT !.saved = TRUE]
           \/ /\ Mount("", applyPanelDSL(ran, n).query, TRUE)
              /\ ran' \in {None, Panel("", applyPanelDSL(ran, n).query)}
              /\ shown' = [text |-> "", sql |-> applyPanelDSL(ran, n).query,
                           settled |-> TRUE, saved |-> FALSE]
              /\ UNCHANGED <<at, panel>>
    BY DEF saveExplorerPanel
  <1> DEFINE p == applyPanelDSL(ran, n)
             no == refused(ran, n)
  <1>d. /\ p \in Panels /\ p.dsl = ran.dsl /\ p.query \in Queries
        /\ ran.dsl = "" => p = ran
        /\ ran.dsl # "" /\ ~no => ran.dsl \in Exprs /\ p.query.of = ran.dsl
    BY <1>b, Applied
  <1>e. shown.settled => ran.dsl = shown.text /\ (shown.text = "" => ran.query = shown.sql)
    BY <1>a, <1>b DEF QueryUnderWay
  <1> DEFINE q == p.query
  <1>f. \/ ~no /\ panel' = p /\ Unmount /\ ran' = None /\ shown' = [shown EXCEPT !.saved = TRUE]
        \/ /\ Mount("", q, TRUE) /\ ran' \in {None, Panel("", q)}
           /\ shown' = [text |-> "", sql |-> q, settled |-> TRUE, saved |-> FALSE]
           /\ UNCHANGED <<at, panel>>
    BY <1>0
  <1> HIDE DEF p, no
  <1>1. CASE ~no /\ panel' = p /\ Unmount /\ ran' = None /\ shown' = [shown EXCEPT !.saved = TRUE]
    <2>1. FormTypes' /\ AnswersMatch' /\ HiddenFollows' /\ Followed'
      <3>1. shown' \in [text : Texts, sql : Queries, settled : BOOLEAN, saved : BOOLEAN]
        BY <1>a, <1>1 DEF FormTypes
      <3>2. at' = "closed"
        BY <1>1 DEF Unmount
      <3> QED
        BY <1>1, <1>a, <1>b, <1>c, <1>d, <3>1, <3>2, UnmountStep DEF FormTypes
    <2>2. PanelMatchesDSL'
      BY <1>1, <1>b, <1>d DEF PanelMatchesDSL
    <2>3. shown'.text = shown.text /\ shown'.sql = shown.sql /\ shown'.settled = shown.settled
      BY <1>a, <1>1 DEF FormTypes
    <2>4. SettledSaveIsKept'
      BY <1>1, <1>d, <1>e, <2>3 DEF SettledSaveIsKept, kept
    <2>5. OneForm' /\ QueryUnderWay'
      BY <1>1, <1>b, <1>c DEF OneForm, QueryUnderWay
    <2> QED
      BY <2>1, <2>2, <2>4, <2>5 DEF FormInv
  <1>2. CASE /\ Mount("", q, TRUE) /\ ran' \in {None, Panel("", q)}
             /\ shown' = [text |-> "", sql |-> q, settled |-> TRUE, saved |-> FALSE]
             /\ UNCHANGED <<at, panel>>
    <2>1. q \in Queries
      BY <1>d
    <2> HIDE DEF q
    <2>2. ran' \in Panels /\ (ran' # None => ran'.dsl = "" /\ ran'.query = q)
      <3>1. /\ Panel("", q) \in Panels
            /\ Panel("", q).dsl = "" /\ Panel("", q).query = q
        BY <2>1 DEF Panel, Panels
      <3> QED
        BY <1>2, <1>c, <3>1
    <2>3. /\ shown' \in [text : Texts, sql : Queries, settled : BOOLEAN, saved : BOOLEAN]
          /\ shown'.text = "" /\ shown'.sql = q /\ shown'.saved = FALSE
      BY <1>2, <2>1
    <2>4. FormTypes' /\ AnswersMatch' /\ HiddenFollows' /\ Followed'
      BY <1>2, <1>a, <1>b, <2>1, <2>2, <2>3, MountStep DEF FormTypes
    <2>5. PanelMatchesDSL' /\ SettledSaveIsKept'
      BY <1>2, <1>a, <2>3 DEF PanelMatchesDSL, SettledSaveIsKept
    <2>6. OneForm' /\ QueryUnderWay'
      BY <1>2, <1>b, <1>c, <2>2, <2>3 DEF OneForm, QueryUnderWay
    <2> QED
      BY <2>4, <2>5, <2>6 DEF FormInv
  <1> QED
    BY <1>f, <1>1, <1>2

\* The services change only what later compilations give.
LEMMA ServiceStep == FormInv /\ (ServicesChange \/ UNCHANGED vars) => FormInv'
  <1> SUFFICES ASSUME FormInv, ServicesChange \/ UNCHANGED vars PROVE FormInv'
    OBVIOUS
  <1>1. /\ UNCHANGED <<editor, at, ran, posted, panel, shown>>
        /\ knownServices' \in Nat
    <2>1. knownServices \in Nat
      BY DEF FormInv, FormTypes
    <2>2. CASE ServicesChange
      BY <2>2, ServicesNat DEF ServicesChange
    <2>3. CASE UNCHANGED vars
      BY <2>1, <2>3 DEF vars
    <2> QED
      BY <2>2, <2>3
  <1>2. FormTypes'
    BY <1>1 DEF FormInv, FormTypes, editor
  <1>3. AnswersMatch' /\ HiddenFollows' /\ Followed'
    BY <1>1 DEF FormInv, AnswersMatch, HiddenFollows, Followed, Asked, editor
  <1>4. OneForm' /\ QueryUnderWay' /\ PanelMatchesDSL' /\ SettledSaveIsKept'
    BY <1>1 DEF FormInv, OneForm, QueryUnderWay, PanelMatchesDSL, SettledSaveIsKept, kept
  <1> QED
    BY <1>2, <1>3, <1>4 DEF FormInv

-----------------------------------------------------------------------------
(* Theorems *)

\* The inductive invariant: an expression is followed from the editors to the
\* panel, and back to the editors by the compile answers.
THEOREM FormInvariant == Spec => []FormInv
  <1>1. FormInv /\ [Next]_vars => FormInv'
    BY EditStep, CompileStep, SwitchStep, AnswerStep, ArriveStep, LoseStep, OpenStep,
       SubmitStep, UpdateStep, RunStep, SaveStep, ServiceStep
    DEF Next
  <1> QED
    BY <1>1, FormInit, PTL DEF Spec

\* A panel that remembers an expression runs that expression's SQL, whatever the
\* form held when it was saved (applyPanelDSL recompiles on the server).
THEOREM PanelRunsItsDSL == Spec => []PanelMatchesDSL
  BY FormInvariant, PTL DEF FormInv

\* What is saved after the debounce timer has fired is what the form showed.
THEOREM SettledSaves == Spec => []SettledSaveIsKept
  BY FormInvariant, PTL DEF FormInv

\* When the timer has fired and no answer was missed, the SQL editor and the
\* builder show the expression.
THEOREM EditorsAgree == Spec => []MirrorsFollow
  <1>1. FormInv => MirrorsFollow
    BY DEF FormInv, Followed, Asked, MirrorsFollow
  <1> QED
    BY <1>1, FormInvariant, PTL
=============================================================================
