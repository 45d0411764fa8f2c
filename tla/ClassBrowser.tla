---------------------------- MODULE ClassBrowser ----------------------------
(***************************************************************************)
(* The class browser in the page of examples/explorer.ts: lists of         *)
(* dictionaries, classes, categories and methods, and below them an editor *)
(* that shows the definition of a class or the source of a method.  Each   *)
(* selection is a flow of awaited loads; flows of several selections       *)
(* overlap, and nothing tells the answer to an older one apart.            *)
(***************************************************************************)
EXTENDS Integers, Sequences, FiniteSets

CONSTANTS
  Dictionaries, Classes, Categories, Selectors,   \* names that are shown
  MaxFlows,                                       \* selections at a time, at most
  Nothing                                         \* the empty selection

ASSUME BrowserAssumption ==
  /\ Nothing \notin Dictionaries \cup Classes \cup Categories \cup Selectors
  /\ MaxFlows \in Nat \ {0}
  /\ \A s \in {"categories", "methods", "source", "compile", "remove"} : s \notin Selectors

VARIABLES
  browser,   \* state.classBrowser
  text,      \* what the editor shows, and of which method or class it is
  flows,     \* the loads that are awaited, with what follows each of them
  agreed,    \* the user gave up or sent the last edits
  excused    \* the ways the page went that nothing guards (history)

browserVars == <<browser, text, flows, agreed, excused>>

Of(b, selector) == <<b.dictionary, b.class, b.meta, selector>>
Message         == [is |-> "message"]
Source(of)      == [is |-> "source", of |-> of]

BrowserBegins ==
  /\ browser = [dictionary |-> Nothing, class |-> Nothing, category |-> Nothing, method |-> Nothing,
                meta |-> FALSE, mode |-> "classDefinition", dirty |-> FALSE]
  /\ text = Message /\ flows = {} /\ agreed = FALSE /\ excused = {}

Editable == browser.mode = "method" /\ browser.class # Nothing

-----------------------------------------------------------------------------
(* Loads                                                                   *)

SetClassSource(b, t, mode) ==
  /\ browser' = [b EXCEPT !.mode = mode, !.dirty = FALSE]
  /\ text' = t

(* A flow awaits its next load, or is over: a name among the steps is a    *)
(* method to select and to load.  Asking for a source empties the editor,  *)
(* and without a class nothing is loaded.                                  *)
Await(others, b, t, steps, onError) ==
  IF steps = <<>> \/ b.class = Nothing
    THEN browser' = b /\ text' = t /\ flows' = others
    ELSE LET named == Head(steps) \in Selectors
             at    == IF named THEN [b EXCEPT !.method = Head(steps)] ELSE b
             step  == IF named THEN "source" ELSE Head(steps)
         IN  /\ flows' = others \cup {[step |-> step, asked |-> Of(at, at.method),
                                       then |-> Tail(steps), onError |-> onError]}
             /\ IF step = "source"
                  THEN SetClassSource(at, Message, IF at.method = Nothing THEN "classDefinition" ELSE "method")
                  ELSE browser' = at /\ text' = t

(* What a handler of the user's does first, and the loads that follow. *)
Handle(b, steps, onError) == Await(flows, b, text, steps, onError)

AndOthers(ways) == ways \cup (IF flows = {} THEN {} ELSE {"overlap"})
Goes(ways)      == excused' = excused \cup AndOthers(ways)
CanStart        == Cardinality(flows) < MaxFlows

(* confirmDiscardClassSourceChanges(): a user who keeps the changes stops  *)
(* the handler before it has changed anything.                             *)
Confirmed == agreed' = (agreed \/ browser.dirty)

-----------------------------------------------------------------------------
(* The user                                                                *)

Definition == <<"categories", "source">>

ClassSelected(b, c) == [b EXCEPT !.class = c, !.category = Nothing, !.method = Nothing]

SelectClassBrowserDictionary(d) ==
  /\ CanStart /\ Confirmed /\ Goes({})
  /\ SetClassSource([ClassSelected(browser, Nothing) EXCEPT !.dictionary = d], Message, "classDefinition")
  /\ flows' = flows \cup {[step |-> "classes", asked |-> <<d>>, then |-> <<>>, onError |-> "shown"]}

(* Selecting what is selected asks nothing, and loads it again. *)
SelectClassBrowserClass(c) ==
  /\ CanStart /\ browser.dictionary # Nothing
  /\ IF c # browser.class THEN Confirmed /\ Goes({})
     ELSE UNCHANGED agreed /\ Goes(IF browser.dirty THEN {"reselected"} ELSE {})
  /\ Handle(ClassSelected(browser, c), Definition, "shown")

CategorySelected(b, g) == [b EXCEPT !.category = g, !.method = Nothing]

SelectClassBrowserCategory(g) ==
  /\ CanStart /\ browser.class # Nothing
  /\ IF g # browser.category
       THEN Confirmed /\ Handle(CategorySelected(browser, g), <<"methods", "source">>, "ignored")
       ELSE UNCHANGED agreed /\ Handle(CategorySelected(browser, g), <<"methods">>, "ignored")
  /\ Goes({})

SelectClassBrowserMethod_Unasked(s) ==
  /\ CanStart /\ browser.class # Nothing
  /\ UNCHANGED agreed /\ Goes({})
  /\ Handle([browser EXCEPT !.method = s], <<"source">>, "shown")

SelectClassBrowserMethod(s) ==
  /\ CanStart /\ browser.class # Nothing
  /\ IF s # browser.method THEN Confirmed /\ Goes({})
     ELSE UNCHANGED agreed /\ Goes(IF browser.dirty THEN {"reselected"} ELSE {})
  /\ Handle([browser EXCEPT !.method = s], <<"source">>, "shown")

ChangeMeta_KeepsSource ==
  /\ CanStart /\ Confirmed /\ Goes({})
  /\ Handle([browser EXCEPT !.meta = ~@, !.method = Nothing], <<"categories">>, "side")

ChangeMeta ==
  /\ CanStart /\ Confirmed /\ Goes({})
  /\ Handle([browser EXCEPT !.meta = ~@, !.method = Nothing], Definition, "side")

BrowseClass ==
  /\ CanStart /\ browser.class # Nothing /\ Confirmed /\ Goes({})
  /\ Handle([browser EXCEPT !.method = Nothing], <<"source">>, "shown")

(* The source is loaded again without another selection. *)
RefreshClassSource ==
  /\ CanStart /\ browser.class # Nothing /\ Confirmed /\ Goes({})
  /\ LET s == IF browser.mode = "method" THEN browser.method ELSE Nothing IN
       /\ SetClassSource(browser, Message, IF s = Nothing THEN "classDefinition" ELSE "method")
       /\ flows' = flows \cup {[step |-> "source", asked |-> Of(browser, s), then |-> <<>>, onError |-> "shown"]}

NewClassBrowserMethod ==
  /\ browser.class # Nothing /\ Confirmed /\ Goes({}) /\ UNCHANGED flows
  /\ SetClassSource([browser EXCEPT !.method = Nothing], Source(Of(browser, Nothing)), "method")

(* The user types into the editor, which is read-only for a definition. *)
MarkClassSourceDirty ==
  /\ Editable /\ text.is # "edit"
  /\ text' = [is |-> "edit", of |-> IF text = Message THEN Of(browser, browser.method) ELSE text.of, was |-> text]
  /\ browser' = [browser EXCEPT !.dirty = TRUE]
  /\ agreed' = FALSE /\ Goes({}) /\ UNCHANGED flows

RevertClassSource ==
  /\ browser.dirty /\ text.is = "edit"
  /\ text' = text.was /\ browser' = [browser EXCEPT !.dirty = FALSE]
  /\ agreed' = TRUE /\ Goes({}) /\ UNCHANGED flows

SubmitClassBrowserSource ==
  /\ CanStart /\ Editable /\ agreed' = TRUE /\ Goes({})
  /\ Handle(browser, <<"compile">>, "told")

RemoveClassBrowserMethod ==
  /\ CanStart /\ browser.class # Nothing /\ browser.method # Nothing
  /\ agreed' = TRUE /\ Goes({})
  /\ Handle(browser, <<"remove">>, "told")

(* The text is replaced and nothing else: describing a class by its name,  *)
(* or the source of a method of the class so described.                    *)
DescribeClass ==
  /\ Goes({"described"}) /\ UNCHANGED <<browser, flows, agreed>>
  /\ \/ text' = Message
     \/ \E c \in Classes, m \in BOOLEAN, s \in Selectors : text' = Source(<<Nothing, c, m, s>>)

-----------------------------------------------------------------------------
(* Answers                                                                 *)

ClassesArrive(f, others) ==
  \/ browser' = browser /\ text' = text /\ flows' = others
  \/ \E c \in Classes : Await(others, ClassSelected(browser, c), text, Definition, "shown")

(* The category that was selected, unless it is not in the new list. *)
CategoriesArrive(f, others) ==
  \E g \in {browser.category, Nothing} :
    Await(others, CategorySelected(browser, g), text,
          <<"methods">> \o (IF g = browser.category THEN <<>> ELSE <<"source">>) \o f.then, f.onError)

(* A source, or the error in its place, is what the editor shows. *)
SourceArrives(f, others, t) ==
  LET mode == IF f.asked[4] = Nothing THEN "classDefinition" ELSE "method"
  IN  Await(others, [browser EXCEPT !.mode = mode, !.dirty = FALSE], t, f.then, f.onError)

(* Only a change that was committed is shown: the lists are loaded again,  *)
(* and then the source of what was compiled.                               *)
CompileArrives(f, others) ==
  \/ UNCHANGED <<browser, text>> /\ flows' = others
  \/ \E s \in Selectors, g \in Categories :
       LET of   == [f.asked EXCEPT ![4] = s]
           next == [step |-> "categories", asked |-> Of(browser, s), then |-> <<s>>, onError |-> "told"]
       IN  /\ SetClassSource([browser EXCEPT !.category = g, !.method = s], Source(of), "method")
           /\ flows' = others \cup {next}

RemoveArrives(f, others) ==
  \/ UNCHANGED <<browser, text>> /\ flows' = others
  \/ Await(others, [browser EXCEPT !.method = Nothing], text, Definition, "told")

LoadArrives(f) ==
  /\ f \in flows /\ UNCHANGED <<agreed, excused>>
  /\ LET others == flows \ {f} IN
       \/ f.step = "classes" /\ ClassesArrive(f, others)
       \/ f.step = "categories" /\ CategoriesArrive(f, others)
       \/ f.step = "methods" /\ Await(others, browser, text, f.then, f.onError)
       \/ f.step = "source" /\ SourceArrives(f, others, Source(f.asked))
       \/ f.step = "compile" /\ CompileArrives(f, others)
       \/ f.step = "remove" /\ RemoveArrives(f, others)

(* The error is the text of the editor, in the status line, or nowhere;    *)
(* when the side was changed, the source of the other side stays.          *)
LoadFails(f) ==
  /\ f \in flows /\ UNCHANGED agreed
  /\ IF f.step = "source"
       THEN SourceArrives(f, flows \ {f}, Message)
       ELSE /\ flows' = flows \ {f} /\ UNCHANGED browser
            /\ text' = IF f.onError = "shown" THEN Message ELSE text
  /\ excused' = excused \cup (IF f.onError = "side" /\ f.step # "source" THEN {"side"} ELSE {})

-----------------------------------------------------------------------------
(* Specification                                                           *)

BrowserNext ==
  \/ \E d \in Dictionaries : SelectClassBrowserDictionary(d)
  \/ \E c \in Classes : SelectClassBrowserClass(c)
  \/ \E g \in Categories : SelectClassBrowserCategory(g)
  \/ \E s \in Selectors : SelectClassBrowserMethod(s)
  \/ ChangeMeta \/ BrowseClass \/ RefreshClassSource \/ NewClassBrowserMethod
  \/ MarkClassSourceDirty \/ RevertClassSource
  \/ SubmitClassBrowserSource \/ RemoveClassBrowserMethod \/ DescribeClass
  \/ \E f \in flows : LoadArrives(f) \/ LoadFails(f)

BrowserSpec == BrowserBegins /\ [][BrowserNext]_browserVars

-----------------------------------------------------------------------------
(* Properties                                                              *)

(* When all loads are in, what can be edited and submitted is a source of  *)
(* the class and side that are selected, and of the method if one is: a    *)
(* method is compiled where it was read.  Excused are selections that      *)
(* overlap, descriptions shown in the editor, and a change of side whose   *)
(* loads fail.                                                             *)
EditorMatchesSelection ==
  flows = {} /\ excused \subseteq {"reselected"} /\ Editable /\ text # Message
    => \E s \in Selectors \cup {Nothing} :
         /\ text.of = Of(browser, s)
         /\ browser.method \in {Nothing, s}

(* Edits go when the user agrees to that, takes them back or sends them,   *)
(* not otherwise.  Excused are also selections of what is selected, which  *)
(* load it again without a question.                                       *)
EditsAreNotLost ==
  [][text.is = "edit" /\ text' # text /\ excused' = {} => agreed']_browserVars

=============================================================================
