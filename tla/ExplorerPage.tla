---------------------------- MODULE ExplorerPage ----------------------------
(***************************************************************************)
(* The loading of panes in the page of examples/explorer.ts: the table of  *)
(* globals (that of roots is alike) with its filter, and the three lists   *)
(* of the symbol list window, where loading one loads the next.  Answers   *)
(* arrive in any order or fail; each pane gives its loads numbers, and     *)
(* leaves the answer to any but its newest load aside.                     *)
(***************************************************************************)
EXTENDS Integers, Sequences, FiniteSets

CONSTANTS
  Users,
  DictionariesOf,   \* the names in the symbol list of each user
  Filters,          \* what is typed into a filter
  MaxLoads,         \* the loads the user causes in one pane, at most
  Nobody            \* no user, or no dictionary

Panes    == {"globals", "users", "dictionaries", "entries"}
Filtered == {"globals", "entries"}

ASSUME PageAssumption ==
  /\ DictionariesOf \in [Users -> Seq(STRING)]
  /\ "" \in Filters /\ MaxLoads \in Nat
  /\ Nobody \notin Users

VARIABLES
  loads,        \* state.loadTokens
  calls,        \* the requests that are not answered
  timer,        \* the input of a filter waits for the end of its delay
  filter,       \* the text of each filter
  shown,        \* what the table of each pane shows
  user,         \* state.symbolUser
  dictionary,   \* state.symbolDictionary
  listed        \* the user whose names are in state.symbolDictionaries

pageVars == <<loads, calls, timer, filter, shown, user, dictionary, listed>>

(* The contents of a table: a message, or the rows of a query. *)
Loading              == <<"loading">>
AllUsers             == <<"users">>
GlobalsOf(f)         == <<f>>
NamesOf(u)           == <<u>>
EntriesOf(u, d, f)   == <<u, d, f>>

(* The page has seen so many loads of each pane. *)
PageBegins(seen) ==
  /\ loads = seen
  /\ calls = {}
  /\ timer = [p \in Filtered |-> FALSE]
  /\ filter = [p \in Filtered |-> ""]
  /\ shown = [p \in Panes |-> Loading]
  /\ user = Nobody /\ dictionary = Nobody /\ listed = Nobody

PageInit == PageBegins([p \in Panes |-> 0])

-----------------------------------------------------------------------------
(* Loads                                                                   *)

Pending(p) == {c \in calls : c.pane = p}

(* A request of a pane, under the next of its numbers. *)
Call(pending, p, u, d, f) ==
  /\ loads' = [loads EXCEPT ![p] = @ + 1]
  /\ calls' = pending \cup
       {[pane |-> p, token |-> loads[p] + 1, user |-> u, dictionary |-> d, filter |-> f]}

Show(p, rows) == shown' = [shown EXCEPT ![p] = rows]

LoadGlobals ==
  /\ Call(calls, "globals", Nobody, Nobody, filter["globals"])
  /\ Show("globals", Loading)
  /\ UNCHANGED <<user, dictionary, listed>>

LoadSymbolUsers ==
  /\ Call(calls, "users", Nobody, Nobody, Nobody)
  /\ shown' = [p \in Panes |-> IF p = "globals" THEN shown[p] ELSE Loading]
  /\ UNCHANGED <<user, dictionary, listed>>

LoadSymbolDictionaries(pending, u) ==
  /\ Call(pending, "dictionaries", u, Nobody, Nobody)
  /\ user' = u /\ dictionary' = Nobody
  /\ UNCHANGED listed

LoadSymbolEntries(pending, d) ==
  /\ Call(pending, "entries", user, d, filter["entries"])
  /\ dictionary' = d
  /\ UNCHANGED user

-----------------------------------------------------------------------------
(* The user                                                                *)

MayLoad(p) == loads[p] < MaxLoads

Open ==
  /\ UNCHANGED <<timer, filter>>
  /\ \/ MayLoad("globals") /\ LoadGlobals
     \/ MayLoad("users") /\ user = Nobody /\ LoadSymbolUsers

Select ==
  /\ UNCHANGED <<timer, filter>>
  /\ \/ \E u \in Users :
          /\ shown["users"] = AllUsers /\ MayLoad("dictionaries")
          /\ LoadSymbolDictionaries(calls, u)
          /\ shown' = [shown EXCEPT !["dictionaries"] = Loading, !["entries"] = Loading]
     \/ \E u \in Users : \E i \in DOMAIN DictionariesOf[u] :
          /\ shown["dictionaries"] = NamesOf(u) /\ MayLoad("entries")
          /\ LoadSymbolEntries(calls, DictionariesOf[u][i])
          /\ Show("entries", Loading) /\ UNCHANGED listed

Type(p, f) ==
  /\ MayLoad(p) /\ f # filter[p]
  /\ filter' = [filter EXCEPT ![p] = f]
  /\ timer' = [timer EXCEPT ![p] = TRUE]
  /\ UNCHANGED <<loads, calls, shown, user, dictionary, listed>>

(* The delay after the last input is over. *)
Fire(p) ==
  /\ timer[p] /\ timer' = [timer EXCEPT ![p] = FALSE]
  /\ UNCHANGED filter
  /\ \/ p = "globals" /\ LoadGlobals
     \/ /\ p = "entries" /\ dictionary # Nobody
        /\ LoadSymbolEntries(calls, dictionary) /\ Show("entries", Loading)
        /\ UNCHANGED listed
     \/ /\ p = "entries" /\ dictionary = Nobody
        /\ UNCHANGED <<loads, calls, shown, user, dictionary, listed>>

-----------------------------------------------------------------------------
(* Answers                                                                 *)

IsCurrentLoadToken_Any(c) == c \in calls

IsCurrentLoadToken(c) == c.token = loads[c.pane]

(* Nothing is rendered of an error, or of the answer to an older load. *)
Ignored(c) ==
  /\ c \in calls /\ calls' = calls \ {c}
  /\ UNCHANGED <<loads, timer, filter, shown, user, dictionary, listed>>

Globals(c) ==
  /\ c.pane = "globals" /\ calls' = calls \ {c}
  /\ Show("globals", GlobalsOf(c.filter))
  /\ UNCHANGED <<loads, user, dictionary, listed>>

(* The names of the first user are loaded next. *)
SymbolUsers(c) ==
  /\ c.pane = "users"
  /\ \E first \in Users : LoadSymbolDictionaries(calls \ {c}, first)
  /\ shown' = [shown EXCEPT !["users"] = AllUsers,
                            !["dictionaries"] = Loading, !["entries"] = Loading]

(* The entries of the first dictionary are loaded next, when there is one. *)
SymbolDictionaries(c) ==
  /\ c.pane = "dictionaries"
  /\ listed' = c.user
  /\ LET names == DictionariesOf[c.user] IN
       IF names = <<>>
         THEN /\ calls' = calls \ {c}
              /\ UNCHANGED <<loads, user, dictionary>>
         ELSE LoadSymbolEntries(calls \ {c}, Head(names))
  /\ shown' = [shown EXCEPT !["users"] = AllUsers, !["dictionaries"] = NamesOf(c.user),
                            !["entries"] = IF DictionariesOf[c.user] = <<>> THEN <<>>
                                           ELSE Loading]

SymbolEntries(c) ==
  /\ c.pane = "entries" /\ calls' = calls \ {c}
  /\ shown' = [shown EXCEPT !["dictionaries"] = NamesOf(listed),
                            !["entries"] = EntriesOf(c.user, c.dictionary, c.filter)]
  /\ UNCHANGED <<loads, user, dictionary, listed>>

Arrives(c) ==
  /\ c \in calls /\ IsCurrentLoadToken(c)
  /\ Globals(c) \/ SymbolUsers(c) \/ SymbolDictionaries(c) \/ SymbolEntries(c)
  /\ UNCHANGED <<timer, filter>>

-----------------------------------------------------------------------------
(* Specification                                                           *)

PageNext ==
  \/ Open \/ Select
  \/ \E p \in Filtered : Fire(p) \/ \E f \in Filters : Type(p, f)
  \/ \E c \in calls : Arrives(c) \/ Ignored(c)

PageSpec == PageInit /\ [][PageNext]_pageVars

-----------------------------------------------------------------------------
(* Properties                                                              *)

Quiet(p) == Pending(p) = {} /\ (p \in Filtered => ~timer[p])

(* When the answers are in, in whatever order they came, the table of      *)
(* globals shows what its filter says, or no rows when the newest load     *)
(* failed.  And the lists of the symbol list window belong together: next  *)
(* to the dictionaries of the selected user stand entries of that user,    *)
(* and of the selected dictionary under the filter.                        *)
PanesShowNewest ==
  /\ Quiet("globals") => shown["globals"] \in {Loading, GlobalsOf(filter["globals"])}
  /\ (\A p \in Panes : Quiet(p)) /\ shown["dictionaries"] = NamesOf(user)
       /\ DictionariesOf[user] # <<>> /\ dictionary # Nobody
         => shown["entries"] \in {Loading, EntriesOf(user, dictionary, filter["entries"])}

=============================================================================
