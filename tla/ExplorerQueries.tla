-------------------------- MODULE ExplorerQueries --------------------------
(***************************************************************************)
(* What the reading endpoints of examples/explorer.ts ask for and answer.  *)
(* Each is one evaluation whose text is taken apart line by line.  A name  *)
(* is the sequence of its lines, trimmed, so a plain one has one that is   *)
(* not empty; a dictionary is a sequence of [key, value]; a symbol list is *)
(* a sequence of [name, classes], and a class [category, source] by side   *)
(* and selector.                                                           *)
(***************************************************************************)
EXTENDS Integers, Sequences, FiniteSets, SequencesExt

NotAsked == "error"
Plain(name) == Len(name) = 1 /\ name[1] # ""
Up(n, m) == IF n < m THEN n ELSE m

SplitLines(names) == SelectSeq(FlattenSeq(names), LAMBDA line : line # "")

(* raw is a number, or -1 when the query has none.                         *)
BoundedInteger(raw, default, most) ==
  CASE raw = -1 -> default
    [] raw \in 0..most -> raw
    [] OTHER -> NotAsked

-----------------------------------------------------------------------------
(* Lists with a limit                                                      *)

(* One more than the limit is asked for, to know whether there are more.   *)
AskFor(limit) == limit + 1

Limited(items, limit) ==
  [truncated |-> Len(items) > limit, entries |-> SubSeq(items, 1, Up(limit, Len(items)))]

AtMost(items, most, matching) ==
  FoldLeft(LAMBDA found, e : IF Len(found) < most /\ e \in matching THEN Append(found, e) ELSE found, <<>>, items)

(* globals and roots: keys are escaped, so each entry is one row.          *)
RootEntries(dict, limit, matching) == Limited(AtMost(dict, AskFor(limit), matching), limit)

(* The entries of a symbol list's dictionary: keys as they are.            *)
SymbolListEntries(dict, limit, matching) ==
  LET found == AtMost(dict, AskFor(limit), matching)
  IN  Limited(SplitLines([i \in DOMAIN found |-> found[i].key]), limit)

(* Classes of UserGlobals, then of Globals: a name that is in both is      *)
(* listed twice.                                                           *)
ClassNames(userGlobals, globals, limit, matching) ==
  LET found == AtMost(userGlobals \o globals, AskFor(limit), {e \in matching : e.value = "class"})
  IN  Limited(SplitLines([i \in DOMAIN found |-> found[i].key]), limit)

(* Selectors of the instance side, then of the class side.                 *)
ClassMethods(instanceSide, classSide, limit) ==
  LET rows == [i \in DOMAIN instanceSide |-> <<"instance", instanceSide[i]>>]
                \o [i \in DOMAIN classSide |-> <<"class", classSide[i]>>]
  IN  Limited(AtMost(rows, AskFor(limit), Range(rows)), limit)

-----------------------------------------------------------------------------
(* Users.  A source of users is a sequence of whatever it holds; one that  *)
(* is a user itself counts as a collection of one.                         *)

IsUser(u) == u.isUser
ValidUsers(source) == \E i \in DOMAIN source : IsUser(source[i])

AllUsers(sources) ==
  LET valid == {i \in DOMAIN sources : ValidUsers(sources[i])}
  IN  IF valid = {} THEN <<>> ELSE sources[CHOOSE i \in valid : \A j \in valid : i <= j]

SymbolListUsers(sources) == SplitLines([i \in DOMAIN AllUsers(sources) |-> AllUsers(sources)[i].id])

(* The first user of that name, or none.                                   *)
DetectUser(sources, id) ==
  SelectSeq(AllUsers(sources), LAMBDA u : u.id = <<id>>)

SymbolListDictionaries(sources, id) ==
  LET user == DetectUser(sources, id) IN IF user = <<>> THEN <<>> ELSE SplitLines(Head(user).symbolList)

-----------------------------------------------------------------------------
(* The class browser.  `meta' asks for the class side.                     *)

NothingThere == "nil"
Dictionaries(list) == SplitLines([i \in DOMAIN list |-> list[i].name])

DictionaryNamed(list, name) ==
  LET found == SelectSeq(list, LAMBDA d : d.name = <<name>>) IN IF found = <<>> THEN <<>> ELSE <<Head(found)>>

ClassesOf(list, name) == UNION {DOMAIN d.classes : d \in Range(DictionaryNamed(list, name))}

Side(meta) == IF meta THEN "class" ELSE "instance"

(* One side of a class, with its methods, or none if it is not there.      *)
Behavior(list, dictionary, class, meta) ==
  LET found == SelectSeq(DictionaryNamed(list, dictionary), LAMBDA d : class \in DOMAIN d.classes)
  IN  [i \in DOMAIN found |-> found[i].classes[class][Side(meta)]]

Selectors(behavior) == UNION {DOMAIN b : b \in Range(behavior)}

Categories(list, dictionary, class, meta) ==
  LET b == Behavior(list, dictionary, class, meta) IN {"-- all --"} \cup {b[1][s].category : s \in Selectors(b)}

MethodsOf(list, dictionary, class, protocol, meta) ==
  LET b == Behavior(list, dictionary, class, meta)
  IN  {s \in Selectors(b) : protocol = "-- all --" \/ b[1][s].category = protocol}

(* Without a selector it is the definition, and nothing of what is gone.   *)
SourceOf(list, dictionary, class, selector, meta) ==
  LET b == Behavior(list, dictionary, class, meta)
  IN  IF b = <<>> THEN ""
      ELSE IF selector = "" THEN "definition"
      ELSE IF selector \in Selectors(b) THEN b[1][selector].source
      ELSE ""

FileOutRefused(mode, dictionary, class, selector) ==
  \/ mode \in {"class", "class-methods", "method"} /\ class = ""
  \/ mode \in {"dictionary", "dictionary-methods"} /\ dictionary = ""
  \/ mode = "method" /\ selector = ""

(* What is filed out: definitions and sources, of dictionaries on the      *)
(* instance side only.                                                     *)
FileOut(list, mode, dictionary, class, selector, meta) ==
  LET b     == Behavior(list, dictionary, class, meta)
      all(c, m, on) == {<<c, m, s>> : s \in {t \in Selectors(on) : on[1][t].source # ""}}
  IN  CASE mode = "method" -> IF selector \in Selectors(b) THEN all(class, meta, b) \cap {<<class, meta, selector>>} ELSE {}
        [] mode \in {"class", "class-methods"} ->
             all(class, meta, b) \cup (IF mode = "class" /\ b # <<>> THEN {<<class, meta, "definition">>} ELSE {})
        [] OTHER -> UNION {all(c, FALSE, Behavior(list, dictionary, c, FALSE))
                             \cup (IF mode = "dictionary" THEN {<<c, FALSE, "definition">>} ELSE {})
                           : c \in ClassesOf(list, dictionary)}

InspectTarget(list, mode, dictionary, class, selector, meta) ==
  CASE mode = "dictionary" -> IF DictionaryNamed(list, dictionary) = <<>> THEN NothingThere ELSE "found"
    [] mode = "class"      -> IF Behavior(list, dictionary, class, meta) = <<>> THEN NothingThere ELSE "found"
    [] mode = "instances"  -> IF Behavior(list, dictionary, class, FALSE) = <<>> THEN NothingThere ELSE "found"
    [] OTHER -> IF selector \in Selectors(Behavior(list, dictionary, class, meta)) THEN "found" ELSE NothingThere

-----------------------------------------------------------------------------
(* What is meant                                                           *)

(* A list shows the first entries that match, as many as asked for and no  *)
(* more, and tells truly whether there are others.  The entries of symbol  *)
(* lists only do so if each of their names is plain.                       *)
ListsAreMeant(dict, limit, matching) ==
  LET all    == SelectSeq(dict, LAMBDA e : e \in matching)
      true(list, of) == /\ list.truncated <=> Len(all) > limit
                        /\ list.entries = SubSeq(of, 1, Up(limit, Len(of)))
  IN  /\ true(RootEntries(dict, limit, matching), all)
      /\ (\A i \in DOMAIN dict : Plain(dict[i].key)) =>
           true(SymbolListEntries(dict, limit, matching), [i \in DOMAIN all |-> all[i].key[1]])

(* If any source knows of a user there is one to choose, and each user     *)
(* with a plain name that is listed has the dictionaries that it has.      *)
UsersAreMeant(sources) ==
  /\ (\E i \in DOMAIN sources : ValidUsers(sources[i])) => AllUsers(sources) # <<>>
  /\ \A i \in DOMAIN AllUsers(sources) : LET u == AllUsers(sources)[i] IN
       (Plain(u.id) /\ \A j \in DOMAIN AllUsers(sources) : AllUsers(sources)[j].id = u.id => j = i) =>
          /\ u.id[1] \in Range(SymbolListUsers(sources))
          /\ SymbolListDictionaries(sources, u.id[1]) = SplitLines(u.symbolList)

(* What the class browser lists can be opened: a method with a source is   *)
(* shown with it, inspected, filed out alone and with its class, and is in *)
(* one of the categories of its side; and what is filed out of a           *)
(* dictionary is what is filed out of its classes.                         *)
BrowserIsMeant(list) ==
  \A i \in DOMAIN list : Plain(list[i].name) =>
    LET d == list[i].name[1] IN
    /\ d \in Range(Dictionaries(list)) /\ InspectTarget(list, "dictionary", d, "", "", FALSE) = "found"
    /\ FileOut(list, "dictionary", d, "", "", FALSE) =
         UNION {FileOut(list, "class", d, c, "", FALSE) : c \in ClassesOf(list, d)}
    /\ \A c \in ClassesOf(list, d), meta \in BOOLEAN :
         LET listed == MethodsOf(list, d, c, "-- all --", meta) IN
         /\ SourceOf(list, d, c, "", meta) = "definition"
         /\ listed = UNION {MethodsOf(list, d, c, p, meta) : p \in Categories(list, d, c, meta) \ {"-- all --"}}
         /\ \A s \in listed :
              /\ InspectTarget(list, "method", d, c, s, meta) = "found"
              /\ SourceOf(list, d, c, s, meta) # "" =>
                   FileOut(list, "method", d, c, s, meta) \subseteq FileOut(list, "class-methods", d, c, "", meta)
              /\ SourceOf(list, d, c, s, meta) # "" <=> FileOut(list, "method", d, c, s, meta) # {}

=============================================================================
