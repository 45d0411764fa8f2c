------------------------------ MODULE Codegen ------------------------------
(***************************************************************************)
(* Wrappers for Smalltalk methods: scripts/scan-codegen.mjs reads          *)
(* decorated classes into a manifest, src/codegen.ts checks it and renders *)
(* a module from it.  A source is [imports, methods]; imports map a local  *)
(* name to [from, name, form], and a method is [name, class, selector,     *)
(* params, session, returns].  A type is the sequence of the names in it,  *)
(* its root first; a selector is [form, parts].                            *)
(***************************************************************************)
EXTENDS Integers, Sequences, FiniteSets, SequencesExt

NoSelector == [form |-> "none", parts |-> 0]
NoType     == <<>>

(* What a type's name looks like: it ends in TypedOop, or in Oop.          *)
LooksLike(name) ==
  CASE name \in {"TypedOop", "GSTypedOop"} -> "object"
    [] name \in {"Oop", "GSOop"}           -> "oop"
    [] OTHER -> "value"

-----------------------------------------------------------------------------
(* Scanning                                                                *)

SelectorArity(s) ==
  CASE s.form = "keyword" -> s.parts
    [] s.form = "binary"  -> 1
    [] OTHER -> 0

(* With more than one argument a selector has to be given.                 *)
InferSelector(arity) ==
  CASE arity = 0 -> [form |-> "unary", parts |-> 1]
    [] arity = 1 -> [form |-> "keyword", parts |-> 1]
    [] OTHER -> NoSelector

(* The kind of an Oop also when it is imported by another name; a type     *)
(* with more than its root never looks like an Oop.                        *)
InferReturnKind(type) ==
  IF type = NoType THEN "value"
  ELSE IF LooksLike(type[1]) = "oop" /\ Len(type) > 1 THEN "value"
  ELSE LooksLike(type[1])

ReturnKindOf(type, imports) ==
  LET from == IF type # NoType /\ type[1] \in DOMAIN imports THEN imports[type[1]] ELSE [from |-> "", name |-> "", form |-> ""]
  IN  IF InferReturnKind(type) # "value" THEN InferReturnKind(type)
      ELSE IF from.from = "gemstone-js" /\ from.name = "Oop" THEN "oop"
      ELSE IF from.from = "gemstone-js" /\ from.name = "TypedOop" THEN "object"
      ELSE "value"

ScanMethod(m, imports) ==
  [exportedName |-> m.name, className |-> m.class,
   selector |-> IF m.selector # NoSelector THEN m.selector ELSE InferSelector(Len(m.params)),
   argNames |-> [i \in DOMAIN m.params |-> m.params[i].name],
   argTypes |-> IF \A i \in DOMAIN m.params : m.params[i].type # NoType
                THEN [i \in DOMAIN m.params |-> m.params[i].type] ELSE <<>>,
   returnType |-> m.returns, returnKind |-> ReturnKindOf(m.returns, imports)]

(* A method without a body is skipped where one with a body has its name.  *)
Scanned(source) ==
  SelectSeq(source.methods, LAMBDA m :
    m.body \/ ~\E i \in DOMAIN source.methods : source.methods[i].body /\ source.methods[i].name = m.name)

ScanFails(source) ==
  \E m \in Range(Scanned(source)) : m.selector = NoSelector /\ InferSelector(Len(m.params)) = NoSelector

UsedNames(source) ==
  UNION {Range(p.type) : p \in UNION {Range(m.params) : m \in Range(Scanned(source))}}
    \cup UNION {Range(m.returns) : m \in Range(Scanned(source))}

(* What is imported by each file, as the set of [local, from, name, form]. *)
ImportsUsed(source) ==
  {[local |-> n, from |-> source.imports[n].from, name |-> source.imports[n].name, form |-> source.imports[n].form]
     : n \in UsedNames(source) \cap DOMAIN source.imports}

(* Imports of a module are merged, but not two defaults or two namespaces. *)
CannotMerge(imports) ==
  \E i, j \in imports : i.from = j.from /\ i.form = j.form /\ i.form \in {"default", "namespace"} /\ i.local # j.local

Scan(sources) ==
  [fails     |-> \/ \E s \in Range(sources) : ScanFails(s)
                 \/ CannotMerge(UNION {ImportsUsed(s) : s \in Range(sources)}),
   imports   |-> UNION {ImportsUsed(s) : s \in Range(sources)},
   functions |-> FlattenSeq([i \in DOMAIN sources |->
                   LET ms == Scanned(sources[i]) IN [j \in DOMAIN ms |-> ScanMethod(ms[j], sources[i].imports)]])]

-----------------------------------------------------------------------------
(* Checking a manifest                                                     *)

Reserved == {"class", "delete", "new"}
IsIdentifier(name) == name \notin Reserved

BadFunction(f) ==
  \/ ~IsIdentifier(f.exportedName) \/ (\E i \in DOMAIN f.argNames : ~IsIdentifier(f.argNames[i]))
  \/ ~IsInjective(f.argNames)
  \/ Len(f.argNames) # SelectorArity(f.selector)
  \/ f.argTypes # <<>> /\ Len(f.argTypes) # Len(f.argNames)
  \/ f.returnType # NoType /\ f.returnKind # InferReturnKind(f.returnType)

(* Local names are told apart within the imports of one module only.       *)
BadImports(imports) ==
  \E i, j \in imports : i # j /\ i.from = j.from /\ i.local = j.local

BadModule(manifest) ==
  \/ BadImports(manifest.imports)
  \/ \E i, j \in DOMAIN manifest.functions :
       i < j /\ manifest.functions[i].exportedName = manifest.functions[j].exportedName
  \/ \E i \in DOMAIN manifest.functions : BadFunction(manifest.functions[i])

(* The module: what each function calls, and with how many arguments.      *)
RenderFunction(f) ==
  [name |-> f.exportedName, sends |-> f.selector, args |-> f.argNames,
   call |-> CASE f.returnKind = "object" -> "sendObject"
              [] f.returnKind = "oop"    -> "performWith"
              [] OTHER -> "performValueWith",
   types |-> UNION {Range(f.argTypes[i]) : i \in DOMAIN f.argTypes} \cup Range(f.returnType)]

Generate(sources) ==
  LET manifest == Scan(sources)
  IN  IF manifest.fails \/ BadModule(manifest) THEN [error |-> TRUE, functions |-> <<>>, imports |-> {}]
      ELSE [error |-> FALSE, imports |-> manifest.imports,
            functions |-> [i \in DOMAIN manifest.functions |-> RenderFunction(manifest.functions[i])]]

-----------------------------------------------------------------------------
(* What is meant                                                           *)

Methods(sources) == FlattenSeq([i \in DOMAIN sources |-> Scanned(sources[i])])
Agree(sources) ==
  \A s, t \in Range(sources) : \A n \in DOMAIN s.imports \cap DOMAIN t.imports : s.imports[n] = t.imports[n]

(* An import of Oop or TypedOop by a name that does not look like it.      *)
Disguised(source) ==
  \E m \in Range(Scanned(source)) : ReturnKindOf(m.returns, source.imports) # InferReturnKind(m.returns)

(* What is generated from files that mean the same by a name: a function   *)
(* for each method and no other, that sends a selector with as many parts  *)
(* as it has arguments; a type of a file that is used is imported, once;   *)
(* and where Oop or TypedOop of the package is returned, that is what the  *)
(* call answers.  Nothing is generated only for the reasons there are.     *)
GeneratesWhatIsMeant(sources) ==
  LET module  == Generate(sources)
      methods == Methods(sources)
  IN  /\ ~module.error =>
           /\ [i \in DOMAIN module.functions |-> module.functions[i].name] = [i \in DOMAIN methods |-> methods[i].name]
           /\ \A i \in DOMAIN module.functions :
                /\ SelectorArity(module.functions[i].sends) = Len(module.functions[i].args)
                /\ \A j \in DOMAIN module.functions :
                     module.functions[i].name = module.functions[j].name => i = j
           /\ \A s \in Range(sources), f \in Range(module.functions) :
                f.name \in {m.name : m \in Range(Scanned(s))} =>
                  \A n \in f.types \cap DOMAIN s.imports : \E i \in module.imports : i.local = n
           /\ Agree(sources) => \A i, j \in module.imports : i.local = j.local => i = j
           /\ \A s \in Range(sources) : \A m \in Range(Scanned(s)), f \in Range(module.functions) :
                (f.name = m.name /\ Len(m.returns) = 1 /\ m.returns[1] \in DOMAIN s.imports) =>
                  LET of == s.imports[m.returns[1]] IN
                  of.from = "gemstone-js" =>
                    /\ of.name = "Oop" => f.call = "performWith"
                    /\ of.name = "TypedOop" => f.call = "sendObject"
      /\ module.error =>
           \/ Cardinality({m.name : m \in Range(methods)}) < Len(methods)
           \/ \E m \in Range(methods) : Len(m.params) > 1 \/ m.selector # NoSelector \/ ~IsIdentifier(m.name)
           \/ \E s \in Range(sources) : Disguised(s)
           \/ ~Agree(sources)
           \/ CannotMerge(Scan(sources).imports)

=============================================================================
