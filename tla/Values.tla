------------------------------- MODULE Values -------------------------------
(***************************************************************************)
(* How values get into the Stone and back: argumentToOop and marshalOop of *)
(* src/client.ts over the encodings of src/oop.ts.  An OOP is a number     *)
(* below Oops (2^64 in the code): a SmallInteger has the tag 2 in its      *)
(* lowest three bits, a Character the lowest byte 28, and nil, true and    *)
(* false are numbers of their own.  Any other number denotes an object,    *)
(* which takes calls to the Stone to read; their failures are caught, and  *)
(* the object is then answered as its OOP.                                 *)
(***************************************************************************)
EXTENDS Integers, Sequences, FiniteSets

CONSTANTS
  Oops,           \* how many OOPs there are: 2^64 in the code
  SafeInteger,    \* Number.MAX_SAFE_INTEGER
  MaxCodePoint,   \* 16r1FFFFF in the code
  There,          \* OOPs of the objects there at first
  Written,        \* the values the program writes: [type, is]
  ValueFaults,    \* which calls for an object may fail: "float", "class", "symbol", "bytes"
  MaxObjects      \* bound: objects in the Stone before a value is written again

(* The objects of the Stone have OOPs with the lowest bit set.             *)
ObjectOops == {p \in 2..Oops - 1 : p % 8 = 1}

(* What the types of JavaScript hold, and which OOPs a program has at hand *)
(* before anything was written.                                            *)
IsValue(v) ==
  /\ v.type \in {"null", "notFinite", "boolean", "number", "bigint", "string", "handle"}
  /\ v.type = "null" => v.is = 0
  /\ v.type = "boolean" => v.is \in BOOLEAN
  /\ v.type \in {"number", "bigint"} => v.is \in Int
  /\ v.type = "handle" => v.is \in There

ASSUME ValuesAssumption ==
  /\ Oops \in Nat /\ Oops > 0 /\ Oops % 512 = 0
  /\ SafeInteger \in Nat /\ SafeInteger < Oops \div 16     \* 2^53 - 1 < 2^60
  /\ MaxCodePoint \in Nat /\ MaxCodePoint < Oops \div 256
  /\ There \subseteq ObjectOops /\ IsFiniteSet(There)
  /\ \A v \in Written : IsValue(v)
  /\ ValueFaults \subseteq {"float", "class", "symbol", "bytes"}
  /\ MaxObjects \in Nat /\ Cardinality(There) <= MaxObjects /\ MaxObjects + 1 < Oops \div 8

VARIABLES
  value,          \* the value that is written: [type, is]
  oop,            \* what it became, Unset or Refused
  objects,        \* the objects of the Stone: OOP -> [class, is]
  readBack,       \* what is read
  stringClass,    \* #stringClassOopKeys: "unasked", or for ever whether the class String is in it
  unanswered      \* history: the calls that failed when it was read, those not made included

valueVars == <<value, oop, objects, readBack, stringClass, unanswered>>

OopIllegal == 1
OopNil     == 20
OopFalse   == 12
OopTrue    == 268

-----------------------------------------------------------------------------
(* Encodings                                                               *)

BoolToOop(b)  == IF b THEN OopTrue ELSE OopFalse
SmallintToOop(n) == (n * 8 + 2) % Oops
IsSmallint(o) == o % 8 = 2

OopToSmallint(o) == (IF o >= Oops \div 2 THEN o - Oops ELSE o) \div 8

CharToOop(c)  == c * 256 + 28
IsChar(o)     == o % 256 = 28
OopToChar(o)  == (o \div 256) % (MaxCodePoint + 1)

FreeOop == CHOOSE o \in ObjectOops : o \notin DOMAIN objects

Allocated(class, is) ==
  /\ oop' = FreeOop
  /\ objects' = [o \in DOMAIN objects \cup {FreeOop} |->
                   IF o = FreeOop THEN [class |-> class, is |-> is] ELSE objects[o]]

Immediate(o) == oop' = o /\ UNCHANGED objects

-----------------------------------------------------------------------------
(* Writing and reading                                                     *)

Unset   == -1
Refused == -2
Unread  == [type |-> "none", is |-> 0]
NotAnswered == [type |-> "thrown", is |-> 0]

ValuesInit ==
  /\ value \in Written
  /\ oop = Unset /\ readBack = Unread /\ unanswered = {}
  /\ stringClass = "unasked"
  /\ objects = [o \in There |-> [class |-> "Object", is |-> "there"]]

IsSafeInteger(v) == v.type = "number" /\ v.is \in -SafeInteger..SafeInteger

(* argumentToOop.  A string of one character is a String too; an integer   *)
(* that is a safe number, and any bigint, becomes a SmallInteger.          *)
Write ==
  /\ oop = Unset
  /\ CASE value.type = "null"    -> Immediate(OopNil)
       [] value.type = "boolean" -> Immediate(BoolToOop(value.is))
       [] IsSafeInteger(value)   -> Immediate(SmallintToOop(value.is))
       [] value.type = "number" /\ ~IsSafeInteger(value) -> Allocated("Float", value.is)
       [] value.type = "notFinite" -> oop' = Refused /\ UNCHANGED objects
       [] value.type = "bigint"  -> Immediate(SmallintToOop(value.is))
       [] value.type = "string"  -> Allocated("String", value.is)
       [] value.type = "handle"  -> Immediate(value.is)
  /\ UNCHANGED <<value, readBack, stringClass, unanswered>>

IsImmediate(o) == o \in {OopNil, OopTrue, OopFalse} \/ IsSmallint(o) \/ IsChar(o)

MarshalImmediate(o) ==
  CASE o = OopNil      -> [type |-> "null", is |-> 0]
    [] o = OopTrue     -> [type |-> "boolean", is |-> TRUE]
    [] o = OopFalse    -> [type |-> "boolean", is |-> FALSE]
    [] IsSmallint(o)   -> [type |-> "bigint", is |-> OopToSmallint(o)]
    [] IsChar(o)       -> [type |-> "string", is |-> OopToChar(o)]

AsOop(o) == [type |-> "bigint", is |-> o]

(* #stringClassKeys: asked for once, and missing for ever if that failed.  *)
StringClass(fails) ==
  IF stringClass # "unasked" THEN stringClass ELSE IF "symbol" \in fails THEN "missing" ELSE "known"

(* marshalOop of an object: whether it is a Float, and if not, whether its *)
(* class is String, an answer that does not come being a no.  Only a       *)
(* String whose bytes cannot be fetched throws.                            *)
ReadObject(fails) ==
  LET object   == objects[oop]
      isFloat  == object.class = "Float" /\ "float" \notin fails
      hasClass == ~isFloat /\ "class" \notin fails
      keys     == IF hasClass THEN StringClass(fails) ELSE stringClass
      isString == hasClass /\ object.class = "String" /\ keys = "known"
  IN  /\ readBack' = IF isFloat THEN [type |-> "number", is |-> object.is]
                     ELSE IF ~isString THEN AsOop(oop)
                     ELSE IF "bytes" \in fails THEN NotAnswered
                     ELSE [type |-> "string", is |-> object.is]
      /\ stringClass' = keys /\ unanswered' = fails

(* marshalOop, as often as the program asks.                               *)
Read ==
  /\ oop \notin {Unset, Refused, OopIllegal}
  /\ IF IsImmediate(oop) THEN readBack' = MarshalImmediate(oop) /\ unanswered' = {} /\ UNCHANGED stringClass
     ELSE \E fails \in SUBSET ValueFaults : ReadObject(fails)
  /\ UNCHANGED <<value, oop, objects>>

(* A value that was read is written again, as programs do.                 *)
WriteAgain ==
  /\ readBack \notin {Unread, NotAnswered}
  /\ Cardinality(DOMAIN objects) <= MaxObjects
  /\ value' = readBack
  /\ oop' = Unset /\ readBack' = Unread /\ unanswered' = {}
  /\ UNCHANGED <<objects, stringClass>>

ValuesNext == Write \/ Read \/ WriteAgain

ValuesSpec == ValuesInit /\ [][ValuesNext]_valueVars

-----------------------------------------------------------------------------
(* Properties                                                              *)

SmallIntegers == -(Oops \div 16)..(Oops \div 16) - 1

(* A call failed that was to tell what the object is, now or when the      *)
(* class String was asked for.                                             *)
Missed ==
  /\ oop \in DOMAIN objects
  /\ \/ objects[oop].class = "Float" /\ "float" \in unanswered
     \/ objects[oop].class = "String" /\ ("class" \in unanswered \/ stringClass = "missing")

(* What is read is what was written, as a bigint if it was an integer,     *)
(* exactly for the values the encoding has room for: a bigint that is no   *)
(* SmallInteger silently becomes another number, and a handle its OOP.  So *)
(* does, and as silently, a Float or a String when the Stone does not tell *)
(* what it is; only a String that is known to be one makes a call that     *)
(* fails known.                                                            *)
SurvivesTheStone ==
  readBack # Unread =>
    LET kept == IF IsSafeInteger(value) THEN "bigint" ELSE value.type
        same == readBack.type = kept /\ readBack.is = value.is
    IN  /\ value.type = "handle" => readBack = AsOop(value.is)
        /\ Missed => readBack = AsOop(oop)
        /\ readBack = NotAnswered => value.type = "string" /\ "bytes" \in unanswered
        /\ value.type # "handle" /\ ~Missed /\ readBack # NotAnswered =>
             (same <=> (value.type = "bigint" => value.is \in SmallIntegers))
=============================================================================
