-------------------------------- MODULE Types --------------------------------
(* The types of the shell and what may stand for what: the builtin types and *)
(* their super types, the types made from them, and the methods the checker  *)
(* finds for a receiver. A type is a name and the types it is made of; two   *)
(* types are the same one when they are written alike (TypePool::nameMap).   *)
EXTENDS Integers, Sequences, SequencesExt, FiniteSets, TLC

Type(n, e) == [n |-> n, e |-> e]
T(n) == Type(n, <<>>)
NoType == T("none")
ProcGuard == T("process guard%%")
Root == T("pseudo top%%")
AnyType == T("Any")
Void == T("Void")
Nothing == T("Nothing")
Value == T("Value%%")
IntType == T("Int")
Float == T("Float")
Boolean == T("Boolean")
String == T("String")
Regex == T("Regex")
Error == T("Error")
Job == T("Job")
Func == T("Func")
UnixFD == T("UnixFD")

Scalars == {"Int", "Float", "Boolean", "String", "Signal"}
ErrorTypes ==
  {"ArithmeticError", "OutOfRangeError", "KeyNotFoundError", "TypeCastError", "UnwrappingError", "SystemError",
   "InvalidOperationError", "IllegalAccessError", "StackOverflowError"}
Builtins ==
  {"Any", "Void", "Nothing", "Value%%", "Regex", "Error", "Job", "Func", "UnixFD"} \cup Scalars \cup ErrorTypes
Status == {"Shell Exit", "Assertion Error"}

(* TypePool::TypePool: the super type of each type, of an option none.        *)
SuperType(t) ==
  CASE t.n \in Scalars -> Value
    [] t.n \in ErrorTypes -> Error
    [] t.n = "FuncType" -> Func
    [] t.n \in {"Value%%", "Regex", "Error", "Job", "Func", "UnixFD", "Array", "Map", "Tuple"} -> AnyType
    [] t.n = "Any" \/ t.n \in Status -> Root
    [] t = Root -> ProcGuard
    [] OTHER -> NoType

IsOption(t) == t.n = "Option"
IsFunc(t) == t.n = "FuncType"
Element(t) == t.e[1]

RECURSIVE IsSameOrBaseTypeOf(_, _)
IsSameOrBaseTypeOf(t, target) ==
  \/ t = target
  \/ target = Nothing
  \/ IsOption(t) /\ IsSameOrBaseTypeOf(Element(t), target)
  \/ ~IsOption(t) /\ SuperType(target) # NoType /\ IsSameOrBaseTypeOf(t, SuperType(target))

(* The types made from others. An option of an option is that option, and an  *)
(* element is neither Void nor Nothing; a key of a map is a value.            *)
ElementOK(t) == t \notin {Void, Nothing, NoType}
OptionType(t) == IF ~ElementOK(t) THEN NoType ELSE IF IsOption(t) THEN t ELSE Type("Option", <<t>>)
ArrayType(t) == IF ElementOK(t) THEN Type("Array", <<t>>) ELSE NoType
MapType(k, v) == IF ElementOK(k) /\ ElementOK(v) /\ IsSameOrBaseTypeOf(Value, k) THEN Type("Map", <<k, v>>) ELSE NoType
TupleType(e) == IF e # <<>> /\ \A i \in DOMAIN e : ElementOK(e[i]) THEN Type("Tuple", e) ELSE NoType
FuncType(ret, params) ==
  IF ret # NoType /\ \A i \in DOMAIN params : ElementOK(params[i]) THEN Type("FuncType", <<ret>> \o params) ELSE NoType
StringArray == Type("Array", <<String>>)
ReifiedType(template, e) ==
  CASE template = "Option" /\ Len(e) = 1 -> OptionType(e[1])
    [] template = "Array" /\ Len(e) = 1 -> ArrayType(e[1])
    [] template = "Map" /\ Len(e) = 2 -> MapType(e[1], e[2])
    [] template = "Tuple" -> TupleType(e)
    [] OTHER -> NoType

(* The integers there are, and how each is written.                          *)
Ints == -8 .. 7
Text(i) == ToString(i)
IntOf == [s \in {Text(i) : i \in Ints} |-> CHOOSE i \in Ints : Text(i) = s]

(* Methods: what each is called on, its parameters and what it returns. The   *)
(* methods left out are those of builtin.h that nothing here calls.           *)
Method(name, params, ret) == [name |-> name, params |-> params, ret |-> ret]
NoMethod == Method("", <<>>, NoType)
Named(x, names, params, ret) == IF x \in names THEN {Method(x, params, ret)} ELSE {}
IntMethods(x) ==
  Named(x, {"ADD", "SUB", "MUL", "DIV", "MOD"}, <<IntType>>, IntType) \cup Named(x, {"EQ", "NE", "LT", "GT", "LE", "GE"}, <<IntType>>, Boolean)
  \cup Named(x, {"PLUS", "MINUS", "NOT"}, <<>>, IntType) \cup Named(x, {"TO_FLOAT"}, <<>>, Float)
StringMethods(x) ==
  Named(x, {"EQ", "startsWith", "endsWith"}, <<String>>, Boolean) \cup Named(x, {"empty"}, <<>>, Boolean) \cup Named(x, {"size"}, <<>>, IntType)
  \cup Named(x, {"MATCH"}, <<Regex>>, Boolean) \cup Named(x, {"indexOf", "lastIndexOf"}, <<String>>, IntType)
  \cup Named(x, {"GET", "from", "to"}, <<IntType>>, String) \cup Named(x, {"slice"}, <<IntType, IntType>>, String)
  \cup Named(x, {"split"}, <<String>>, StringArray) \cup Named(x, {"replace"}, <<String, String>>, String)
ArrayMethods(x, t, e) ==
  Named(x, {"GET", "remove"}, <<IntType>>, e) \cup Named(x, {"get"}, <<IntType>>, OptionType(e)) \cup Named(x, {"SET", "insert"}, <<IntType, e>>, Void)
  \cup Named(x, {"swap"}, <<IntType, e>>, e) \cup Named(x, {"peek", "pop", "shift", "NEXT"}, <<>>, e) \cup Named(x, {"push", "unshift"}, <<e>>, Void)
  \cup Named(x, {"add"}, <<e>>, t) \cup Named(x, {"extend"}, <<t>>, t) \cup Named(x, {"slice"}, <<IntType, IntType>>, t)
  \cup Named(x, {"from", "to"}, <<IntType>>, t) \cup Named(x, {"copy", "reverse", "ITER"}, <<>>, t)
  \cup (IF IsSameOrBaseTypeOf(Value, e) THEN Named(x, {"sort"}, <<>>, t) ELSE {})
  \cup Named(x, {"join"}, <<String>>, String) \cup Named(x, {"size"}, <<>>, IntType) \cup Named(x, {"empty", "HAS_NEXT"}, <<>>, Boolean)
  \cup Named(x, {"clear"}, <<>>, Void) \cup Named(x, {"CMD_ARG"}, <<>>, StringArray)
MapMethods(x, t, k, e) ==
  Named(x, {"GET"}, <<k>>, e) \cup Named(x, {"SET"}, <<k, e>>, Void) \cup Named(x, {"put"}, <<k, e>>, OptionType(e))
  \cup Named(x, {"default", "swap"}, <<k, e>>, e) \cup Named(x, {"size"}, <<>>, IntType) \cup Named(x, {"empty", "HAS_NEXT"}, <<>>, Boolean)
  \cup Named(x, {"get"}, <<k>>, OptionType(e)) \cup Named(x, {"find", "remove"}, <<k>>, Boolean) \cup Named(x, {"copy", "ITER"}, <<>>, t)
  \cup Named(x, {"clear"}, <<>>, Void) \cup Named(x, {"NEXT"}, <<>>, TupleType(<<k, e>>))
Methods(t, x) ==
  CASE t = IntType -> IntMethods(x)
    [] t = Float -> Named(x, {"TO_INT"}, <<>>, IntType)
    [] t = Boolean -> Named(x, {"NOT"}, <<>>, Boolean) \cup Named(x, {"EQ"}, <<Boolean>>, Boolean)
    [] t = String -> StringMethods(x)
    [] t.n = "Array" -> ArrayMethods(x, t, Element(t))
    [] t.n = "Map" -> MapMethods(x, t, t.e[1], t.e[2])
    [] t.n = "Tuple" -> Named(x, {"CMD_ARG"}, <<>>, StringArray)
    [] t = AnyType -> Named(x, {"STR", "INTERP"}, <<>>, String)
    [] t = UnixFD -> Named(x, {"BOOL", "NOT"}, <<>>, Boolean)
    [] OTHER -> {}
RECURSIVE LookupMethod(_, _)
OwnOrInherited(own, t, name) ==
  IF own # {} THEN CHOOSE method \in own : TRUE ELSE IF t = NoType THEN NoMethod ELSE LookupMethod(SuperType(t), name)
LookupMethod(t, name) == OwnOrInherited(Methods(t, name), t, name)
=============================================================================
