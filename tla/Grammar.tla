------------------------------- MODULE Grammar -------------------------------
(* A reference for the parser: how a tree is written down. Every operator has *)
(* a level, an operand below the level its place asks for is put in           *)
(* parentheses, and so is a command wherever what follows would be read as    *)
(* one more argument of it.                                                   *)
EXTENDS Parser

(* The levels, loosest first: the nonterminals of doc/grammar.md from the     *)
(* outermost to the innermost.                                                *)
Nonterminals ==
  <<AssignOps, {"BACKGROUND", "DISOWN_BG"}, {"THROW", "COPROC"}, {"TERNARY"}, {"COND_OR"}, {"COND_AND"}, {"PIPE"},
    {"COMMAND"}, {"WITH"}, {"EQ", "NE", "LT", "GT", "LE", "GE", "MATCH", "UNMATCH", "STR_CHECK"}, {"NULL_COALE"}, {"OR"},
    {"XOR"}, {"AND"}, {"ADD", "SUB"}, {"MUL", "DIV", "MOD"}, {"AS"}, {"NOT", "MINUS", "PLUS"}, {"SUFFIX"}>>
Level(x) == CHOOSE i \in DOMAIN Nonterminals : x \in Nonterminals[i]
Spelling ==
  ( "ASSIGN" :> <<"=">> ) @@ ( "ADD_ASSIGN" :> <<"+", "=">> ) @@ ( "SUB_ASSIGN" :> <<"-", "=">> )
  @@ ( "MUL_ASSIGN" :> <<"*", "=">> ) @@ ( "DIV_ASSIGN" :> <<"/", "=">> ) @@ ( "MOD_ASSIGN" :> <<"%", "=">> )
  @@ ( "STR_ASSIGN" :> <<":", "=">> ) @@ ( "NULL_ASSIGN" :> <<"?", "?", "=">> )
  @@ ( "COND_OR" :> <<"|", "|">> ) @@ ( "COND_AND" :> <<"&", "&">> ) @@ ( "EQ" :> <<"=", "=">> ) @@ ( "NE" :> <<"!", "=">> )
  @@ ( "LT" :> <<"<">> ) @@ ( "GT" :> <<">">> ) @@ ( "LE" :> <<"<", "=">> ) @@ ( "GE" :> <<">", "=">> )
  @@ ( "MATCH" :> <<"=", "~">> ) @@ ( "UNMATCH" :> <<"!", "~">> ) @@ ( "STR_CHECK" :> <<":", "-">> )
  @@ ( "NULL_COALE" :> <<"?", "?">> ) @@ ( "OR" :> <<"or">> ) @@ ( "XOR" :> <<"xor">> ) @@ ( "AND" :> <<"and">> )
  @@ ( "ADD" :> <<"+">> ) @@ ( "SUB" :> <<"-">> ) @@ ( "MUL" :> <<"*">> ) @@ ( "DIV" :> <<"/">> ) @@ ( "MOD" :> <<"%">> )
  @@ ( "NOT" :> <<"!">> ) @@ ( "MINUS" :> <<"-">> ) @@ ( "PLUS" :> <<"+">> )
  @@ ( "BACKGROUND" :> <<"&">> ) @@ ( "DISOWN_BG" :> <<"&", "!">> )
  @@ ( "REDIR_OUT_2_FILE" :> <<">">> ) @@ ( "REDIR_OUT_2_FILE_APPEND" :> <<">", ">">> )
  @@ ( "REDIR_MERGE_ERR_2_OUT_2_FILE" :> <<"&", ">">> ) @@ ( "REDIR_MERGE_ERR_2_OUT_2_FILE_APPEND" :> <<"&", ">", ">">> )
AssignOf(op) == CHOOSE a \in AssignOps : ResolveAssignOp[a] = op /\ a # "ASSIGN"

(* Words: the first after a blank, the others touching it, or each apart.     *)
Token(words) == [i \in DOMAIN words |-> W(words[i], IF i = 1 THEN "space" ELSE "none")]
Spaced(words) == [i \in DOMAIN words |-> W(words[i], "space")]
Touching(text) == IF text = <<>> THEN text ELSE <<W(text[1].w, "none")>> \o Tail(text)
Wrap(open, text, close) == Spaced(<<open>>) \o text \o Spaced(<<close>>)

(* Trees whose last word is read in the mode of command arguments, of a type  *)
(* or of a statement: what follows may be read as more of it.                 *)
RECURSIVE OpenEnded(_), InBraces(_)
InBraces(t) == (* an if of blocks, not a conditional expression *)
  /\ t.n = "If" /\ t.k[2].n = "Block"
  /\ t.k[3].n \in {"Block", "Empty"} \/ InBraces(t.k[3])
OpenEnded(t) ==
  \/ t.n \in {"Cmd", "With", "TypeOp"}
  \/ t.n = "Fork" /\ t.v # <<"COPROC">>
  \/ t.n \in {"BinaryOp", "Pipeline", "Assign", "SelfAssign", "Jump", "PrefixAssign"} /\ t.k # <<>> /\ OpenEnded(Last(t.k))
  \/ t.n = "Fork" /\ t.v = <<"COPROC">> /\ OpenEnded(t.k[1])
  \/ t.n = "If" /\ ~InBraces(t) /\ OpenEnded(t.k[3])

Greedy(t) == (t.n = "Jump" /\ t.v # <<"THROW">>) \/ (t.n = "Loop" /\ t.v = <<"do">>)
LevelOf(t) ==
  CASE Greedy(t) -> 0 (* an expression of any level may follow them *)
    [] t.n = "BinaryOp" -> Level(t.v[1]) [] t.n = "Pipeline" -> Level("PIPE") [] t.n \in {"Assign", "SelfAssign", "ElementSelfAssign"} -> Level("ASSIGN")
    [] t.n = "Apply" /\ t.v = <<"set">> -> Level("ASSIGN")
    [] t.n = "Fork" -> Level(t.v[1]) [] t.n = "Jump" /\ t.v = <<"THROW">> -> Level("THROW")
    [] t.n = "If" /\ ~InBraces(t) -> Level("TERNARY") [] t.n \in {"Cmd", "PrefixAssign"} -> Level("COMMAND") [] t.n = "With" -> Level("WITH")
    [] t.n = "TypeOp" -> Level("AS") [] t.n = "UnaryOp" /\ t.v # <<"UNWRAP">> -> Level("NOT") [] OTHER -> Level("SUFFIX")

RECURSIVE Write(_), WriteAll(_, _)
WriteAll(ts, between) ==
  IF ts = <<>> THEN <<>>
  ELSE IF Len(ts) = 1 THEN Write(ts[1]) ELSE Write(ts[1]) \o between \o WriteAll(Tail(ts), between)
At(t, level) == IF LevelOf(t) < level THEN Wrap("(", Write(t), ")") ELSE Write(t)
Before(t, level) == IF OpenEnded(t) THEN Wrap("(", Write(t), ")") ELSE At(t, level)
Comma == Spaced(<<",">>)
Item(t) == IF OpenEnded(t) THEN Wrap("(", Write(t), ")") ELSE Write(t)
RECURSIVE WriteItems(_)
WriteItems(ts) ==
  IF ts = <<>> THEN <<>> ELSE IF Len(ts) = 1 THEN Item(ts[1]) ELSE Item(ts[1]) \o Comma \o WriteItems(Tail(ts))
Endings == {"COND_AND", "COND_OR", "PIPE"} (* operators that end a command, too *)
WriteBinary(op, left, right) ==
  LET l == IF op \in {"NULL_COALE"} THEN Level(op) + 1 ELSE Level(op)
      r == IF op \in {"NULL_COALE"} THEN Level(op) ELSE Level(op) + 1
  IN  (IF op \in Endings THEN At(left, l) ELSE Before(left, l)) \o Token(Spelling[op]) \o At(right, r)
WriteAssign(op, left, right) == Before(left, Level("TERNARY")) \o Token(Spelling[op]) \o At(right, Level("ASSIGN"))
SegmentsTouch(texts) == FoldLeft(LAMBDA acc, x : acc \o (IF acc = <<>> THEN x ELSE Touching(x)), <<>>, texts)
Line(t) == Write(t) \o Spaced(<<";">>)
StatementsOf(ts) == FoldLeft(LAMBDA acc, x : acc \o Line(x), <<>>, ts)
Inserted(t) == t.k[1].n = "TypeOp" /\ t.k[1].v = <<"is">> /\ t.k[1].k[1].n = "Var"
OfType(t) == IF t.n = "Empty" THEN <<>> ELSE Spaced(<<":">>) \o Write(t)
Introduced == ( "RETURN" :> <<"return">> ) @@ ( "BREAK" :> <<"break">> ) @@ ( "CONTINUE" :> <<"continue">> )
  @@ ( "LET" :> <<"let">> ) @@ ( "VAR" :> <<"var">> ) @@ ( "EXPORT_ENV" :> <<"export-env">> ) @@ ( "import-env" :> <<"import-env">> )
ForIn(t) == t.k[1].n = "VarDecl" /\ t.k[1].v[2] = "%reset"
WriteLoop(t) ==
  CASE ForIn(t) -> (* for $x in e: the iterator and its variable are not written *)
         Spaced(<<"for", t.k[4].k[1].v[2], "in">>) \o Item(t.k[1].k[1].k[1]) \o Write([t.k[4] EXCEPT !.k = Tail(@)])
    [] t.v = <<"do">> -> Spaced(<<"do">>) \o Write(t.k[4]) \o Spaced(<<"while">>) \o Item(t.k[2])
    [] t.k[1].n = "Empty" /\ t.k[3].n = "Empty" -> Spaced(<<"while">>) \o Item(t.k[2]) \o Write(t.k[4])
    [] OTHER -> Spaced(<<"for", "(">>) \o Write(t.k[1]) \o Spaced(<<";">>) \o Write(t.k[2]) \o Spaced(<<";">>)
                  \o Item(t.k[3]) \o Spaced(<<")">>) \o Write(t.k[4])
Write(t) ==
  CASE t.n \in {"Number", "String", "Var", "WildCard", "Type"} -> Token(t.v)
    [] t.n = "Empty" -> <<>>
    [] t.n = "BinaryOp" -> WriteBinary(t.v[1], t.k[1], t.k[2])
    [] t.n = "Pipeline" ->
         FoldLeft(LAMBDA acc, x : acc \o Spaced(<<"|">>) \o At(x, Level("COMMAND")), At(t.k[1], Level("COMMAND")), Tail(t.k))
    [] t.n = "Assign" -> WriteAssign("ASSIGN", t.k[1], t.k[2])
    [] t.n \in {"SelfAssign", "ElementSelfAssign"} -> WriteAssign(AssignOf(t.v[1]), t.k[1], t.k[2])
    [] t.n = "Apply" /\ t.v = <<"set">> ->
         Before(t.k[1], Level("SUFFIX")) \o Wrap("[", Item(t.k[2]), "]") \o Token(<<"=">>) \o At(t.k[3], Level("ASSIGN"))
    [] t.n = "Apply" /\ t.v = <<"index">> -> Before(t.k[1], Level("SUFFIX")) \o Wrap("[", Item(t.k[2]), "]")
    [] t.n = "Apply" /\ t.v = <<"call">> -> (* $x.a(1) would call a method *)
         (IF t.k[1].n = "Access" THEN Wrap("(", Write(t.k[1]), ")") ELSE Before(t.k[1], Level("SUFFIX"))) \o Wrap("(", WriteItems(Tail(t.k)), ")")
    [] t.n = "Apply" -> Before(t.k[1], Level("SUFFIX")) \o Spaced(<<".">> \o t.v) \o Wrap("(", WriteItems(Tail(t.k)), ")")
    [] t.n = "Access" -> Before(t.k[1], Level("SUFFIX")) \o Spaced(<<".">> \o t.v)
    [] t.n = "UnaryOp" /\ t.v = <<"UNWRAP">> -> Before(t.k[1], Level("SUFFIX")) \o Spaced(<<"!">>)
    [] t.n = "UnaryOp" -> Token(Spelling[t.v[1]]) \o At(t.k[1], Level("NOT"))
    [] t.n = "TypeOp" -> Before(t.k[1], Level("AS")) \o Spaced(t.v) \o Write(t.k[2])
    [] t.n = "With" -> Before(t.k[1], Level("WITH")) \o Spaced(<<"with">>) \o WriteAll(Tail(t.k), <<>>)
    [] t.n = "Redir" -> Token(Spelling[t.v[1]]) \o WriteAll(t.k, <<>>)
    [] t.n = "Fork" /\ t.v # <<"COPROC">> -> At(t.k[1], Level("BACKGROUND") + 1) \o Token(Spelling[t.v[1]])
    [] t.n = "Fork" -> Spaced(<<"coproc">>) \o At(t.k[1], Level("COPROC"))
    [] t.n = "Jump" /\ t.v = <<"THROW">> -> Spaced(<<"throw">>) \o At(t.k[1], Level("THROW"))
    [] InBraces(t) ->
         Spaced(<<"if">>) \o Item(t.k[1])
         \o Write(IF Inserted(t) THEN [t.k[2] EXCEPT !.k = Tail(@)] ELSE t.k[2])
         \o (IF t.k[3].n = "Empty" THEN <<>>
             ELSE IF t.k[3].n = "If" THEN Spaced(<<"elif">>) \o Tail(Write(t.k[3])) ELSE Spaced(<<"else">>) \o Write(t.k[3]))
    [] t.n = "If" -> Before(t.k[1], Level("COND_OR")) \o Spaced(<<"?">>) \o Before(t.k[2], Level("TERNARY"))
                       \o Spaced(<<":">>) \o At(t.k[3], Level("TERNARY"))
    [] t.n = "Cmd" -> Spaced(t.v) \o WriteAll(t.k, <<>>)
    [] t.n = "CmdArg" -> SegmentsTouch([i \in DOMAIN t.k |-> Write(t.k[i])])
    [] t.n = "CmdSub" -> Wrap("$(", Write(t.k[1]), ")")
    [] t.n = "ProcSub" -> Token(<<IF t.v = <<"START_IN_SUB">> THEN ">" ELSE "<", "(">>) \o Write(t.k[1]) \o Spaced(<<")">>)
    [] t.n = "Embed" /\ t.k[1].n = "Var" -> Token(t.k[1].v)
    [] t.n = "Embed" -> Wrap("${", Item(t.k[1]), "}")
    [] t.n = "StringExpr" -> Wrap("\"", WriteAll(t.k, <<>>), "\"")
    [] t.n = "Tuple" -> Wrap("(", WriteItems(t.k) \o (IF Len(t.k) = 1 THEN Comma ELSE <<>>), ")")
    [] t.n = "Array" -> Wrap("[", WriteItems(t.k), "]")
    [] t.n = "Map" ->
         Wrap("[", FoldLeft(LAMBDA acc, i : acc \o (IF i = 1 THEN <<>> ELSE Comma)
                                            \o Before(t.k[2 * i - 1], Level("COND_OR")) \o Spaced(<<":">>) \o Item(t.k[2 * i]),
                            <<>>, [i \in 1 .. Len(t.k) \div 2 |-> i]), "]")
    [] t.n = "Block" -> Wrap("{", StatementsOf(t.k), "}")
    [] t.n = "Loop" -> WriteLoop(t)
    [] t.n = "Case" -> Spaced(<<"case">>) \o Item(t.k[1]) \o Wrap("{", StatementsOf(Tail(t.k)), "}")
    [] t.n = "Arm" ->
         (IF Len(t.k) = 1 THEN Spaced(<<"else">>)
          ELSE FoldLeft(LAMBDA acc, x : acc \o Spaced(<<"|">>) \o Before(x, Level("COMMAND")),
                        Before(t.k[1], Level("COMMAND")), Tail(Front(t.k))))
         \o Token(<<"=", ">">>) \o Write(Last(t.k))
    [] t.n = "Try" ->
         LET catches == SelectSeq(t.k, LAMBDA x : x.n = "Catch")
         IN  Spaced(<<"try">>) \o Write(t.k[1]) \o WriteAll(catches, <<>>)
             \o (IF t.v = <<>> THEN <<>> ELSE Spaced(<<"finally">>) \o Write(Last(t.k)))
    [] t.n = "Catch" -> Spaced(<<"catch">> \o t.v) \o OfType(t.k[1]) \o Write(t.k[2])
    [] t.n = "Jump" -> Spaced(Introduced[t.v[1]]) \o WriteAll(t.k, <<>>)
    [] t.n = "New" -> Spaced(<<"new">>) \o Write(t.k[1]) \o Wrap("(", WriteItems(Tail(t.k)), ")")
    [] t.n = "Param" -> Spaced(t.v) \o OfType(t.k[1])
    [] t.n = "Function" ->
         LET params == SelectSeq(t.k, LAMBDA x : x.n = "Param")
             returns == t.k[Len(params) + 1].k
         IN  Spaced(<<"function">> \o t.v) \o Wrap("(", WriteAll(params, Comma), ")")
             \o (IF returns = <<Void>> THEN <<>> ELSE Spaced(<<":">>) \o WriteAll(returns, Comma)) \o Write(Last(t.k))
    [] t.n = "UserDefinedCmd" -> Spaced(t.v \o <<"(", ")">>) \o Write(t.k[1])
    [] t.n = "Assert" -> Spaced(<<"assert">>) \o Before(t.k[1], Level("COND_OR"))
                           \o (IF Len(t.k) = 1 THEN <<>> ELSE Spaced(<<":">>) \o Write(t.k[2]))
    [] t.n = "TypeAlias" -> Spaced(<<"typedef">> \o t.v \o <<"=">>) \o Write(t.k[1])
    [] t.n = "FuncType" -> Wrap("(", WriteAll(Tail(t.k), Comma), ")") \o Token(<<"-", ">">>) \o Write(t.k[1])
    [] t.n = "TypeOf" -> Spaced(<<"typeof", "(">>) \o Write(t.k[1]) \o Spaced(<<")">>)
    [] t.n = "Reified" /\ t.v = <<"Tuple">> -> Wrap("(", WriteAll(t.k, Comma) \o (IF Len(t.k) = 1 THEN Comma ELSE <<>>), ")")
    [] t.n = "SourceList" -> Spaced(<<"source">>) \o Write(t.k[1]) \o (IF t.v = <<>> THEN <<>> ELSE Spaced(<<"as">> \o t.v))
    [] t.n = "Reified" /\ t.v = <<"Option">> -> Write(t.k[1]) \o Spaced(<<"!">>)
    [] t.n = "Reified" /\ t.v = <<"Array">> -> Wrap("[", Write(t.k[1]), "]")
    [] t.n = "Reified" -> Wrap("[", Write(t.k[1]) \o Spaced(<<":">>) \o Write(t.k[2]), "]")
    [] t.n = "VarDecl" ->
         Spaced(Introduced[t.v[1]] \o <<t.v[2]>>)
         \o (IF t.k = <<>> THEN <<>>
             ELSE IF t.v[1] = "import-env" THEN Spaced(<<":">>) \o Write(t.k[1])
             ELSE IF t.k[1].n = "New" /\ Len(t.k[1].k) = 1 THEN OfType(t.k[1].k[1])
             ELSE Spaced(<<"=">>) \o Write(t.k[1]))
    [] t.n = "PrefixAssign" ->
         FoldLeft(LAMBDA acc, x : acc \o (IF x.n = "Assign" /\ x.k[2].n = "CmdArg" THEN Token(x.k[1].v \o <<"=">>) \o Touching(Write(x.k[2]))
                                         ELSE At(x, Level("WITH"))), <<>>, t.k)
=============================================================================
