------------------------------- MODULE Parser -------------------------------
(* The recursive descent parser of scripts. Each rule takes the parser's      *)
(* state and returns it with the node it made in out; once err is set nothing *)
(* moves any more. The parser drives the lexer: some rules choose the mode    *)
(* the next token is read in, or go back and read a token again in another.   *)
(* Left out: completion, the limit on nesting, and positions but for those    *)
(* that decide where the lexer goes on.                                       *)
EXTENDS Lexer, Nodes

Start(text) ==
  [text |-> text, pos |-> 1, bare |-> FALSE, mode |-> Mode("STMT", FALSE), stack |-> <<>>, prev |-> "STMT",
   kind |-> "EOS", at |-> 1, to |-> 1, nl |-> FALSE, sp |-> FALSE, used |-> "EOS", last |-> 1,
   skips |-> <<FALSE>>, err |-> FALSE, out |-> Empty]

(* The rules of the grammar call each other: Call stands for a call of a rule *)
(* by its name, x for what it is given besides the parser.                    *)
RECURSIVE Call(_, _, _)

(* The operations of ParserBase and the parser's own on the lexer's modes.    *)
Fail(s) == [s EXCEPT !.err = TRUE]
Fetch(s) == IF s.err THEN s ELSE Call("NextToken", s, <<>>)
Trace(s) == IF s.err THEN s ELSE [s EXCEPT !.used = s.kind, !.last = s.to]
Consume(s) == Fetch(Trace(s))
ExpectOnly_keep(s, kind) == Trace(s)
ExpectOnly(s, kind) == IF s.kind # kind THEN Fail(s) ELSE Trace(s)
Expect(s, kind) == Fetch(ExpectOnly(s, kind))
ExpectMode(s, kind, cond) == Fetch(SetLexerMode(ExpectOnly(s, kind), Mode(cond, FALSE)))
Enter(s, cond) == Fetch(PushLexerMode(s, Mode(cond, FALSE)))
Refetch(s, cond) == Fetch([SetLexerMode(s, Mode(cond, FALSE)) EXCEPT !.pos = s.at, !.bare = TRUE])
RestoreLexerState(s) == Fetch([PopLexerMode(s) EXCEPT !.pos = s.last, !.bare = FALSE])
ChangeToSTMT(s) == IF s.prev # "STMT" /\ s.kind \notin {"LP", "LB", "LBC"} THEN Refetch(s, "STMT") ELSE s

Skipping(s, skip) == [s EXCEPT !.skips = Append(@, skip)]
Leave(s) == IF s.err THEN s ELSE [s EXCEPT !.skips = Front(@)]
LineTerminator(s) == s.nl /\ ~Last(s.skips)
Out(s, node) == IF s.err THEN s ELSE [s EXCEPT !.out = node]
Is(s, kinds) == ~s.err /\ s.kind \in kinds
Value(s) == [i \in 1 .. s.to - s.at |-> s.text[s.at + i - 1].w]
Leaf(s, n) == Out(Consume(s), Node(n, Value(s), <<>>))
Named(s) == <<s.text[s.at].w>>

(* token_kind.h: what may begin a rule, and the precedences.                  *)
LAInterpolation == {"APPLIED_NAME", "SPECIAL_NAME", "APPLIED_NAME_WITH_FIELD", "START_INTERP"}
LAParamExpansion == LAInterpolation
  \cup {"APPLIED_NAME_WITH_BRACKET", "SPECIAL_NAME_WITH_BRACKET", "APPLIED_NAME_WITH_PAREN"}
LAExpression ==
  {"COMMAND", "ENV_ASSIGN", "NEW", "INT_LITERAL", "FLOAT_LITERAL", "STRING_LITERAL", "REGEX_LITERAL",
   "SIGNAL_LITERAL", "OPEN_DQUOTE", "START_SUB_CMD", "APPLIED_NAME", "SPECIAL_NAME", "START_IN_SUB",
   "START_OUT_SUB", "AT_PAREN", "LP", "LB", "LBC", "DO", "FOR", "IF", "CASE", "TRY", "WHILE", "BREAK",
   "CONTINUE", "RETURN", "NOT", "PLUS", "MINUS", "THROW", "COPROC"}
LARedirFile ==
  {"REDIR_IN_2_FILE", "REDIR_OUT_2_FILE", "REDIR_OUT_2_FILE_APPEND", "REDIR_ERR_2_FILE", "REDIR_ERR_2_FILE_APPEND",
   "REDIR_MERGE_ERR_2_OUT_2_FILE", "REDIR_MERGE_ERR_2_OUT_2_FILE_APPEND", "REDIR_HERE_STR"}
LARedirNoFile == {"REDIR_MERGE_ERR_2_OUT", "REDIR_MERGE_OUT_2_ERR"}
LACmdArg == LAParamExpansion
  \cup {"CMD_ARG_PART", "PATH_SEP", "GLOB_ANY", "GLOB_ZERO_OR_MORE", "STRING_LITERAL", "OPEN_DQUOTE",
        "START_SUB_CMD", "START_IN_SUB", "START_OUT_SUB", "LP"}

Levels ==
  <<AssignOps, {"BACKGROUND", "DISOWN_BG"}, {"THROW", "COPROC"}, {"TERNARY"}, {"COND_OR"}, {"COND_AND"}, {"PIPE"},
    {"ENV_ASSIGN"}, {"WITH"}, {"LT", "GT", "LE", "GE", "EQ", "NE", "MATCH", "UNMATCH", "STR_CHECK"}, {"NULL_COALE"},
    {"OR"}, {"XOR"}, {"AND"}, {"ADD", "SUB"}, {"MUL", "DIV", "MOD"}, {"IS", "AS"}>>
Operators == UNION {Levels[i] : i \in DOMAIN Levels}
Precedence == [op \in Operators |-> CHOOSE i \in DOMAIN Levels : op \in Levels[i]]
Infix == Operators \ {"ENV_ASSIGN", "THROW", "COPROC"}
RightAssoc == AssignOps \cup {"NULL_COALE"}
Lowest == Precedence["ASSIGN"]

(* Types are read in a mode of their own, which the end of the type pops.     *)
Void == BaseTypeNode(<<"Void">>)
Types(s, acc) ==
  LET t == Call("TypeName", s, FALSE)
  IN  IF Is(t, {"TYPE_SEP"}) THEN Call("Types", Consume(t), Append(acc, t.out)) ELSE Out(t, Append(acc, t.out))
Qualified(s) ==
  IF Is(s, {"TYPE_DOT"}) /\ ~LineTerminator(s)
  THEN LET i == Consume(s) IN Call("Qualified", Out(Expect(i, "IDENTIFIER"), QualifiedTypeNode(s.out, Named(i))), <<>>)
  ELSE s
Reified(s) == (* parse_basicOrReifiedType, at the token after the name *)
  IF Is(s, {"TYPE_OPEN"}) /\ ~LineTerminator(s)
  THEN LET t == Call("Types", Consume(s), <<>>) IN Out(Expect(t, "TYPE_CLOSE"), ReifiedTypeNode(s.out.v, t.out))
  ELSE Call("Qualified", s, <<>>)
TupleTypes(s, acc, commas) ==
  LET t == Call("TypeName", s, FALSE)
      all == Append(acc, t.out)
  IN  IF s.err \/ s.kind = "PTYPE_CLOSE" THEN Out(s, <<acc, commas>>)
      ELSE IF Is(t, {"TYPE_SEP"}) THEN Call("TupleTypes", Consume(t), <<all, commas + 1>>)
      ELSE IF Is(t, {"PTYPE_CLOSE"}) THEN Out(t, <<all, commas>>)
      ELSE Fail(t)
FuncType(s) ==
  LET r == Call("TypeName", Consume(s), FALSE)
      p == Call("Types", Expect(Consume(r), "ATYPE_OPEN"), <<>>)
  IN  IF Is(r, {"TYPE_SEP"})
      THEN Out(Expect(Expect(p, "ATYPE_CLOSE"), "TYPE_CLOSE"), FuncTypeNode(r.out, p.out))
      ELSE Out(Expect(r, "TYPE_CLOSE"), FuncTypeNode(r.out, <<>>))
TypeNameImpl(s) ==
  CASE s.kind = "IDENTIFIER" -> Reified(Leaf(s, "Type"))
    [] s.kind = "PTYPE_OPEN" ->
         LET p == Call("TupleTypes", Consume(s), <<<<>>, 0>>)
             c == Expect(p, "PTYPE_CLOSE")
             r == Call("TypeName", Expect(c, "TYPE_ARROW"), FALSE)
         IN  IF c.err THEN c
             ELSE IF p.out[1] = <<>> \/ c.kind = "TYPE_ARROW" THEN Out(r, FuncTypeNode(r.out, p.out[1]))
             ELSE Out(c, IF p.out[2] = 0 THEN p.out[1][1] ELSE ReifiedTypeNode(<<"Tuple">>, p.out[1]))
    [] s.kind = "ATYPE_OPEN" ->
         LET e == Call("TypeName", Consume(s), FALSE)
             v == Call("TypeName", Consume(e), FALSE)
         IN  IF Is(e, {"TYPE_MSEP"}) THEN Out(Expect(v, "ATYPE_CLOSE"), ReifiedTypeNode(<<"Map">>, <<e.out, v.out>>))
             ELSE Out(Expect(e, "ATYPE_CLOSE"), ReifiedTypeNode(<<"Array">>, <<e.out>>))
    [] s.kind = "TYPEOF" ->
         LET t == Leaf(s, "Type")
             e == Call("Expression", Enter(Trace(t), "STMT"), Lowest)
         IN  IF Is(t, {"PTYPE_OPEN"}) THEN Out(Expect(e, "RP"), TypeOfNode(e.out)) ELSE Reified(t)
    [] s.kind = "FUNC" ->
         LET t == Leaf(s, "Type") IN IF Is(t, {"TYPE_OPEN"}) /\ ~LineTerminator(t) THEN FuncType(t) ELSE t
    [] OTHER -> Fail(s)
TypeOptions(s) ==
  IF Is(s, {"TYPE_OPT"}) /\ ~LineTerminator(s)
  THEN Call("TypeOptions", Out(Consume(s), ReifiedTypeNode(<<"Option">>, <<s.out>>)), <<>>) ELSE s
TypeName(s, enter) ==
  LET t == IF enter THEN Enter(s, "TYPE") ELSE s
      r == Call("TypeOptions", TypeNameImpl(t), <<>>)
  IN  IF s.err THEN s ELSE IF enter THEN RestoreLexerState(r) ELSE r

(* Lists of expressions: a tuple or a group, arguments, an array, a map.      *)
Items(s, acc, commas) == (* of a tuple: up to RP, a comma may end it *)
  LET e == Call("Expression", s, Lowest)
      all == Append(acc, e.out)
      c == Consume(e)
  IN  IF Is(e, {"COMMA"}) /\ Is(c, {"RP"}) THEN Out(Consume(c), TupleNode(all))
      ELSE IF Is(e, {"COMMA"}) THEN Call("Items", c, <<all, commas + 1>>)
      ELSE Out(Expect(e, "RP"), IF commas = 0 THEN e.out ELSE TupleNode(all))
Arrays(s, acc) == (* parse_arrayBody, at the token after an item *)
  LET c == Consume(s)
      e == Call("Expression", c, Lowest)
  IN  CASE Is(s, {"COMMA"}) /\ Is(c, {"RB"}) -> Out(c, acc)
        [] Is(s, {"COMMA"}) -> Call("Arrays", e, Append(acc, e.out))
        [] Is(s, {"RB"})    -> Out(s, acc)
        [] OTHER            -> Fail(s)
MapValue(s) == Call("Expression", ExpectMode(s, "COLON", "STMT"), Lowest)
MapItems(s, acc) == (* parse_mapBody *)
  LET c == Consume(s)
      k == Call("Expression", c, Lowest)
      v == MapValue(k)
  IN  CASE Is(s, {"COMMA"}) /\ Is(c, {"RB"}) -> Out(c, acc)
        [] Is(s, {"COMMA"}) -> Call("MapItems", v, acc \o <<k.out, v.out>>)
        [] Is(s, {"RB"})    -> Out(s, acc)
        [] OTHER            -> Fail(s)
Args(s, acc) ==
  LET c == IF acc = <<>> THEN s ELSE Expect(s, "COMMA")
      e == IF Is(c, LAExpression) THEN Call("Expression", c, Lowest) ELSE Fail(c)
  IN  IF s.err \/ s.kind = "RP" THEN Out(s, acc) ELSE Call("Args", e, Append(acc, e.out))
RestOfArguments(s) == (* after the parenthesis *)
  LET a == Call("Args", s, <<>>) IN Leave(Out(Expect(a, "RP"), a.out))
Arguments(s) == RestOfArguments(Expect(Skipping(s, TRUE), "LP"))

(* Strings, substitutions and what a variable expands to.                     *)
Interpolation(s) ==
  LET e == Call("Expression", Expect(Skipping(s, TRUE), "START_INTERP"), Lowest)
  IN  CASE Is(s, {"APPLIED_NAME", "SPECIAL_NAME"}) -> LET t == Leaf(s, "Var") IN Out(t, EmbedNode(t.out))
        [] Is(s, {"APPLIED_NAME_WITH_FIELD"}) ->
             Out(Consume(s), EmbedNode(AccessNode(VarNode(<<"$x">>), <<"y">>)))
        [] OTHER -> Leave(Out(Expect(e, "RBC"), EmbedNode(e.out)))
ParamExpansion(s) ==
  LET e == Call("Expression", Consume(s), Lowest)
      a == RestOfArguments(Consume(Skipping(s, TRUE)))
  IN  CASE Is(s, {"APPLIED_NAME_WITH_BRACKET", "SPECIAL_NAME_WITH_BRACKET"}) ->
             Out(Expect(e, "RB"), EmbedNode(ApplyNode(VarNode(Named(s)), <<"index">>, <<e.out>>)))
        [] Is(s, {"APPLIED_NAME_WITH_PAREN"}) ->
             Out(a, EmbedNode(ApplyNode(VarNode(Named(s)), <<"call">>, a.out)))
        [] OTHER -> Call("Interpolation", s, <<>>)
Substitution(s) ==
  LET e == Call("Expression", Consume(Skipping(s, TRUE)), Lowest)
  IN  Leave(Out(Expect(e, "RP"), e.out))
CmdSubstitution(s, string) == LET e == Substitution(s) IN Out(e, CmdSubNode(IF string THEN "string" ELSE "array", e.out))
ProcSubstitution(s) == LET e == Substitution(s) IN Out(e, ProcSubNode(s.kind, e.out))
Elements(s, acc) ==
  LET add(t) == Call("Elements", t, Append(acc, t.out))
  IN  CASE Is(s, {"STR_ELEMENT"})   -> add(Leaf(s, "String"))
        [] Is(s, LAInterpolation)   -> add(Call("Interpolation", s, <<>>))
        [] Is(s, {"START_SUB_CMD"}) -> add(Call("CmdSubstitution", s, TRUE))
        [] OTHER                    -> Out(Expect(s, "CLOSE_DQUOTE"), StringExprNode(acc))
StringExpression(s) == Call("Elements", Consume(s), <<>>)

(* Commands: arguments of segments that touch, and redirections. A name with  *)
(* parentheses after it begins the definition of a command.                   *)
CmdArgSeg(s) ==
  CASE Is(s, {"CMD_ARG_PART", "PATH_SEP"}) -> Leaf(s, "String")
    [] Is(s, {"GLOB_ANY", "GLOB_ZERO_OR_MORE"}) -> Leaf(s, "WildCard")
    [] Is(s, {"STRING_LITERAL"}) -> Leaf(s, "String")
    [] Is(s, {"OPEN_DQUOTE"}) -> StringExpression(s)
    [] Is(s, {"START_SUB_CMD"}) -> Call("CmdSubstitution", s, FALSE)
    [] Is(s, {"START_IN_SUB", "START_OUT_SUB"}) -> ProcSubstitution(s)
    [] Is(s, LAParamExpansion) -> ParamExpansion(s)
    [] OTHER -> Fail(s)
Segments(s, acc) ==
  LET t == CmdArgSeg(s)
  IN  IF acc = <<>> \/ (~s.sp /\ ~s.nl /\ Is(s, LACmdArg)) THEN Call("Segments", t, Append(acc, t.out))
      ELSE Out(s, CmdArgNode(acc))
CmdArg(s) == IF s.err THEN s ELSE Call("Segments", s, <<>>)
RedirOption(s) ==
  LET a == Call("CmdArg", Consume(s), <<>>)
  IN  CASE Is(s, LARedirFile)   -> Out(a, RedirNode(s.kind, <<a.out>>))
        [] Is(s, LARedirNoFile) -> Out(Consume(s), RedirNode(s.kind, <<>>))
        [] OTHER                -> Fail(s)
CmdArgs(s, acc) ==
  LET t == IF Is(s, LACmdArg) THEN Call("CmdArg", s, <<>>) ELSE Call("RedirOption", s, <<>>)
      more == ~LineTerminator(s) /\ (s.sp \/ s.nl)
  IN  IF more /\ Is(s, {"INVALID"}) THEN Fail(s)
      ELSE IF more /\ Is(s, LACmdArg \cup LARedirFile \cup LARedirNoFile) THEN Call("CmdArgs", t, Append(acc, t.out))
      ELSE Out(s, acc)
Command(s) ==
  LET t == Leaf(s, "String")
      b == Call("Block", Expect(Consume(t), "RP"), <<>>)
      a == Call("CmdArgs", t, <<>>)
  IN  IF Is(t, {"LP"}) THEN Out(b, UserDefinedCmdNode(t.out.v, b.out))
      ELSE Out(a, CmdNode(t.out.v, a.out))
CmdArgArray(s, acc) == (* after the parenthesis *)
  IF Is(s, LACmdArg) THEN LET t == Call("CmdArg", s, <<>>) IN Call("CmdArgArray", t, Append(acc, t.out))
  ELSE Leave(Out(Expect(s, "RP"), ArgArrayNode(acc)))

(* Expressions, by the precedence of their operators.                         *)
Redirs(s, acc) ==
  LET t == Call("RedirOption", s, <<>>)
  IN  IF s.sp /\ Is(s, {"INVALID"}) THEN Fail(s)
      ELSE IF s.sp /\ Is(s, LARedirFile \cup LARedirNoFile) THEN Call("Redirs", t, Append(acc, t.out)) ELSE Out(s, acc)
NextPrecedence_same(op) == Precedence[op]
NextPrecedence(op) == IF op \in RightAssoc THEN Precedence[op] ELSE Precedence[op] + 1
Infixes(s, base) ==
  LET left == s.out
      op == s.kind
      type == Call("TypeName", Trace(s), TRUE)
      redir == Call("RedirOption", Consume(s), <<>>)
      redirs == Call("Redirs", redir, <<redir.out>>)
      then == Call("Expression", Consume(s), Precedence["TERNARY"])
      else == Call("Expression", ExpectMode(then, "COLON", "STMT"), Precedence["TERNARY"])
      right == Call("Expression", Consume(s), NextPrecedence(op))
  IN  IF s.err \/ LineTerminator(s) \/ op \notin Infix \/ Precedence[op] < base THEN s
      ELSE CASE op = "AS" -> Call("Infixes", Out(type, TypeOpNode("as", left, type.out)), base)
             [] op = "IS" -> Call("Infixes", Out(type, TypeOpNode("is", left, type.out)), base)
             [] op = "WITH" -> Call("Infixes", Out(redirs, WithNode(left, redirs.out)), base)
             [] op = "TERNARY" -> Call("Infixes", Out(else, IfNode(left, then.out, else.out)), base)
             [] op \in {"BACKGROUND", "DISOWN_BG"} -> Out(Consume(s), ForkNode(op, left))
             [] OTHER -> Call("Infixes", Out(right, CreateBinaryNode(left, op, right.out)), base)
Expression(s, base) == Call("Infixes", Call("Unary", s, <<>>), base)
Unary(s) ==
  LET u == Call("Unary", Consume(s), <<>>)
      e == Call("Expression", Consume(s), Precedence[s.kind])
  IN  CASE Is(s, {"PLUS", "MINUS", "NOT"}) -> Out(u, UnaryOpNode(s.kind, u.out))
        [] Is(s, {"THROW", "COPROC"}) -> Out(e, IF s.kind = "THROW" THEN JumpNode(s.kind, <<e.out>>) ELSE ForkNode(s.kind, e.out))
        [] OTHER -> Call("SuffixesOf", Call("Primary", s, <<>>), <<>>)
SuffixesOf(s) ==
  LET node == s.out
      name == Expect(Consume(s), "IDENTIFIER")
      access == AccessNode(node, Named(Consume(s)))
      args == Call("Arguments", IF s.kind = "ACCESSOR" THEN name ELSE s, <<>>)
      index == Call("Expression", Consume(s), Lowest)
  IN  CASE s.err \/ LineTerminator(s) -> s
        [] Is(s, {"ACCESSOR"}) ->
             IF name.err \/ name.kind # "LP" \/ LineTerminator(name) THEN Call("SuffixesOf", Out(name, access), <<>>)
             ELSE Call("SuffixesOf", Out(args, ApplyNode(node, access.v, args.out)), <<>>)
        [] Is(s, {"LB"}) -> Call("SuffixesOf", Out(Expect(index, "RB"), ApplyNode(node, <<"index">>, <<index.out>>)), <<>>)
        [] Is(s, {"LP"}) -> Call("SuffixesOf", Out(args, ApplyNode(node, <<"call">>, args.out)), <<>>)
        [] Is(s, {"INC", "DEC"}) ->
             Call("SuffixesOf", Out(Consume(s), CreateAssignNode(node, s.kind, NumberNode(<<"1">>))), <<>>)
        [] Is(s, {"UNWRAP"}) -> Call("SuffixesOf", Out(Consume(s), UnaryOpNode("UNWRAP", node)), <<>>)
        [] OTHER -> s
PrefixAssigns(s, acc) == (* parse_prefixAssign, whose value is a command argument *)
  LET e == Expect(s, "ENV_ASSIGN")
      hasValue == ~e.sp /\ ~LineTerminator(e) /\ Is(e, LACmdArg)
      value == IF hasValue THEN Call("CmdArg", e, <<>>) ELSE Out(e, CmdArgNode(<<StringNode(<<>>)>>))
      next == IF value.err THEN value ELSE ChangeToSTMT(value)
      all == Append(acc, AssignNode(VarNode(Named(s)), value.out))
      body == Call("Expression", next, Precedence["WITH"])
  IN  IF Is(next, {"ENV_ASSIGN"}) THEN Call("PrefixAssigns", next, all)
      ELSE IF ~LineTerminator(next) /\ Is(next, LAExpression) THEN Out(body, PrefixAssignNode(all, <<body.out>>))
      ELSE Out(next, PrefixAssignNode(all, <<>>))

(* Statements in braces, and the expressions made of them.                    *)
Statements(s, acc) ==
  LET t == Call("Statement", s, <<>>)
  IN  IF Is(s, {"RBC"}) THEN Out(s, acc) ELSE IF s.err THEN s ELSE Call("Statements", t, Append(acc, t.out))
Block(s) ==
  LET b == Call("Statements", Expect(Skipping(s, FALSE), "LBC"), <<>>)
  IN  Leave(Out(Expect(b, "RBC"), BlockNode(b.out)))
IfExpression(s, keyword) ==
  LET c == Call("Expression", Expect(s, keyword), Lowest)
      t == Call("Block", c, <<>>)
      elif == Call("IfExpression", t, "ELIF")
      else == Call("Block", Consume(t), <<>>)
  IN  IF Is(t, {"ELIF"}) THEN Out(elif, IfNode(c.out, t.out, elif.out))
      ELSE IF Is(t, {"ELSE"}) /\ t.prev = "EXPR" THEN Out(else, IfNode(c.out, t.out, else.out))
      ELSE Out(t, IfNode(c.out, t.out, Empty))
Patterns(s, acc) ==
  LET p == Call("Expression", s, Precedence["PIPE"] + 1)
  IN  IF Is(p, {"PIPE"}) THEN Call("Patterns", Consume(p), Append(acc, p.out)) ELSE Out(p, Append(acc, p.out))
StatementEnd(s) ==
  CASE Is(s, {"EOS", "RBC"}) -> s
    [] Is(s, {"LINE_END"}) -> Consume(s)
    [] OTHER -> IF s.used \in {"BACKGROUND", "DISOWN_BG"} \/ LineTerminator(s) THEN s ELSE Fail(s)
Arm(s) ==
  LET t == IF s.err THEN s ELSE ChangeToSTMT(s)
      p == IF Is(t, {"ELSE"}) THEN Out(Consume(t), <<>>) ELSE Call("Patterns", t, <<>>)
      a == Call("Expression", Expect(p, "CASE_ARM"), Lowest)
  IN  StatementEnd(Out(a, ArmNode(p.out, a.out)))
Arms(s, acc) ==
  LET t == Arm(s)
  IN  IF Is(t, {"RBC"}) \/ t.err THEN Out(t, Append(acc, t.out)) ELSE Call("Arms", t, Append(acc, t.out))
CaseExpression(s) ==
  LET c == Call("Expression", Consume(s), Lowest)
      a == Call("Arms", Expect(c, "LBC"), <<>>)
  IN  Out(Expect(a, "RBC"), CaseNode(c.out, a.out))
OptExpression(s) == IF Is(s, LAExpression) THEN Call("Expression", s, Lowest) ELSE Out(s, Empty)
ForExpression(s) ==
  LET f == Consume(s)
      init == Call("StatementImpl", Consume(Skipping(f, TRUE)), <<>>)
      cond == OptExpression(Expect(init, "LINE_END"))
      iter == OptExpression(Expect(cond, "LINE_END"))
      body == Call("Block", Expect(iter, "RP"), <<>>)
      in == Call("Expression", Expect(Expect(f, "APPLIED_NAME"), "IN"), Lowest)
      each == Call("Block", in, <<>>)
  IN  IF Is(f, {"LP"}) THEN Leave(Out(body, LoopNode(init.out, cond.out, iter.out, body.out)))
      ELSE IF each.err THEN each ELSE Out(each, CreateForInNode(Named(f), in.out, each.out))
Catches(s, acc) ==
  LET c == Consume(s)
      paren == Is(c, {"LP"})
      n == IF paren THEN Consume(c) ELSE c
      v == Expect(n, "APPLIED_NAME")
      t == IF Is(v, {"COLON"}) THEN Call("TypeName", Trace(v), TRUE) ELSE Out(v, Empty)
      b == Call("Block", IF paren THEN Expect(t, "RP") ELSE t, <<>>)
  IN  IF Is(s, {"CATCH"}) THEN Call("Catches", b, Append(acc, CatchNode(Named(n), t.out, b.out))) ELSE Out(s, acc)
TryExpression(s) ==
  LET b == Call("Block", Consume(s), <<>>)
      c == Call("Catches", b, <<>>)
      f == Call("Block", Consume(c), <<>>)
  IN  IF Is(c, {"FINALLY"}) THEN Out(f, TryFinallyNode(b.out, c.out, f.out))
      ELSE Out(c, TryNode(b.out, c.out))
Jump(s) ==
  LET t == Consume(s)
      e == Call("Expression", t, Lowest)
  IN  IF s.kind # "CONTINUE" /\ ~LineTerminator(t) /\ Is(t, LAExpression)
      THEN Out(e, JumpNode(s.kind, <<e.out>>)) ELSE Out(t, JumpNode(s.kind, <<>>))
Loop(s) ==
  LET c == Call("Expression", Consume(s), Lowest)
      b == Call("Block", c, <<>>)
      d == Call("Block", Consume(s), <<>>)
      w == Call("Expression", Expect(d, "WHILE"), Lowest)
  IN  IF s.kind = "WHILE" THEN Out(b, LoopNode(Empty, c.out, Empty, b.out))
      ELSE Out(w, DoWhileNode(w.out, d.out))
NewExpression(s) ==
  LET t == Call("TypeName", Trace(s), TRUE)
      a == Call("Arguments", t, <<>>)
  IN  Out(a, NewNode(t.out, a.out))
ArrayOrMap(s) ==
  LET k == Call("Expression", Consume(Skipping(s, TRUE)), Lowest)
      v == MapValue(k)
      a == Call("Arrays", k, <<k.out>>)
      m == Call("MapItems", v, <<k.out, v.out>>)
  IN  IF Is(k, {"COLON"}) THEN Leave(Out(Expect(m, "RB"), MapNode(m.out)))
      ELSE Leave(Out(Expect(a, "RB"), ArrayNode(a.out)))
Primary(s) ==
  CASE Is(s, {"COMMAND"}) -> Command(s)
    [] Is(s, {"ENV_ASSIGN"}) -> Call("PrefixAssigns", s, <<>>)
    [] Is(s, {"NEW"}) -> NewExpression(s)
    [] Is(s, {"INT_LITERAL", "FLOAT_LITERAL", "SIGNAL_LITERAL"}) -> Leaf(s, "Number")
    [] Is(s, {"STRING_LITERAL"}) -> Leaf(s, "String")
    [] Is(s, {"REGEX_LITERAL"}) -> Leaf(s, "Regex")
    [] Is(s, {"OPEN_DQUOTE"}) -> StringExpression(s)
    [] Is(s, {"START_SUB_CMD"}) -> Call("CmdSubstitution", s, FALSE)
    [] Is(s, {"APPLIED_NAME", "SPECIAL_NAME"}) -> Leaf(s, "Var")
    [] Is(s, {"START_IN_SUB", "START_OUT_SUB"}) -> ProcSubstitution(s)
    [] Is(s, {"AT_PAREN"}) -> Call("CmdArgArray", Consume(Skipping(s, TRUE)), <<>>)
    [] Is(s, {"LP"}) -> Leave(Call("Items", Consume(Skipping(s, TRUE)), <<<<>>, 0>>))
    [] Is(s, {"LB"}) -> ArrayOrMap(s)
    [] Is(s, {"LBC"}) -> Call("Block", s, <<>>)
    [] Is(s, {"FOR"}) -> ForExpression(s)
    [] Is(s, {"IF"}) -> Call("IfExpression", s, "IF")
    [] Is(s, {"CASE"}) -> CaseExpression(s)
    [] Is(s, {"WHILE", "DO"}) -> Loop(s)
    [] Is(s, {"TRY"}) -> TryExpression(s)
    [] Is(s, {"BREAK", "CONTINUE", "RETURN"}) -> Jump(s)
    [] OTHER -> Fail(s)

(* Declarations.                                                              *)
Params(s, acc, first) ==
  LET c == IF first THEN s ELSE Expect(s, "COMMA")
      n == Expect(c, "APPLIED_NAME")
      t == Call("TypeName", ExpectOnly(n, "COLON"), TRUE)
  IN  IF Is(s, {"RP"}) \/ s.err THEN Out(s, acc) ELSE Call("Params", t, <<Append(acc, ParamNode(Named(c), t.out)), FALSE>>)
Returns(s, acc) == (* a comma puts the mode back for the next type *)
  LET t == Call("TypeName", IF acc = <<>> THEN Trace(s) ELSE SetLexerMode(Trace(s), Mode("EXPR", FALSE)), TRUE)
      all == Append(acc, t.out)
  IN  IF Is(t, {"COMMA"}) THEN Call("Returns", t, all) ELSE Out(t, all)
FuncDecl(s) ==
  LET n == Expect(Consume(s), "IDENTIFIER")
      p == Call("Params", Expect(n, "LP"), <<<<>>, TRUE>>)
      r == Expect(p, "RP")
      t == IF Is(r, {"COLON"}) THEN Call("Returns", r, <<>>) ELSE Out(r, <<Void>>)
  IN  Out(t, FunctionNode(Named(Consume(s)), p.out, ReturnTypeNode(t.out), <<>>))
Declared(s, typed) == (* NAME = expression, or NAME : type *)
  LET n == Expect(Consume(s), "IDENTIFIER")
      e == Call("Expression", Consume(n), Lowest)
      t == Call("TypeName", Trace(n), TRUE)
  IN  CASE Is(n, {"ASSIGN"}) -> Out(e, VarDeclNode(s.kind, Named(Consume(s)), <<e.out>>))
        [] Is(n, {"COLON"}) /\ typed -> Out(t, VarDeclNode(s.kind, Named(Consume(s)), <<NewNode(t.out, <<>>)>>))
        [] OTHER -> Fail(n)
Members(s, acc) == (* of an interface *)
  LET m == IF s.prev # "STMT" THEN Refetch(s, "STMT") ELSE s
      f == Call("FuncDecl", m, <<>>)
      n == Expect(Consume(m), "IDENTIFIER")
      v == Call("TypeName", ExpectOnly(n, "COLON"), TRUE)
      next(t, node) == Call("Members", StatementEnd(t), Append(acc, node))
  IN  CASE s.err \/ s.kind = "RBC" -> Out(s, acc)
        [] Is(m, {"FUNCTION"})   -> next(f, f.out)
        [] Is(m, {"VAR", "LET"}) -> next(v, VarDeclNode(m.kind, Named(Consume(m)), <<v.out>>))
        [] OTHER                 -> Out(m, acc)
Interface(s) ==
  LET n == Enter(Trace(s), "TYPE")
      i == RestoreLexerState(Expect(n, "IDENTIFIER"))
      m == Call("Members", Expect(i, "LBC"), <<>>)
  IN  IF ~m.err /\ m.out = <<>> THEN Fail(m) ELSE Out(Expect(m, "RBC"), InterfaceNode(Named(n), m.out))
Source(s) ==
  LET p == Call("CmdArg", Consume(s), <<>>)
      n == ExpectMode(p, "CMD_ARG_PART", "NAME")
      i == ExpectMode(n, "IDENTIFIER", "STMT")
  IN  IF s.kind = "SOURCE" /\ Is(p, {"CMD_ARG_PART"}) /\ Value(p) = <<"as">>
      THEN Out(i, SourceListNode(Named(n), p.out))
      ELSE Out(p, SourceListNode(IF s.kind = "SOURCE" THEN <<>> ELSE <<"!">>, p.out))
OptColon(s) == (* an expression after a colon *)
  IF Is(s, {"COLON"}) /\ ~LineTerminator(s)
  THEN LET e == MapValue(s) IN Out(e, <<e.out>>) ELSE Out(s, <<>>)
StatementImpl(error) ==
  LET s == IF error.err THEN error ELSE ChangeToSTMT(error)
      f == Call("FuncDecl", s, <<>>)
      b == Call("Block", f, <<>>)
      c == Call("Expression", Consume(s), Lowest)
      m == OptColon(c)
      n == Expect(Consume(s), "IDENTIFIER")
      d == OptColon(n)
      t == Call("TypeName", ExpectOnly(n, "ASSIGN"), TRUE)
  IN  CASE Is(s, {"LINE_END"}) -> Out(s, Empty)
        [] Is(s, {"FUNCTION"}) -> Out(b, [f.out EXCEPT !.k = Append(@, b.out)])
        [] Is(s, {"INTERFACE"}) -> Interface(s)
        [] Is(s, {"ASSERT"}) -> Out(m, AssertNode(<<c.out>> \o m.out))
        [] Is(s, {"IMPORT_ENV"}) -> Out(d, VarDeclNode("import-env", Named(Consume(s)), d.out))
        [] Is(s, {"SOURCE", "SOURCE_OPT"}) -> Source(s)
        [] Is(s, {"TYPEDEF"}) -> Out(t, TypeAliasNode(Named(Consume(s)), t.out))
        [] Is(s, {"VAR", "LET", "EXPORT_ENV"}) -> Declared(s, s.kind # "EXPORT_ENV")
        [] Is(s, LAExpression) -> Call("Expression", s, Lowest)
        [] OTHER -> Fail(s)
Statement(s) == StatementEnd(Call("StatementImpl", s, <<>>))

(* A script: statements up to its end, each with its own context of newlines. *)
Program(s, acc) ==
  LET t == Call("Statement", [s EXCEPT !.skips = <<FALSE>>], <<>>)
  IN  IF s.err \/ s.kind = "EOS" THEN Out(s, acc) ELSE Call("Program", t, Append(acc, t.out))
Script(s) == Call("Program", Fetch(s), <<>>)
Call(rule, s, x) ==
  CASE rule = "NextToken" -> NextToken(s)
    [] rule = "Expression" -> Expression(s, x)
    [] rule = "Infixes" -> Infixes(s, x)
    [] rule = "Unary" -> Unary(s)
    [] rule = "SuffixesOf" -> SuffixesOf(s)
    [] rule = "Primary" -> Primary(s)
    [] rule = "Statement" -> Statement(s)
    [] rule = "StatementImpl" -> StatementImpl(s)
    [] rule = "Block" -> Block(s)
    [] rule = "Statements" -> Statements(s, x)
    [] rule = "CmdArg" -> CmdArg(s)
    [] rule = "Segments" -> Segments(s, x)
    [] rule = "CmdArgs" -> CmdArgs(s, x)
    [] rule = "TypeName" -> TypeName(s, x)
    [] rule = "TypeOptions" -> TypeOptions(s)
    [] rule = "Items" -> Items(s, x[1], x[2])
    [] rule = "Args" -> Args(s, x)
    [] rule = "Arrays" -> Arrays(s, x)
    [] rule = "MapItems" -> MapItems(s, x)
    [] rule = "Types" -> Types(s, x)
    [] rule = "TupleTypes" -> TupleTypes(s, x[1], x[2])
    [] rule = "Qualified" -> Qualified(s)
    [] rule = "CmdArgArray" -> CmdArgArray(s, x)
    [] rule = "Elements" -> Elements(s, x)
    [] rule = "Redirs" -> Redirs(s, x)
    [] rule = "Patterns" -> Patterns(s, x)
    [] rule = "Arms" -> Arms(s, x)
    [] rule = "Catches" -> Catches(s, x)
    [] rule = "PrefixAssigns" -> PrefixAssigns(s, x)
    [] rule = "Params" -> Params(s, x[1], x[2])
    [] rule = "Returns" -> Returns(s, x)
    [] rule = "Members" -> Members(s, x)
    [] rule = "IfExpression" -> IfExpression(s, x)
    [] rule = "Program" -> Program(s, x)
    [] rule = "Interpolation" -> Interpolation(s)
    [] rule = "CmdSubstitution" -> CmdSubstitution(s, x)
    [] rule = "Arguments" -> Arguments(s)
    [] rule = "RedirOption" -> RedirOption(s)
    [] rule = "FuncDecl" -> FuncDecl(s)
    [] rule = "Script" -> Script(s)
Parse(text) == Call("Script", Start(text), <<>>)
=============================================================================
