------------------------------- MODULE Lexer -------------------------------
(* The lexer of scripts: which kind of token a word is depends on the mode    *)
(* the tokens before it left the lexer in, and on the modes brackets pushed.  *)
(* A source text is a sequence of words, each with the gap before it: none,   *)
(* blanks or a newline. Words that touch may make up one token.               *)
EXTENDS Naturals, Sequences, FiniteSets, SequencesExt

Gaps == {"none", "space", "nl"}
W(w, g) == [w |-> w, g |-> g]

(* LexerMode: the condition rules depend on, and whether newlines are skipped *)
(* in a command.                                                              *)
Mode(cond, skip) == [cond |-> cond, skip |-> skip]

(* Words. What a word is written with decides which general rule it matches   *)
(* where no keyword or operator of the mode does.                             *)
Names == {"a", "b", "c", "x", "y", "f", "echo", "cd", "Int", "String", "e", "M"}
Keywords == {"alias", "assert", "break", "case", "catch", "class", "continue", "coproc", "do", "elif",
  "else", "finally", "for", "function", "if", "interface", "let", "new", "return", "source",
  "try", "throw", "typedef", "var", "while", "and", "or", "xor", "as", "is", "in", "with",
  "Func", "typeof"}
Dashed == {"import-env", "export-env"}
Numbers == {"0", "1", "2"}
CmdChars == {"*", "/", "%", ",", ":", ".", "?", "@", "~"}
Plain == Names \cup Keywords \cup Dashed \cup CmdChars
ArgChars == (Plain \cup Numbers \cup {"[", "]", "{", "}", "=", "+", "-", "!"}) \ {":", "*", "?"}
Quoted == {"'s'", "$'s'"}
Variables == {"$x", "$y", "$f", "$e"}
Specials == {"$@", "$?"}
Marks == {"\"", "$(", "${", "(", ")", ";", "&", "|", "<", ">", "${x.y}", "$/s/", "%'INT'", "2>", "1>", "0.5"}
Words == Plain \cup ArgChars \cup Quoted \cup Variables \cup Specials \cup Marks

(* Words that touch and make up one word, where a rule of the mode knows it.  *)
Compound ==
  ( <<"=", "=">> :> "==" ) @@ ( <<"!", "=">> :> "!=" ) @@ ( <<"<", "=">> :> "<=" ) @@ ( <<">", "=">> :> ">=" )
  @@ ( <<"=", "~">> :> "=~" ) @@ ( <<"!", "~">> :> "!~" ) @@ ( <<":", "-">> :> ":-" ) @@ ( <<"?", "?">> :> "??" )
  @@ ( <<"+", "+">> :> "++" ) @@ ( <<"-", "-">> :> "--" ) @@ ( <<"&", "&">> :> "&&" ) @@ ( <<"|", "|">> :> "||" )
  @@ ( <<"+", "=">> :> "+=" ) @@ ( <<"-", "=">> :> "-=" ) @@ ( <<"*", "=">> :> "*=" ) @@ ( <<"/", "=">> :> "/=" )
  @@ ( <<"%", "=">> :> "%=" ) @@ ( <<":", "=">> :> ":=" ) @@ ( <<"=", ">">> :> "=>" ) @@ ( <<"-", ">">> :> "=>" )
  @@ ( <<"&", "!">> :> "&!" ) @@ ( <<"&", "|">> :> "&!" ) @@ ( <<">", "(">> :> ">(" ) @@ ( <<"<", "(">> :> "<(" )
  @@ ( <<"@", "(">> :> "@(" ) @@ ( <<"source", "!">> :> "source!" ) @@ ( <<">", "&">> :> ">&" ) @@ ( <<"&", ">">> :> "&>" )
  @@ ( <<">", ">">> :> ">>" ) @@ ( <<"1>", ">">> :> ">>" ) @@ ( <<"2>", ">">> :> "2>>" ) @@ ( <<"&>", ">">> :> "&>>" )
  @@ ( <<"<<", "<">> :> "<<<" ) @@ ( <<"<", "<">> :> "<<" ) @@ ( <<"2>", "&">> :> "2>&" ) @@ ( <<"2>&", "1">> :> "2>&1" )
  @@ ( <<"1>", "&">> :> "1>&" ) @@ ( <<"1>&", "2">> :> "1>&2" ) @@ ( <<"??", "=">> :> "??=" )
  @@ [p \in (Names \cup {"if", "for"}) \X {"="} |-> "NAME="]
  @@ [p \in Variables \X {"["} |-> "$NAME["] @@ [p \in Specials \X {"["} |-> "$CHAR["]
  @@ [p \in Variables \X {"("} |-> "$NAME("]

(* The rules: a set of modes, the words, the kind of the token, the condition *)
(* it leaves ("" the same), and the mode it pushes or "pop".                  *)
Rule(conds, words, kind, cond, push) == [conds |-> conds, words |-> words, kind |-> kind, cond |-> cond, push |-> push]
Same == ""
NoPush == ""
Op(words, kind) == Rule({"EXPR"}, words, kind, "STMT", NoPush)
Keyword(word, kind, cond) == Rule({"STMT"}, {word}, kind, cond, NoPush)
Sub(conds, words, kind) == Rule(conds, words, kind, Same, "STMT skip")
Literal(words, kind) == Rule({"STMT"}, words, kind, "EXPR", NoPush)
Here(conds, words, kind) == Rule(conds, words, kind, Same, NoPush)

StatementRules ==
  { Keyword("alias", "ALIAS", "NAME"), Keyword("assert", "ASSERT", Same), Keyword("break", "BREAK", Same),
    Keyword("case", "CASE", Same), Keyword("class", "CLASS", "NAME"), Keyword("continue", "CONTINUE", Same),
    Keyword("coproc", "COPROC", Same), Keyword("do", "DO", Same), Keyword("export-env", "EXPORT_ENV", "NAME"),
    Keyword("for", "FOR", Same), Keyword("function", "FUNCTION", "NAME"), Keyword("if", "IF", Same),
    Keyword("import-env", "IMPORT_ENV", "NAME"), Keyword("interface", "INTERFACE", Same),
    Keyword("let", "LET", "NAME"), Keyword("new", "NEW", "EXPR"), Keyword("return", "RETURN", Same),
    Keyword("source", "SOURCE", "CMD"), Keyword("source!", "SOURCE_OPT", "CMD"), Keyword("try", "TRY", Same),
    Keyword("throw", "THROW", Same), Keyword("typedef", "TYPEDEF", "NAME"), Keyword("var", "VAR", "NAME"),
    Rule({"STMT", "EXPR"}, {"while"}, "WHILE", "STMT", NoPush), Rule({"STMT", "EXPR"}, {"else"}, "ELSE", "EXPR", NoPush),
    Op({"catch"}, "CATCH"), Op({"elif"}, "ELIF"), Here({"EXPR"}, {"finally"}, "FINALLY"),
    Keyword("+", "PLUS", Same), Keyword("-", "MINUS", Same), Keyword("!", "NOT", Same),
    Literal(Numbers, "INT_LITERAL"), Literal({"0.5"}, "FLOAT_LITERAL"), Literal(Quoted, "STRING_LITERAL"),
    Literal({"$/s/"}, "REGEX_LITERAL"), Literal({"%'INT'"}, "SIGNAL_LITERAL"), Literal(Variables, "APPLIED_NAME"),
    Literal(Specials, "SPECIAL_NAME"), Rule({"STMT"}, {"NAME="}, "ENV_ASSIGN", "CMD", NoPush) }
BracketRules ==
  { Rule({"STMT"}, {"\""}, "OPEN_DQUOTE", "EXPR", "DSTRING"), Rule({"CMD"}, {"\""}, "OPEN_DQUOTE", Same, "DSTRING"),
    Rule({"DSTRING"}, {"\""}, "CLOSE_DQUOTE", Same, "pop"),
    Rule({"STMT"}, {"$("}, "START_SUB_CMD", "EXPR", "STMT skip"), Sub({"DSTRING", "CMD"}, {"$("}, "START_SUB_CMD"),
    Rule({"STMT"}, {">("}, "START_IN_SUB", "EXPR", "STMT skip"), Sub({"CMD"}, {">("}, "START_IN_SUB"),
    Rule({"STMT"}, {"<("}, "START_OUT_SUB", "EXPR", "STMT skip"), Sub({"CMD"}, {"<("}, "START_OUT_SUB"),
    Rule({"STMT"}, {"@("}, "AT_PAREN", "EXPR", "CMD skip"), Sub({"DSTRING", "CMD"}, {"${"}, "START_INTERP"),
    Rule({"STMT", "EXPR", "CMD"}, {"("}, "LP", "EXPR", "STMT skip"), Rule({"STMT", "EXPR", "CMD"}, {")"}, "RP", Same, "pop"),
    Rule({"STMT", "EXPR"}, {"["}, "LB", "EXPR", "STMT skip"), Rule({"STMT", "EXPR"}, {"]"}, "RB", Same, "pop"),
    Rule({"STMT", "EXPR"}, {"{"}, "LBC", "EXPR", "STMT"), Rule({"STMT", "EXPR"}, {"}"}, "RBC", Same, "pop"),
    Sub({"CMD"}, {"$NAME["}, "APPLIED_NAME_WITH_BRACKET"), Sub({"CMD"}, {"$CHAR["}, "SPECIAL_NAME_WITH_BRACKET"),
    Sub({"CMD"}, {"$NAME("}, "APPLIED_NAME_WITH_PAREN"),
    Rule({"STMT", "EXPR", "CMD"}, {";"}, "LINE_END", "STMT", NoPush) }
OperatorRules ==
  { Here({"EXPR"}, {":"}, "COLON"), Op({","}, "COMMA"), Op({"+"}, "ADD"), Op({"-"}, "SUB"), Op({"*"}, "MUL"),
    Op({"/"}, "DIV"), Op({"%"}, "MOD"), Op({"<"}, "LT"), Op({">"}, "GT"), Op({"<="}, "LE"), Op({">="}, "GE"),
    Op({"=="}, "EQ"), Op({"!="}, "NE"), Op({"and"}, "AND"), Op({"or"}, "OR"), Op({"xor"}, "XOR"), Op({"=~"}, "MATCH"),
    Op({"!~"}, "UNMATCH"), Op({":-"}, "STR_CHECK"), Op({"?"}, "TERNARY"), Op({"??"}, "NULL_COALE"),
    Op({"="}, "ASSIGN"), Op({"+="}, "ADD_ASSIGN"), Op({"-="}, "SUB_ASSIGN"), Op({"*="}, "MUL_ASSIGN"),
    Op({"/="}, "DIV_ASSIGN"), Op({"%="}, "MOD_ASSIGN"), Op({":="}, "STR_ASSIGN"), Op({"??="}, "NULL_ASSIGN"),
    Op({"=>"}, "CASE_ARM"), Op({"in"}, "IN"), Here({"EXPR"}, {"++"}, "INC"), Here({"EXPR"}, {"--"}, "DEC"),
    Here({"EXPR"}, {"!"}, "UNWRAP"), Here({"EXPR"}, {"as"}, "AS"), Here({"EXPR"}, {"is"}, "IS"),
    Rule({"EXPR"}, {"with"}, "WITH", "CMD", NoPush), Rule({"EXPR"}, {"."}, "ACCESSOR", "NAME", NoPush),
    Rule({"EXPR", "CMD"}, {"&&"}, "COND_AND", "STMT", NoPush), Rule({"EXPR", "CMD"}, {"||"}, "COND_OR", "STMT", NoPush),
    Rule({"EXPR", "CMD"}, {"|"}, "PIPE", "STMT", NoPush), Rule({"EXPR", "CMD"}, {"&"}, "BACKGROUND", "STMT", NoPush),
    Rule({"EXPR", "CMD"}, {"&!"}, "DISOWN_BG", "STMT", NoPush) }
CommandRules ==
  { Here({"DSTRING", "CMD"}, Variables, "APPLIED_NAME"), Here({"DSTRING", "CMD"}, Specials, "SPECIAL_NAME"),
    Here({"DSTRING", "CMD"}, {"${x.y}"}, "APPLIED_NAME_WITH_FIELD"), Here({"CMD"}, {"?"}, "GLOB_ANY"),
    Here({"CMD"}, {"*"}, "GLOB_ZERO_OR_MORE"), Here({"CMD"}, {":"}, "PATH_SEP"), Here({"CMD"}, Quoted, "STRING_LITERAL"),
    Here({"CMD"}, {"<"}, "REDIR_IN_2_FILE"), Here({"CMD"}, {">", "1>"}, "REDIR_OUT_2_FILE"),
    Here({"CMD"}, {">>"}, "REDIR_OUT_2_FILE_APPEND"), Here({"CMD"}, {"2>"}, "REDIR_ERR_2_FILE"),
    Here({"CMD"}, {"2>>"}, "REDIR_ERR_2_FILE_APPEND"), Here({"CMD"}, {">&", "&>"}, "REDIR_MERGE_ERR_2_OUT_2_FILE"),
    Here({"CMD"}, {"&>>"}, "REDIR_MERGE_ERR_2_OUT_2_FILE_APPEND"), Here({"CMD"}, {"2>&1"}, "REDIR_MERGE_ERR_2_OUT"),
    Here({"CMD"}, {"1>&2"}, "REDIR_MERGE_OUT_2_ERR"), Here({"CMD"}, {"<<<"}, "REDIR_HERE_STR") }
TypeRules ==
  { Here({"TYPE"}, {"Func"}, "FUNC"), Here({"TYPE"}, {"typeof"}, "TYPEOF"), Here({"TYPE"}, {"<"}, "TYPE_OPEN"),
    Here({"TYPE"}, {">"}, "TYPE_CLOSE"), Here({"TYPE"}, {","}, "TYPE_SEP"), Here({"TYPE"}, {"."}, "TYPE_DOT"),
    Here({"TYPE"}, {"["}, "ATYPE_OPEN"), Here({"TYPE"}, {"]"}, "ATYPE_CLOSE"), Here({"TYPE"}, {"("}, "PTYPE_OPEN"),
    Here({"TYPE"}, {")"}, "PTYPE_CLOSE"), Here({"TYPE"}, {":"}, "TYPE_MSEP"), Here({"TYPE"}, {"!"}, "TYPE_OPT"),
    Here({"TYPE"}, {"=>"}, "TYPE_ARROW") }

(* The rules for names and runs of characters come after all of those.        *)
GeneralRules ==
  { Rule({"STMT"}, Plain, "COMMAND", "CMD", NoPush), Rule({"NAME"}, Names \cup Keywords, "IDENTIFIER", "EXPR", NoPush),
    Here({"TYPE"}, Names \cup Keywords, "IDENTIFIER"), Here({"CMD"}, ArgChars, "CMD_ARG_PART"),
    Here({"DSTRING"}, Words, "STR_ELEMENT") }

Conds == {"STMT", "EXPR", "NAME", "TYPE", "CMD", "DSTRING"}
AllWords == Words \cup {Compound[p] : p \in DOMAIN Compound}
NoRule == Rule({}, {}, "INVALID", Same, NoPush)
GeneralKinds == {r.kind : r \in GeneralRules} \cup {NoRule.kind}
Matching(rules, c, w) == {r \in rules : c \in r.conds /\ w \in r.words}
KnownRules == StatementRules \cup BracketRules \cup OperatorRules \cup CommandRules \cup TypeRules
FirstOf(known, general) ==
  CASE known # {} -> CHOOSE r \in known : TRUE
    [] OTHER -> IF general # {} THEN CHOOSE r \in general : TRUE ELSE NoRule
Table ==
  [c \in Conds |-> [w \in AllWords |-> FirstOf(Matching(KnownRules, c, w), Matching(GeneralRules, c, w))]]

(* The lexer within a parser's state s: the words, the position of the next   *)
(* one, whether the gap before it has been read, and the modes.               *)
Top(s) == s.mode
PushLexerMode(s, m) == [s EXCEPT !.stack = Append(@, s.mode), !.mode = m]
PopLexerMode(s) ==
  IF s.stack = <<>> THEN s ELSE [s EXCEPT !.mode = Last(s.stack), !.stack = Front(@)]
SetLexerMode(s, m) == [s EXCEPT !.mode = m]
SetLexerCond(s, c) == IF c = Same THEN s ELSE [s EXCEPT !.mode.cond = c]
PushNamed(s, p) ==
  CASE p = NoPush      -> s
    [] p = "pop"       -> PopLexerMode(s)
    [] p = "STMT skip" -> PushLexerMode(s, Mode("STMT", TRUE))
    [] p = "CMD skip"  -> PushLexerMode(s, Mode("CMD", TRUE))
    [] OTHER           -> PushLexerMode(s, Mode(p, FALSE))

(* The longest run of touching words that a rule of the mode takes as one.    *)
Touch(s, i) == i <= Len(s.text) /\ s.text[i].g = "none"
JoinedTo(s, word, i) == (* a word, and the one at i that touches it *)
  IF word # "" /\ Touch(s, i) /\ <<word, s.text[i].w>> \in DOMAIN Compound THEN Compound[<<word, s.text[i].w>>] ELSE ""
Takes(row, w) == w # "" /\ row[w].kind \notin GeneralKinds
IsKind(s, row, i, kind) == row[s.text[i].w].kind = kind
RunEnd(s, row, i) ==
  LET ends == {j \in i .. Len(s.text) :
                 \/ IsKind(s, row, i, "CMD_ARG_PART")
                    /\ \A k \in i + 1 .. j : Touch(s, k) /\ IsKind(s, row, k, "CMD_ARG_PART")
                 \/ IsKind(s, row, i, "STR_ELEMENT") /\ \A k \in i + 1 .. j : IsKind(s, row, k, "STR_ELEMENT")}
  IN  IF ends = {} THEN i ELSE CHOOSE j \in ends : \A k \in ends : k <= j
Optional(s, c, i) == (* a rule with a right context: not before = or ~ *)
  c = "TYPE" /\ s.text[i].w = "!" => ~(Touch(s, i + 1) /\ s.text[i + 1].w \in {"=", "~"})
Longest(s, c, row, two, three) ==
  IF Takes(row, three) THEN [rule |-> row[three], to |-> s.pos + 3]
  ELSE IF Takes(row, two) THEN [rule |-> row[two], to |-> s.pos + 2]
  ELSE IF ~Optional(s, c, s.pos) THEN [rule |-> NoRule, to |-> s.pos + 1]
  ELSE [rule |-> row[s.text[s.pos].w], to |-> RunEnd(s, row, s.pos) + 1]
ScanFrom(s, c, two) == Longest(s, c, Table[c], two, JoinedTo(s, two, s.pos + 2))
Scan(s, c) == ScanFrom(s, c, JoinedTo(s, s.text[s.pos].w, s.pos + 1))

(* nextToken. A newline ends a command unless its mode skips it; the gap in a *)
(* string is part of it. The end of the text follows a newline.               *)
Newline_endsCommand(s, gap) == IF gap = "nl" /\ s.mode.cond = "CMD" THEN SetLexerCond(s, "STMT") ELSE s
Newline(s, gap) == IF gap = "nl" /\ s.mode.cond = "CMD" /\ ~s.mode.skip THEN SetLexerCond(s, "STMT") ELSE s
NextWord(s, l, gap, t) ==
  [PushNamed(SetLexerCond(l, t.rule.cond), t.rule.push) EXCEPT
     !.kind = t.rule.kind, !.at = s.pos, !.to = t.to, !.pos = t.to, !.bare = FALSE,
     !.nl = gap = "nl", !.sp = gap = "space", !.prev = l.mode.cond]
NextIn(s, l, gap) == NextWord(s, l, gap, Scan(s, l.mode.cond))
AtEnd(s, l) == [l EXCEPT !.kind = "EOS", !.at = s.pos, !.to = s.pos, !.nl = TRUE, !.sp = FALSE, !.bare = FALSE]
NextToken(s) ==
  LET gap == IF s.bare \/ s.mode.cond = "DSTRING" THEN "none" ELSE s.text[s.pos].g
  IN  IF s.pos > Len(s.text) THEN AtEnd(s, Newline(s, "nl")) ELSE NextIn(s, Newline(s, gap), gap)
=============================================================================
