------------------------------- MODULE MCSyntax -------------------------------
(* Small texts and small trees for the parser: every tree of two operators or *)
(* expressions one in the other, written down; and what may be typed word     *)
(* after word, as long as the text can still become a script.                 *)
EXTENDS Grammar

CONSTANTS
  MaxWords,   \* bound: words of a text that is typed
  MaxTrees    \* bound: 1 for trees of one expression over atoms, 2 for two

VARIABLES tree, depth, family, text

One == NumberNode(<<"1">>)
X == VarNode(<<"$x">>)
Arg(t) == CmdArgNode(<<t>>)
Cmd(args) == CmdNode(<<"echo">>, args)
Word(w) == StringNode(<<w>>)
IntType == BaseTypeNode(<<"Int">>)
Atoms == {X, Cmd(<<Arg(Word("a"))>>)}
BinaryOps == {"COND_OR", "COND_AND", "EQ", "LT", "MATCH", "STR_CHECK", "NULL_COALE", "OR", "XOR", "AND", "ADD", "SUB", "MUL", "DIV"}
Binary(op, l, r) == BinaryOpNode(op, l, r)
Block1(t) == BlockNode(<<t>>)
Around(t) ==
  UNION {{Binary(op, t, One), Binary(op, One, t)} : op \in BinaryOps}
  \cup {UnaryOpNode(op, t) : op \in {"NOT", "MINUS", "UNWRAP"}}
  \cup {IfNode(t, One, X), IfNode(X, t, One), IfNode(X, One, t), IfNode(t, Block1(One), Empty),
        IfNode(X, Block1(t), Block1(One)), IfNode(X, Block1(One), IfNode(t, Block1(One), Block1(t)))}
  \cup {TypeOpNode("as", t, IntType),
        TypeOpNode("is", t, IntType),
        WithNode(t, <<RedirNode("REDIR_OUT_2_FILE", <<Arg(Word("a"))>>)>>),
        ForkNode("BACKGROUND", t), ForkNode("COPROC", t), JumpNode("THROW", <<t>>),
        AccessNode(t, <<"a">>), ApplyNode(t, <<"index">>, <<One>>), ApplyNode(X, <<"index">>, <<t>>),
        ApplyNode(t, <<"call">>, <<One>>), ApplyNode(X, <<"call">>, <<t, One>>), ApplyNode(t, <<"a">>, <<One>>),
        TupleNode(<<t>>), TupleNode(<<One, t>>), ArrayNode(<<t, One>>),
        MapNode(<<t, One, X, t>>), CmdSubNode("array", t),
        Cmd(<<Arg(CmdSubNode("array", t)), CmdArgNode(<<Word("a"), EmbedNode(t)>>)>>),
        StringExprNode(<<Word("a"), EmbedNode(t), CmdSubNode("string", t)>>),
        Block1(t), LoopNode(Empty, t, Empty, Block1(t)), PipelineNode(Flat(t) \o <<Cmd(<<>>)>>),
        PipelineNode(<<One>> \o Flat(t)), SelfAssignNode("NULL_COALE", X, t),
        PrefixAssignNode(<<AssignNode(VarNode(<<"a">>), Arg(Word("b")))>>, <<t>>),
        CaseNode(t, <<ArmNode(<<One, X>>, t), ArmNode(<<t>>, One), ArmNode(<<>>, t)>>),
        TryFinallyNode(Block1(t), <<CatchNode(<<"$e">>, IntType, Block1(t))>>, Block1(t)),
        LoopNode(VarDeclNode("LET", <<"a">>, <<t>>), t, t, Block1(t)), DoWhileNode(t, Block1(t)),
        CreateForInNode(<<"$y">>, t, Block1(t)), NewNode(ReifiedTypeNode(<<"Array">>, <<IntType>>), <<t>>),
        JumpNode("RETURN", <<t>>),
        CreateAssignNode(t, "ASSIGN", One), CreateAssignNode(X, "ASSIGN", t), CreateAssignNode(t, "ADD_ASSIGN", One)}

Function(returns, t) == FunctionNode(<<"f">>, <<ParamNode(<<"$x">>, IntType)>>, ReturnTypeNode(returns), <<Block1(t)>>)
Option(t) == ReifiedTypeNode(<<"Option">>, <<t>>)
Declarations(t) ==
  {VarDeclNode("VAR", <<"x">>, <<t>>), Function(<<Void>>, t), Function(<<Option(IntType), IntType>>, t), UserDefinedCmdNode(<<"c">>, Block1(t)),
   AssertNode(<<t>>), AssertNode(<<t, t>>),
   TypeAliasNode(<<"M">>, FuncTypeNode(ReifiedTypeNode(<<"Tuple">>, <<IntType, Option(IntType)>>), <<TypeOfNode(t)>>))}

Families ==
  { {"$x", "+", "*", "=", "?", ":", "(", ")"}, {"$x", "1", "[", "]", "(", ")", ",", "!", "-"},
    {"echo", "a", ">", "|", "(", ")", "\""}, {"if", "$x", "{", "}", ";", "echo", "else"},
    {"let", "a", "=", ":", "Int", "!", "[", "]"}, {"echo", "$x", "[", "1", "]", "$(", ")", ";", "&"} }
Joins(v, w) == <<v, w>> \in DOMAIN Compound /\ Compound[<<v, w>>] \notin {"++", "--"} \* written += 1
Gaps1(w) ==
  {"space"} \cup (IF text # <<>> /\ (Joins(Last(text).w, w) \/ Last(text).w = "$x") THEN {"none"} ELSE {})

NoTree == Node("none", <<>>, <<>>)
Accepted(t) == ~Parse(t).err
MayGoOn(r, t) == ~r.err \/ r.at > Len(t)
Viable(t) == MayGoOn(Parse(t), t)
Type ==
  /\ tree = NoTree /\ Len(text) < MaxWords /\ Viable(text)
  /\ \E w \in family : \E g \in Gaps1(w) : text' = Append(text, W(w, g))
  /\ UNCHANGED <<tree, depth, family>>
Nest ==
  /\ tree # NoTree /\ depth < MaxTrees
  /\ tree' \in Around(tree) /\ text' = Write(tree') /\ depth' = depth + 1 /\ UNCHANGED family
Declare == (* what only a statement may be *)
  /\ tree # NoTree /\ depth < MaxTrees
  /\ tree' \in Declarations(tree) /\ text' = Write(tree') /\ depth' = MaxTrees /\ UNCHANGED family
Init ==
  /\ depth = 0
  /\ \/ tree = NoTree /\ family \in Families /\ text = <<>>
     \/ tree \in Atoms /\ family = {} /\ text = Write(tree)
Next == Type \/ Nest \/ Declare
Spec == Init /\ [][Next]_<<tree, depth, family, text>>

(* NAME= reads what follows as an argument of a command, and what follows     *)
(* that once more: two places where the modes of the lexer are not restored.  *)
Prefixed == \E i \in 2 .. Len(text) :
  text[i].g = "none" /\ <<text[i - 1].w, text[i].w>> \in Names \X {"="}

(* The brackets open at a word; the braces of ${ } are no braces of a block.  *)
Opens == {"(", "[", "$(", "${", "@(", "{", "<(", ">("}
RECURSIVE OpenAt(_)
OpenAt(i) ==
  IF i = 0 THEN <<>>
  ELSE IF text[i].w \in Opens THEN Append(OpenAt(i - 1), text[i].w)
  ELSE IF text[i].w \in {")", "]", "}"} THEN Front(OpenAt(i - 1)) ELSE OpenAt(i - 1)
Bracketed(i) == OpenAt(i - 1) # <<>> /\ Last(OpenAt(i - 1)) # "{"
OnLines == [i \in DOMAIN text |-> IF text[i].g = "space" /\ Bracketed(i) THEN W(text[i].w, "nl") ELSE text[i]]

(* Every tree that is written down by the grammar is the tree its text parses *)
(* to: precedences, associativity, what ends a command and what its arguments *)
(* take, and the modes of the lexer that make each word the right token.      *)
Makes(r, t) == ~r.err /\ r.out = <<t>>
ParsesBack == tree # NoTree => Makes(Parse(text), tree)

(* What is typed word after word, when it is a script, is the script its      *)
(* trees are written down as, each word but the ones that group and separate  *)
(* in its place: no word is dropped or taken twice, no closing bracket for    *)
(* another, and no tree could not be written. It leaves as many modes of the  *)
(* lexer pushed as it found.                                                  *)
Meant(words) == SelectSeq([i \in DOMAIN words |-> words[i].w], LAMBDA w : w \notin {"(", ")", ";", ",", "${", "}"})
SameAgain(r, written, again) == ~again.err /\ again.out = r.out /\ Meant(written) = Meant(text)
WrittenAgain(r, written) == SameAgain(r, written, Parse(written))
AsWritten(r) == ~r.err => WrittenAgain(r, StatementsOf(r.out)) /\ (Prefixed \/ r.stack = <<>>)
ReadsAsWritten == tree = NoTree => AsWritten(Parse(text))

(* Within ( ), [ ], ${ }, $( ) and the like a newline is a blank, but for     *)
(* these: an index, what follows a colon or a prefix assignment, a type.      *)
RECURSIVE Skipped(_)
Skipped(t) ==
  /\ t.n \notin {"PrefixAssign", "Map", "ElementSelfAssign", "TypeAlias"}
  /\ ~(t.n = "Apply" /\ t.v \in {<<"index">>, <<"set">>}) /\ (t.n = "If" => InBraces(t))
  /\ \A i \in DOMAIN t.k : Skipped(t.k[i])
NewlinesIgnored ==
  tree # NoTree /\ Skipped(tree) => Makes(Parse(OnLines), tree)

===============================================================================
