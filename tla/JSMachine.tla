----------------------------- MODULE JSMachine -----------------------------
(***************************************************************************)
(* The machine the JavaScript parser runs on: the token the parser looks   *)
(* at, the context flags its functions save, set and restore, the calls    *)
(* that are still to return, and the nodes the calls returned.  JSParser   *)
(* is a recursive descent parser; here a call is an instruction on the     *)
(* stack `todo`, and what a function does after a call returns is another  *)
(* instruction, pushed with the local variables it still needs.  Every     *)
(* grammar function is an action of JSExpressions, JSStatements or         *)
(* JSParser that pops its own call and pushes the rest of its body.        *)
(*                                                                         *)
(* The source text is a template: the set of lexemes each position may     *)
(* hold.  The lexer draws one lexeme when the parser asks for the token,   *)
(* or the end of the text.                                                 *)
(***************************************************************************)
EXTENDS Naturals, Sequences, TLC

CONSTANT Sources \* templates: [lexemes : Seq(SUBSET STRING), breaks : SUBSET Nat,
                 \*             module : BOOLEAN, tolerant : BOOLEAN]

ASSUME SourcesAssumption ==
  \A s \in Sources : /\ DOMAIN s = {"lexemes", "breaks", "module", "tolerant"}
                     /\ \A i \in DOMAIN s.lexemes : "EOF" \notin s.lexemes[i]

VARIABLES
  src,    \* the template and options of this parse
  scan,   \* lexer: next position, lookahead, hasLineTerminator, curlyStack, the lexeme
          \* a look further ahead has already drawn, and (history) whether such a look
          \* has ever changed the curlyStack, which the token itself will change again
  ctx,    \* Context of the parser
  todo,   \* calls and continuations still to run, the next one first
  vals,   \* nodes returned and not yet used, the last one first
  names,  \* the `params` lists that patterns append to, the innermost first
  status  \* "parsing", "done", or how the parse failed

vars == <<src, scan, ctx, todo, vals, names, status>>
-----------------------------------------------------------------------------
(* Tokens *)

Keywords == {"if", "in", "do", "var", "for", "new", "try", "let", "this", "else", "case",
  "void", "with", "while", "break", "catch", "throw", "const", "yield", "class", "super",
  "return", "delete", "switch", "export", "import", "default", "finally", "extends",
  "function", "continue", "debugger"}

Punctuators == {"(", ")", "{", "}", "[", "]", ";", ",", ":", "?", ".", "?.", "...", "=>",
  "=", "+=", "+", "-", "*", "**", "/", "++", "!", "<", "&&", "||", "#"}

isStrictModeReservedWord(v) == v \in {"static", "yield", "let"}
isRestrictedWord(v) == v \in {"eval", "arguments"}

KindOf(x) ==
  CASE x \in Keywords                    -> "Keyword"
    [] x \in Punctuators                 -> "Punctuator"
    [] x \in {"num", "octal num"}        -> "NumericLiteral"
    [] x \in {"str", "octal str", "use strict"} -> "StringLiteral"
    [] x \in {"true"}                    -> "BooleanLiteral"
    [] x \in {"null"}                    -> "NullLiteral"
    [] x \in {"quasi${", "quasi", "}quasi${", "}quasi"}  -> "Template"
    [] x = "EOF"                         -> "EOF"
    [] OTHER                             -> "Identifier"

Token(x, line) == [k |-> KindOf(x), v |-> x, line |-> line]
NoLexeme == [v |-> "", line |-> 0]

\* scanPunctuator and scanTemplate keep a stack of the braces that are open.  A `}`
\* whose brace is `${` starts the rest of a template: its tail or its middle.
InTemplate(curly) == curly # <<>> /\ curly[1] = "${"
Spellings(x, curly) == IF x = "}" /\ InTemplate(curly) THEN {"}quasi", "}quasi${"} ELSE {x}
Pop(curly) == IF curly = <<>> THEN <<>> ELSE Tail(curly)
\* As if the middle of a template left its brace closed.
CurlyAfterMiddle(x, curly) ==
  CASE x = "{"       -> <<"{">> \o curly
    [] x = "quasi${" -> <<"${">> \o curly
    [] x \in {"}", "}quasi", "}quasi${"} -> Pop(curly)
    [] OTHER         -> curly
CurlyAfter(x, curly) ==
  CASE x = "{"         -> <<"{">> \o curly
    [] x = "quasi${"       -> <<"${">> \o curly
    [] x \in {"}", "}quasi"} -> Pop(curly)
    [] OTHER           -> curly

\* The lexemes that may come next: the one already drawn, or any the template allows.
Draws(s) ==
  IF s.drawn # NoLexeme THEN {s.drawn}
  ELSE {[v |-> x, line |-> s.look.line + b] :
         x \in IF s.at > Len(src.lexemes) THEN {"EOF"} ELSE src.lexemes[s.at] \cup {"EOF"},
         b \in IF s.at \in src.breaks THEN {0, 1} ELSE {0}}

\* JSLexer.lex, with strict-mode reserved words turned into keywords.
Lexed(s, strict) ==
  UNION {{[at    |-> IF x = "EOF" THEN Len(src.lexemes) + 1 ELSE s.at + 1,
           look  |-> IF strict /\ isStrictModeReservedWord(x)
                       THEN [k |-> "Keyword", v |-> x, line |-> d.line]
                       ELSE Token(x, d.line),
           nl    |-> d.line # s.look.line,
           curly |-> CurlyAfter(x, s.curly),
           drawn |-> NoLexeme,
           twice |-> s.twice] : x \in Spellings(d.v, s.curly)} : d \in Draws(s)}

nextToken(strict) == scan' \in Lexed(scan, strict)
-----------------------------------------------------------------------------
(* Looking at the lookahead *)

look == scan.look
hasLineTerminator == scan.nl
match(v) == look.k = "Punctuator" /\ look.v = v
matchAny(V) == look.k = "Punctuator" /\ look.v \in V
matchKeyword(v) == look.k = "Keyword" /\ look.v = v
matchKeywords(V) == look.k = "Keyword" /\ look.v \in V
matchContextualKeyword(v) == look.k = "Identifier" /\ look.v = v
matchAssign == matchAny({"=", "+="})
isIdentifierName(t) == t.k \in {"Identifier", "Keyword", "BooleanLiteral", "NullLiteral"}
qualifiedPropertyName(t) ==
  \/ isIdentifierName(t) \/ t.k \in {"StringLiteral", "NumericLiteral"}
  \/ t.k = "Punctuator" /\ t.v = "["
AtEnd == look.k = "EOF"
TemplateHead == look.k = "Template" /\ look.v \in {"quasi${", "quasi"}
-----------------------------------------------------------------------------
(* Nodes *)

Node(t, n, k) == [t |-> t, n |-> n, k |-> k]
Leaf(t) == Node(t, "", <<>>)
Identifier(v) == Node("Identifier", v, <<>>)
IsRestricted(node) == node.t = "Identifier" /\ isRestrictedWord(node.n)
Top == vals[1]
Under == Tail(vals)
-----------------------------------------------------------------------------
(* Instructions *)

CallWith(f, a) == [f |-> f, a |-> a]
Call(f) == CallWith(f, "")
Isolate(f) == CallWith("isolateCoverGrammar", Call(f))
Inherit(f) == CallWith("inheritCoverGrammar", Call(f))
Expect(v) == CallWith("expect", v)
ExpectKeyword(v) == CallWith("expectKeyword", v)
Put(flags) == CallWith("put", flags)        \* set context flags
Build(t, n) == CallWith("build", <<t, n>>)  \* a node of the last n nodes
Drop == Call("drop")                        \* the caller ignores the node
AddChild == Call("addChild")                \* append the node to the one below it
Peek(f) == CallWith("peek", f)              \* lex one token further, then f

At(f) == todo # <<>> /\ todo[1].f = f
arg == todo[1].a
Do(is) == todo' = is \o Tail(todo)

\* Steps that leave the lookahead alone, and steps that take it.
Go(c, v, is) ==
  ctx' = c /\ vals' = v /\ Do(is) /\ UNCHANGED <<src, scan, names, status>>
GoNext(c, v, is) ==
  ctx' = c /\ vals' = v /\ Do(is) /\ nextToken(c.strict) /\ UNCHANGED <<src, names, status>>
Then(is) == Go(ctx, vals, is)
Skip(is) == GoNext(ctx, vals, is)
Give(node, is) == Go(ctx, <<node>> \o vals, is)

\* throwError and throwUnexpectedToken, a failed assert, or any other exception.
Fail(how) ==
  /\ status' = how /\ todo' = <<>> /\ vals' = <<>> /\ names' = <<>>
  /\ UNCHANGED <<src, scan, ctx>>
throw == Fail("syntax error")
\* throwError and tolerateError format with the builtin format(), whose second argument
\* is a format specification: with one (a name) or two arguments the call itself raises.
throwFormatted == Fail("internal error")
\* tolerateError and tolerateUnexpectedToken: recorded, or thrown unless tolerant.
Intolerable(bad) == bad /\ ~src.tolerant

WithFlags(c, flags) ==
  [flag \in DOMAIN c |-> IF flag \in DOMAIN flags THEN flags[flag] ELSE c[flag]]
Assignable(c, yes) == [c EXCEPT !.isAssignmentTarget = yes, !.isBindingElement = FALSE]
Plain == Assignable(ctx, FALSE)             \* neither target nor binding
-----------------------------------------------------------------------------
(* The parser's own small steps *)

expect ==
  /\ At("expect")
  /\ IF match(arg) THEN Skip(<<>>) ELSE throw

expectKeyword ==
  /\ At("expectKeyword")
  /\ IF matchKeyword(arg) THEN Skip(<<>>) ELSE throw

\* expect(',') unless the list is closed by arg.
commaUnless ==
  /\ At("commaUnless")
  /\ CASE match(arg) -> Then(<<>>)
       [] match(",") -> Skip(<<>>)
       [] OTHER      -> throw

expectCommaSeparator ==
  /\ At("expectCommaSeparator")
  /\ CASE match(",") \/ (src.tolerant /\ match(";")) -> Skip(<<>>)
       [] src.tolerant /\ ~matchAny({",", ";"})      -> Then(<<>>)
       [] OTHER                                      -> throw

consumeSemicolon ==
  /\ At("consumeSemicolon")
  /\ CASE match(";")                                    -> Skip(<<>>)
       [] hasLineTerminator \/ AtEnd \/ match("}")      -> Then(<<>>)
       [] OTHER                                         -> throw

CoverFlags(c) ==
  [isBindingElement |-> c.isBindingElement, isAssignmentTarget |-> c.isAssignmentTarget,
   firstCoverInitializedNameError |-> c.firstCoverInitializedNameError]

FreshCover ==
  [ctx EXCEPT !.isBindingElement = TRUE, !.isAssignmentTarget = TRUE,
              !.firstCoverInitializedNameError = FALSE]

isolateCoverGrammar ==
  /\ At("isolateCoverGrammar")
  /\ Go(FreshCover, vals, <<arg, CallWith("endIsolate", CoverFlags(ctx))>>)

endIsolate ==
  /\ At("endIsolate")
  /\ IF ctx.firstCoverInitializedNameError THEN throw ELSE Go(WithFlags(ctx, arg), vals, <<>>)

inheritCoverGrammar ==
  /\ At("inheritCoverGrammar")
  /\ Go(FreshCover, vals, <<arg, CallWith("endInherit", CoverFlags(ctx))>>)

endInherit ==
  /\ At("endInherit")
  /\ Go([ctx EXCEPT
           !.isBindingElement = @ /\ arg.isBindingElement,
           !.isAssignmentTarget = @ /\ arg.isAssignmentTarget,
           !.firstCoverInitializedNameError = @ \/ arg.firstCoverInitializedNameError],
        vals, <<>>)

put == At("put") /\ Go(WithFlags(ctx, arg), vals, <<>>)
drop == At("drop") /\ Go(ctx, Under, <<>>)
addChild == At("addChild") /\ Go(ctx, <<[vals[2] EXCEPT !.k = Append(@, Top)]>> \o Tail(Under), <<>>)
build ==
  /\ At("build")
  /\ LET n == arg[2]
     IN  Go(ctx, <<Node(arg[1], "", [i \in 1..n |-> vals[n + 1 - i]])>>
                 \o SubSeq(vals, n + 1, Len(vals)), <<>>)

\* saveState, lex, restoreState: the index and the line go back, the stack of open braces
\* does not.
peek ==
  /\ At("peek")
  /\ \E d \in Draws(scan) : \E x \in Spellings(d.v, scan.curly) :
       /\ scan' = [scan EXCEPT !.drawn = d, !.curly = CurlyAfter(x, @),
                               !.twice = @ \/ CurlyAfter(x, scan.curly) # scan.curly]
       /\ Do(<<CallWith(arg, Token(x, d.line))>>)
  /\ UNCHANGED <<src, ctx, vals, names, status>>

MachineStep ==
  \/ expect \/ expectKeyword \/ commaUnless \/ expectCommaSeparator \/ consumeSemicolon
  \/ isolateCoverGrammar \/ endIsolate \/ inheritCoverGrammar \/ endInherit
  \/ put \/ drop \/ addChild \/ build \/ peek

\* parseInner and prepare: the first token is read before the script or module starts.
Init ==
  /\ src \in Sources
  /\ ctx = [isModule |-> FALSE, allowAwait |-> FALSE, allowIn |-> TRUE,
            allowStrictDirective |-> TRUE, allowYield |-> TRUE,
            firstCoverInitializedNameError |-> FALSE, isAssignmentTarget |-> FALSE,
            isBindingElement |-> FALSE, inFunctionBody |-> FALSE, inIteration |-> FALSE,
            inSwitch |-> FALSE, labelSet |-> {}, strict |-> FALSE]
  /\ scan \in Lexed([at |-> 1, look |-> Token("EOF", 0), nl |-> FALSE, curly |-> <<>>,
                     drawn |-> NoLexeme, twice |-> FALSE], FALSE)
  /\ todo = <<Call(IF src.module THEN "parseModule" ELSE "parseScript")>>
  /\ vals = <<>> /\ names = <<>> /\ status = "parsing"
=============================================================================
