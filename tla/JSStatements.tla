---------------------------- MODULE JSStatements ----------------------------
(* The statement, declaration, function and class grammar of JSParser.      *)
EXTENDS JSExpressions

openNames ==
  /\ At("openNames")
  /\ names' = <<<<>>>> \o names /\ Do(<<>>)
  /\ UNCHANGED <<src, scan, ctx, vals, status>>

dropNames ==
  /\ At("dropNames")
  /\ names' = Tail(names) /\ Do(<<>>)
  /\ UNCHANGED <<src, scan, ctx, vals, status>>

Named(v) == names' = <<Append(names[1], v)>> \o Tail(names)
-----------------------------------------------------------------------------
(* Binding patterns; arg is the kind of the declaration, "" for parameters *)

BadVariable(token, kind) ==
  [thrown    |-> \/ token.k = "Keyword" /\ token.v = "yield" /\ ~ctx.strict /\ ~ctx.allowYield
                 \/ /\ token.k # "Identifier" /\ ~(token.k = "Keyword" /\ token.v = "yield")
                    /\ ~(ctx.strict /\ token.k = "Keyword" /\ isStrictModeReservedWord(token.v))
                    /\ ctx.strict \/ token.v # "let" \/ kind # "var",
   tolerated |-> \/ ctx.strict /\ token.k = "Keyword" /\ isStrictModeReservedWord(token.v)
                 \/ (ctx.isModule \/ ctx.allowAwait) /\ token.k = "Identifier" /\ token.v = "await"]

parseVariableIdentifier ==
  /\ At("parseVariableIdentifier")
  /\ LET bad == BadVariable(look, arg)
     IN  IF bad.thrown \/ Intolerable(bad.tolerated) THEN throw
         ELSE GoNext(ctx, <<Identifier(look.v)>> \o vals, <<>>)

parsePattern ==
  /\ At("parsePattern")
  /\ \/ match("[") /\ Then(<<CallWith("parseArrayPattern", arg)>>)
     \/ match("{") /\ Then(<<CallWith("parseObjectPattern", arg)>>)
     \/ /\ ~matchAny({"[", "{"})
        /\ IF Intolerable(matchKeyword("let") /\ arg \in {"let", "const"}) THEN throw
           ELSE /\ Named(look.v) /\ Do(<<CallWith("parseVariableIdentifier", arg)>>)
                /\ UNCHANGED <<src, scan, ctx, vals, status>>

parseArrayPattern ==
  /\ At("parseArrayPattern")
  /\ Give(Leaf("ArrayPattern"), <<Expect("["), CallWith("patternElement", arg)>>)

patternElement ==
  /\ At("patternElement")
  /\ CASE match("]") -> Skip(<<>>)
       [] match(",") -> Skip(<<CallWith("patternElement", arg)>>)
       [] match("...") -> Skip(<<CallWith("parsePattern", arg), Build("RestElement", 1), AddChild,
                                 Expect("]")>>)
       [] OTHER -> Then(<<CallWith("parsePatternWithDefault", arg), AddChild,
                          CallWith("commaUnless", "]"), CallWith("patternElement", arg)>>)

parsePatternWithDefault ==
  /\ At("parsePatternWithDefault")
  /\ Then(<<CallWith("parsePattern", arg), Call("patternDefault")>>)

patternDefault ==
  /\ At("patternDefault")
  /\ IF match("=")
     THEN GoNext([ctx EXCEPT !.allowYield = TRUE], vals,
                 <<Isolate("parseAssignmentExpression"), Put([allowYield |-> ctx.allowYield]),
                   Build("AssignmentPattern", 2)>>)
     ELSE Then(<<>>)

parseObjectPattern ==
  /\ At("parseObjectPattern")
  /\ Give(Leaf("ObjectPattern"), <<Expect("{"), CallWith("patternProperty", arg)>>)

patternProperty ==
  /\ At("patternProperty")
  /\ LET again == <<AddChild, CallWith("commaUnless", "}"), CallWith("patternProperty", arg)>>
     IN  CASE match("}")   -> Skip(<<>>)
           [] match("...") -> Skip(<<CallWith("parsePattern", ""), CallWith("endRest", "}")>> \o again)
           [] OTHER        -> Then(<<CallWith("parsePropertyPattern", arg)>> \o again)

parsePropertyPattern ==
  /\ At("parsePropertyPattern")
  /\ IF look.k = "Identifier"
     THEN Then(<<CallWith("parseVariableIdentifier", ""),
                 CallWith("shorthandPattern", [key |-> look.v, kind |-> arg])>>)
     ELSE Then(<<Call("parseObjectPropertyKey"), Drop, Expect(":"),
                 CallWith("parsePatternWithDefault", arg)>>)

\* The default value of a shorthand property is parsed in the grammar around it.
shorthandPattern ==
  /\ At("shorthandPattern")
  /\ IF match(":")
     THEN GoNext(ctx, Under, <<CallWith("parsePatternWithDefault", arg.kind)>>)
     ELSE /\ Named(arg.key)
          /\ IF match("=")
             THEN /\ nextToken(ctx.strict)
                  /\ Do(<<Call("parseAssignmentExpression"), Build("AssignmentPattern", 2)>>)
             ELSE UNCHANGED scan /\ Do(<<>>)
          /\ UNCHANGED <<src, ctx, vals, status>>

parseRestElement ==
  /\ At("parseRestElement")
  /\ Then(<<Expect("..."), CallWith("parsePattern", ""), CallWith("endRest", ")")>>)

endRest ==
  /\ At("endRest")
  /\ IF match(arg) THEN Then(<<Build("RestElement", 1)>>) ELSE throw
-----------------------------------------------------------------------------
(* Declarations *)

\* A list of declarators; the `for` statement asks how many there are and what the first has.
Declarator(id, init) == Node("VariableDeclarator", init, <<id>>)
Declarations(a) == <<CallWith("declarator", a), AddChild, CallWith("nextDeclarator", a)>>

nextDeclarator ==
  /\ At("nextDeclarator")
  /\ IF match(",") THEN Skip(Declarations(arg)) ELSE Then(<<>>)

\* parseLexicalBinding and parseVariableDeclaration
declarator ==
  /\ At("declarator")
  /\ Then(<<Call("openNames"), CallWith("parsePattern", arg.kind), Call("dropNames"),
            CallWith(IF arg.kind = "var" THEN "variableInit" ELSE "lexicalInit", arg)>>)

Initializer == <<Isolate("parseAssignmentExpression"), Call("declared")>>
declared ==
  /\ At("declared")
  /\ \E init \in {"init"} \cup (IF MayComeFirst(Top) THEN {"first node"} ELSE {}) :
       Go(ctx, <<Declarator(vals[2], init)>> \o Tail(Under), <<>>)

lexicalInit ==
  /\ At("lexicalInit")
  /\ LET pattern == Top.t # "Identifier"
     IN  IF Intolerable(ctx.strict /\ IsRestricted(Top)) THEN throw
         ELSE IF arg.kind = "const"
         THEN CASE match("=") -> Skip(Initializer)
                [] matchKeyword("in") \/ matchContextualKeyword("of") ->
                     Go(ctx, <<Declarator(Top, "")>> \o Under, <<>>)
                [] OTHER -> throwFormatted
         ELSE CASE match("=") -> Skip(Initializer)
                [] ~match("=") /\ pattern /\ ~arg.inFor -> throw
                [] OTHER -> Go(ctx, <<Declarator(Top, "")>> \o Under, <<>>)

variableInit ==
  /\ At("variableInit")
  /\ IF Intolerable(ctx.strict /\ IsRestricted(Top)) THEN throw
     ELSE CASE match("=") -> Skip(Initializer)
            [] ~match("=") /\ Top.t # "Identifier" /\ ~arg.inFor -> throw
            [] OTHER -> Go(ctx, <<Declarator(Top, "")>> \o Under, <<>>)

\* parseLexicalDeclaration and parseVariableStatement
declarationStatement ==
  /\ At("declarationStatement")
  /\ GoNext(ctx, <<Leaf("Declarations")>> \o vals,
            Declarations([kind |-> look.v, inFor |-> FALSE]) \o <<Drop, Call("consumeSemicolon")>>)
-----------------------------------------------------------------------------
(* Functions *)

parseFormalParameters ==
  /\ At("parseFormalParameters")
  /\ Then(<<Expect("("), CallWith("formals", [NoParams EXCEPT !.firstRestricted = arg])>>)

formals ==
  /\ At("formals")
  /\ CASE match(")") -> GoNext(ctx, <<arg>> \o vals, <<>>)
       [] AtEnd      -> throw
       [] OTHER      -> Then(<<Call("openNames"),
                               IF match("...") THEN Call("parseRestElement")
                               ELSE CallWith("parsePatternWithDefault", ""),
                               CallWith("endParameter", arg)>>)

\* parseFormalParameter
endParameter ==
  /\ At("endParameter")
  /\ LET o == [validateParams(arg, names[1]) EXCEPT !.simple = @ /\ Top.t = "Identifier",
                                                  !.k = Append(@, Top)]
     IN  Do(<<CallWith("commaUnless", ")"), CallWith("formals", o)>>)
  /\ names' = Tail(names) /\ vals' = Under
  /\ UNCHANGED <<src, scan, ctx, status>>

\* parseFunctionDeclaration and parseFunctionExpression; arg.optional: the name may be missing.
functionKeyword(f, optional) ==
  /\ At(f)
  /\ LET rest(async) == CallWith("functionStar", [async |-> async, expression |-> optional = "expression",
                                                 optional |-> optional # "named"])
     IN  IF matchContextualKeyword("async")
         THEN Skip(<<ExpectKeyword("function"), rest(TRUE)>>)
         ELSE Then(<<ExpectKeyword("function"), rest(FALSE)>>)

parseFunctionDeclaration == functionKeyword("parseFunctionDeclaration", "named")
parseDefaultFunction == functionKeyword("parseDefaultFunction", "optional")
parseFunctionExpression == functionKeyword("parseFunctionExpression", "expression")

functionStar ==
  /\ At("functionStar")
  /\ LET generator == IF match("*") /\ ~arg.async THEN "generator" ELSE ""
         rest == <<CallWith("functionName", [generator |-> generator] @@ arg)>>
     IN  IF generator = "generator" THEN Skip(rest) ELSE Then(rest)

\* The name of an expression is read with the flags of the function, that of a declaration
\* with the flags around it.
functionName ==
  /\ At("functionName")
  /\ LET inner == [ctx EXCEPT !.allowAwait = arg.async, !.allowYield = arg.generator = ""]
         restricted == isRestrictedWord(look.v)
         first == ~ctx.strict /\ (restricted \/ isStrictModeReservedWord(look.v))
         restore == Put([allowAwait |-> ctx.allowAwait, allowYield |-> ctx.allowYield])
         rest(isFirst) == <<CallWith("parseFormalParameters", isFirst),
                            CallWith("functionBody", arg.generator), restore>>
         yields == ~ctx.strict /\ arg.generator = "" /\ matchKeyword("yield")
         name == IF arg.expression /\ yields THEN Call("parseIdentifierName")
                 ELSE CallWith("parseVariableIdentifier", "")
     IN  IF arg.optional /\ match("(") THEN Go(inner, vals, rest(FALSE))
         ELSE IF Intolerable(ctx.strict /\ restricted) THEN throw
         ELSE IF arg.expression THEN Go(inner, vals, <<name, Drop>> \o rest(first))
         ELSE Then(<<name, Drop, Put([allowAwait |-> arg.async, allowYield |-> arg.generator = ""])>>
                   \o rest(first))

functionBody ==
  /\ At("functionBody")
  /\ Go([ctx EXCEPT !.allowStrictDirective = Top.simple], Under,
        <<Call("parseFunctionSourceElements"),
          CallWith("endFunction", [params |-> Top, generator |-> arg, kind |-> "function"]),
          Put([strict |-> ctx.strict, allowStrictDirective |-> ctx.allowStrictDirective])>>)

parseFunctionSourceElements ==
  /\ At("parseFunctionSourceElements")
  /\ Then(<<Expect("{"), CallWith("parseDirectivePrologues", FALSE), Call("functionStatements")>>)

\* As if a function could break out of the labelled statements around it.
functionStatementsLabelled ==
  /\ At("functionStatements")
  /\ Go([ctx EXCEPT !.inIteration = FALSE, !.inSwitch = FALSE, !.inFunctionBody = TRUE],
        <<Leaf("BlockStatement")>> \o vals,
        <<Call("statements"),
          Put([labelSet |-> ctx.labelSet, inIteration |-> ctx.inIteration,
               inSwitch |-> ctx.inSwitch, inFunctionBody |-> ctx.inFunctionBody])>>)

functionStatements ==
  /\ At("functionStatements")
  /\ Go([ctx EXCEPT !.labelSet = {}, !.inIteration = FALSE, !.inSwitch = FALSE,
                    !.inFunctionBody = TRUE],
        <<Leaf("BlockStatement")>> \o vals,
        <<Call("statements"),
          Put([labelSet |-> ctx.labelSet, inIteration |-> ctx.inIteration,
               inSwitch |-> ctx.inSwitch, inFunctionBody |-> ctx.inFunctionBody])>>)

\* Statements up to the closing brace.  The lookahead behind the brace is read before the
\* flags of the function are put back.
statements ==
  /\ At("statements")
  /\ IF match("}") THEN Skip(<<>>)
     ELSE Then(<<Call("parseStatementListItem"), Call("statements")>>)

\* arg: an octal escape was seen in an earlier directive.
parseDirectivePrologues ==
  /\ At("parseDirectivePrologues")
  /\ IF look.k = "StringLiteral"
     THEN Then(<<Call("parseExpression"), CallWith("directive", [token |-> look, octal |-> arg])>>)
     ELSE Then(<<>>)

directive ==
  /\ At("directive")
  /\ Go(ctx, Under, <<Call("consumeSemicolon")>> \o
        IF Top.t = "Literal" THEN <<CallWith("endDirective", arg)>> ELSE <<>>)

endDirective ==
  /\ At("endDirective")
  /\ IF arg.token.v = "use strict"
     THEN IF Intolerable(arg.octal \/ ~ctx.allowStrictDirective) THEN throw
          ELSE Go([ctx EXCEPT !.strict = TRUE], vals, <<CallWith("parseDirectivePrologues", arg.octal)>>)
     ELSE Then(<<CallWith("parseDirectivePrologues", arg.octal \/ arg.token.v = "octal str")>>)
-----------------------------------------------------------------------------
(* Statements; a statement leaves no node *)

\* endItem remembers the context the item started with.
parseStatementListItem ==
  /\ At("parseStatementListItem")
  /\ LET c == [ctx EXCEPT !.isAssignmentTarget = TRUE, !.isBindingElement = TRUE]
         is(f) == Go(c, vals, <<f, CallWith("endItem", ctx)>>)
     IN  \/ /\ matchKeyword("export")
            /\ IF Intolerable(~ctx.isModule) THEN throw ELSE is(Call("parseExportDeclaration"))
         \/ matchKeyword("import") /\ is(Peek("importItem"))
         \/ matchKeyword("const") /\ is(Call("declarationStatement"))
         \/ matchKeyword("function") /\ is(Call("functionItem"))
         \/ matchKeyword("class") /\ is(Call("classItem"))
         \/ matchKeyword("let") /\ is(Peek("letItem"))
         \/ /\ ~matchKeywords({"export", "import", "const", "function", "class", "let"})
            /\ is(Call("parseStatement"))

endItem == At("endItem") /\ Then(<<>>)
functionItem == At("functionItem") /\ Then(<<Call("parseFunctionDeclaration"), Drop>>)
classItem == At("classItem") /\ Then(<<CallWith("parseClass", "named"), Drop>>)

\* matchImportCall and isLexicalDeclaration, after the look ahead.
importItem ==
  /\ At("importItem")
  /\ IF arg.k = "Punctuator" /\ arg.v = "(" THEN Then(<<Call("parseExpressionStatement")>>)
     ELSE IF Intolerable(~ctx.isModule) THEN throw
     ELSE Then(<<Call("parseImportDeclaration")>>)

letItem ==
  /\ At("letItem")
  /\ IF \/ arg.k = "Identifier"
        \/ arg.k = "Punctuator" /\ arg.v \in {"[", "{"}
        \/ arg.k = "Keyword" /\ arg.v \in {"let", "yield"}
     THEN Then(<<Call("declarationStatement")>>) ELSE Then(<<Call("parseStatement")>>)

StatementFunction ==
  [break |-> "parseBreakStatement", continue |-> "parseContinueStatement",
   debugger |-> "parseDebuggerStatement", do |-> "parseDoWhileStatement",
   for |-> "parseForStatement", function |-> "functionItem", if |-> "parseIfStatement",
   return |-> "parseReturnStatement", switch |-> "parseSwitchStatement",
   throw |-> "parseThrowStatement", try |-> "parseTryStatement",
   var |-> "declarationStatement", while |-> "parseWhileStatement", with |-> "parseWithStatement"]

parseStatement ==
  /\ At("parseStatement")
  /\ CASE AtEnd      -> throw
       [] match("{") -> Then(<<Call("parseBlock")>>)
       [] match(";") -> Skip(<<>>)
       [] matchContextualKeyword("async") -> Then(<<Peek("asyncStatement")>>)
       [] look.k = "Identifier" /\ look.v # "async" -> Then(<<Call("parseLabelledStatement")>>)
       [] look.k = "Keyword" /\ look.v \in DOMAIN StatementFunction ->
            Then(<<Call(StatementFunction[look.v])>>)
       [] OTHER -> Then(<<Call("parseExpressionStatement")>>)

asyncStatement ==
  /\ At("asyncStatement")
  /\ Then(<<Call(IF IsAsyncFunction(arg) THEN "functionItem" ELSE "parseLabelledStatement")>>)

parseBlock == At("parseBlock") /\ Then(<<Expect("{"), Call("statements")>>)

parseExpressionStatement ==
  /\ At("parseExpressionStatement")
  /\ Then(<<Call("parseExpression"), Drop, Call("consumeSemicolon")>>)

parseIfClause ==
  /\ At("parseIfClause")
  /\ IF Intolerable(ctx.strict /\ matchKeyword("function")) THEN throw
     ELSE Then(<<Call("parseStatement")>>)

\* The parenthesized head of if, while and with: a tolerant parser that misses the closing
\* parenthesis drops the token there and gives the statement an empty body.
Headed(body) ==
  Skip(<<Expect("("), Call("parseExpression"), Drop, CallWith("closeHead", body)>>)

closeHead ==
  /\ At("closeHead")
  /\ CASE match(")") -> Skip(arg)
       [] ~match(")") /\ src.tolerant -> Skip(<<>>)
       [] OTHER -> throw

parseIfStatement ==
  At("parseIfStatement") /\ Headed(<<Call("parseIfClause"), Call("elseClause")>>)

elseClause ==
  /\ At("elseClause")
  /\ IF matchKeyword("else") THEN Skip(<<Call("parseIfClause")>>) ELSE Then(<<>>)

parseWithStatement ==
  /\ At("parseWithStatement")
  /\ IF Intolerable(ctx.strict) THEN throw ELSE Headed(<<Call("parseStatement")>>)

\* As if the body of a loop went on to the end of the text.
LoopOn(body) == <<Put([inIteration |-> TRUE]), body>>
Loop(body) == <<Put([inIteration |-> TRUE]), body, Put([inIteration |-> ctx.inIteration])>>

parseWhileStatement == At("parseWhileStatement") /\ Headed(Loop(Call("parseStatement")))

parseDoWhileStatement ==
  /\ At("parseDoWhileStatement")
  /\ GoNext([ctx EXCEPT !.inIteration = TRUE], vals,
            <<Call("parseStatement"), Put([inIteration |-> ctx.inIteration]),
              ExpectKeyword("while"), Expect("("), Call("parseExpression"), Drop,
              CallWith("closeHead", <<Call("optionalSemicolon")>>)>>)

optionalSemicolon ==
  /\ At("optionalSemicolon")
  /\ IF match(";") THEN Skip(<<>>) ELSE Then(<<>>)

parseForStatement ==
  /\ At("parseForStatement")
  /\ Skip(<<Expect("("), Call("forInit")>>)

ForTest == <<Call("forTest")>>
ForEach(right) == <<Drop, Call(right), Drop, CallWith("closeHead", Loop(Isolate("parseStatement")))>>
NoIn == [ctx EXCEPT !.allowIn = FALSE]
RestoreIn == Put([allowIn |-> ctx.allowIn])

forInit ==
  /\ At("forInit")
  /\ CASE match(";") -> Skip(ForTest)
       [] matchKeyword("var") ->
            GoNext(NoIn, <<Leaf("Declarations")>> \o vals,
                   Declarations([kind |-> "var", inFor |-> TRUE]) \o <<RestoreIn, CallWith("forDeclared", "var")>>)
       [] matchKeywords({"const", "let"}) -> Skip(<<CallWith("forLexical", look.v)>>)
       [] OTHER -> Go(NoIn, vals, <<Inherit("parseAssignmentExpression"), RestoreIn, Call("forExpression")>>)

forLexical ==
  /\ At("forLexical")
  /\ IF ~ctx.strict /\ look.v = "in"
     THEN GoNext(ctx, <<Identifier(arg)>> \o vals, ForEach("parseExpression"))
     ELSE Go(NoIn, <<Leaf("Declarations")>> \o vals,
             Declarations([kind |-> arg, inFor |-> TRUE]) \o <<RestoreIn, CallWith("forDeclared", arg)>>)

\* An initializer is looked at together with the pattern, of which only the index is at hand.
forDeclared ==
  /\ At("forDeclared")
  /\ LET single == Len(Top.k) = 1
         init == Top.k[1].n # ""
     IN  CASE single /\ matchKeyword("in") /\ (~init \/ arg = "var") ->
                IF Top.k[1].n = "init" THEN Fail("internal error")
                ELSE Skip(ForEach("parseExpression"))
           [] single /\ ~init /\ matchContextualKeyword("of") ->
                Skip(ForEach("parseAssignmentExpression"))
           [] OTHER -> Then(<<Drop, IF arg = "var" THEN Expect(";") ELSE Call("consumeSemicolon")>>
                            \o ForTest)

forExpression ==
  /\ At("forExpression")
  /\ LET bad == Intolerable(~ctx.isAssignmentTarget \/ Top.t = "AssignmentExpression")
         each == matchKeyword("in") \/ matchContextualKeyword("of")
     IN  IF each THEN
           IF bad THEN throw
           ELSE Skip(ForEach(IF look.v = "in" THEN "parseExpression" ELSE "parseAssignmentExpression"))
         ELSE Then(<<Call("comma"), Drop, Expect(";")>> \o ForTest)

forTest ==
  /\ At("forTest")
  /\ IF match(";") THEN Skip(<<Call("forUpdate")>>)
     ELSE Then(<<Call("parseExpression"), Drop, Expect(";"), Call("forUpdate")>>)

forUpdate ==
  /\ At("forUpdate")
  /\ LET body == CallWith("closeHead", Loop(Isolate("parseStatement")))
     IN  IF match(")") THEN Then(<<body>>) ELSE Then(<<Call("parseExpression"), Drop, body>>)

\* parseContinueStatement and parseBreakStatement: after a label, or with none.
jump(f, allowed) ==
  /\ At(f)
  /\ Skip(<<CallWith("jumpTarget", allowed)>>)
parseContinueStatement == jump("parseContinueStatement", ctx.inIteration)
parseBreakStatement == jump("parseBreakStatement", ctx.inIteration \/ ctx.inSwitch)

jumpTarget ==
  /\ At("jumpTarget")
  /\ IF look.k = "Identifier" /\ ~hasLineTerminator
     THEN Then(<<CallWith("parseVariableIdentifier", ""), Call("knownLabel"), Call("consumeSemicolon")>>)
     ELSE Then(<<Call("consumeSemicolon"), CallWith("allowedJump", arg)>>)

knownLabel ==
  /\ At("knownLabel")
  /\ IF Top.n \in ctx.labelSet THEN Go(ctx, Under, <<>>) ELSE throwFormatted

allowedJump == At("allowedJump") /\ IF arg THEN Then(<<>>) ELSE throw

parseReturnStatement ==
  /\ At("parseReturnStatement")
  /\ IF Intolerable(~ctx.inFunctionBody) THEN throw ELSE Skip(<<Call("returnArgument")>>)

returnArgument ==
  /\ At("returnArgument")
  /\ IF \/ ~matchAny({";", "}"}) /\ ~hasLineTerminator /\ ~AtEnd
        \/ look.k \in {"StringLiteral", "Template"}
     THEN Then(<<Call("parseExpressionStatement")>>) ELSE Then(<<Call("consumeSemicolon")>>)

parseSwitchStatement ==
  /\ At("parseSwitchStatement")
  /\ Skip(<<Expect("("), Call("parseExpression"), Drop, Expect(")"), Put([inSwitch |-> TRUE]),
            Expect("{"), CallWith("switchCase", FALSE), Put([inSwitch |-> ctx.inSwitch])>>)

\* arg: a default clause has been seen.
switchCase ==
  /\ At("switchCase")
  /\ CASE match("}") -> Skip(<<>>)
       [] matchKeyword("default") ->
            Skip(<<Expect(":"), Call("caseStatements"), CallWith("secondDefault", arg),
                   CallWith("switchCase", TRUE)>>)
       [] OTHER ->
            Then(<<ExpectKeyword("case"), Call("parseExpression"), Drop, Expect(":"),
                   Call("caseStatements"), CallWith("switchCase", arg)>>)

\* Thrown once the clause has been parsed, when its tokens are gone.
secondDefault == At("secondDefault") /\ IF arg THEN throw ELSE Then(<<>>)

caseStatements ==
  /\ At("caseStatements")
  /\ IF match("}") \/ matchKeywords({"default", "case"}) THEN Then(<<>>)
     ELSE Then(<<Call("parseStatementListItem"), Call("caseStatements")>>)

parseLabelledStatement ==
  /\ At("parseLabelledStatement")
  /\ Then(<<Call("parseExpression"), Call("label")>>)

label ==
  /\ At("label")
  /\ IF Top.t = "Identifier" /\ match(":")
     THEN IF Top.n \in ctx.labelSet THEN throwFormatted
          ELSE GoNext([ctx EXCEPT !.labelSet = @ \cup {Top.n}], Under,
                      <<Call("labelled"), CallWith("removeLabel", Top.n)>>)
     ELSE Go(ctx, Under, <<Call("consumeSemicolon")>>)

labelled ==
  /\ At("labelled")
  /\ CASE matchKeyword("class") -> IF Intolerable(TRUE) THEN throw ELSE Then(<<Call("classItem")>>)
       [] matchKeyword("function") -> Then(<<Call("parseFunctionDeclaration"), Call("labelledFunction")>>)
       [] OTHER -> Then(<<Call("parseStatement")>>)

labelledFunction ==
  /\ At("labelledFunction")
  /\ IF Intolerable(ctx.strict \/ Top.n = "generator") THEN throw ELSE Go(ctx, Under, <<>>)

removeLabel ==
  At("removeLabel") /\ Go([ctx EXCEPT !.labelSet = @ \ {arg}], vals, <<>>)

parseThrowStatement ==
  At("parseThrowStatement") /\ Skip(<<Call("throwArgument")>>)

throwArgument ==
  /\ At("throwArgument")
  /\ IF hasLineTerminator THEN throw ELSE Then(<<Call("parseExpressionStatement")>>)

parseTryStatement ==
  At("parseTryStatement") /\ Skip(<<Call("parseBlock"), Call("catchOrFinally")>>)

catchOrFinally ==
  /\ At("catchOrFinally")
  /\ CASE matchKeyword("catch")   -> Skip(<<Call("catchParameter"), Call("parseBlock"), Call("finallyClause")>>)
       [] matchKeyword("finally") -> Then(<<Call("finallyClause")>>)
       [] OTHER                   -> throw

finallyClause ==
  /\ At("finallyClause")
  /\ IF matchKeyword("finally") THEN Skip(<<Call("parseBlock")>>) ELSE Then(<<>>)

catchParameter ==
  /\ At("catchParameter")
  /\ IF match("(") THEN Skip(<<Call("catchPattern")>>) ELSE Then(<<>>)

catchPattern ==
  /\ At("catchPattern")
  /\ IF match(")") THEN throw
     ELSE Then(<<Call("openNames"), CallWith("parsePattern", ""), Call("endCatchPattern"),
                 Call("dropNames"), Expect(")")>>)

endCatchPattern ==
  /\ At("endCatchPattern")
  /\ IF \E i, j \in DOMAIN names[1] : i < j /\ names[1][i] = names[1][j] THEN throwFormatted
     ELSE IF Intolerable(ctx.strict /\ IsRestricted(Top)) THEN throw
     ELSE Go(ctx, Under, <<>>)

parseDebuggerStatement ==
  At("parseDebuggerStatement") /\ Skip(<<Call("consumeSemicolon")>>)

StatementStep ==
  \/ openNames \/ dropNames \/ parseVariableIdentifier \/ parsePattern \/ parseArrayPattern
  \/ patternElement \/ parsePatternWithDefault \/ patternDefault \/ parseObjectPattern
  \/ patternProperty \/ parsePropertyPattern \/ shorthandPattern \/ parseRestElement \/ endRest
  \/ nextDeclarator \/ declarator \/ declared \/ lexicalInit \/ variableInit
  \/ declarationStatement \/ parseFormalParameters \/ formals \/ endParameter
  \/ parseFunctionDeclaration \/ parseDefaultFunction \/ parseFunctionExpression \/ functionStar
  \/ functionName \/ functionBody \/ parseFunctionSourceElements \/ functionStatements
  \/ statements \/ parseDirectivePrologues \/ directive \/ endDirective
  \/ parseStatementListItem \/ endItem \/ functionItem \/ classItem \/ importItem \/ letItem
  \/ parseStatement \/ asyncStatement \/ parseBlock \/ parseExpressionStatement \/ parseIfClause
  \/ closeHead \/ parseIfStatement \/ elseClause \/ parseWithStatement \/ parseWhileStatement
  \/ parseDoWhileStatement \/ optionalSemicolon \/ parseForStatement \/ forInit \/ forLexical
  \/ forDeclared \/ forExpression \/ forTest \/ forUpdate \/ parseContinueStatement
  \/ parseBreakStatement \/ jumpTarget \/ knownLabel \/ allowedJump \/ parseReturnStatement
  \/ returnArgument \/ parseSwitchStatement \/ switchCase \/ secondDefault \/ caseStatements
  \/ parseLabelledStatement \/ label \/ labelled \/ labelledFunction \/ removeLabel
  \/ parseThrowStatement \/ throwArgument \/ parseTryStatement \/ catchOrFinally
  \/ finallyClause \/ catchParameter \/ catchPattern \/ endCatchPattern
  \/ parseDebuggerStatement
=============================================================================
