------------------------------ MODULE JSParser ------------------------------
(* The JavaScript parser: classes, imports and exports, scripts and modules *)
(* on top of the statement grammar, and what a parse must keep true.        *)
EXTENDS JSStatements

(* Classes *)

\* parseClassDeclaration and parseClassExpression; arg says whether the name may be missing.
parseClass ==
  /\ At("parseClass")
  /\ Go([ctx EXCEPT !.strict = TRUE], vals,
        <<ExpectKeyword("class"), CallWith("className", arg), Call("heritage"), Expect("{"),
          CallWith("classElement", FALSE), Put([strict |-> ctx.strict])>>)

parseClassExpression ==
  At("parseClassExpression") /\ Then(<<CallWith("parseClass", "expression")>>)

className ==
  /\ At("className")
  /\ Then(IF arg # "named" /\ look.k # "Identifier" THEN <<>>
          ELSE <<CallWith("parseVariableIdentifier", ""), Drop>>)

heritage ==
  /\ At("heritage")
  /\ IF matchKeyword("extends")
     THEN Skip(<<Isolate("parseLeftHandSideExpressionAllowCall"), Drop>>) ELSE Then(<<>>)

\* arg: the class has a constructor already.
classElement ==
  /\ At("classElement")
  /\ LET element == [token |-> look, computed |-> match("["), static |-> FALSE, async |-> FALSE,
                     hasKey |-> ~match("*"), constructor |-> arg]
     IN  CASE match("}") -> GoNext(ctx, <<Leaf("Class")>> \o vals, <<>>)
           [] match(";") -> Skip(<<CallWith("classElement", arg)>>)
           [] match("*") -> Skip(<<CallWith("elementValue", element)>>)
           [] OTHER -> Then(<<Call("parseObjectPropertyKey"), CallWith("elementKey", element)>>)

\* The name of the key is asked for whatever node the key is: only an identifier has one.
elementKey ==
  /\ At("elementKey")
  /\ LET static == [arg EXCEPT !.token = look, !.static = TRUE, !.computed = match("[")]
     IN  IF Top.t # "Identifier" THEN Fail("internal error")
         ELSE IF Top.n = "static" /\ match("*") THEN Skip(<<CallWith("asyncElement", static)>>)
         ELSE IF Top.n = "static" /\ qualifiedPropertyName(look)
         THEN Go(ctx, Under, <<Call("parseObjectPropertyKey"), CallWith("asyncElement", static)>>)
         ELSE Then(<<CallWith("asyncElement", arg)>>)

asyncElement ==
  /\ At("asyncElement")
  /\ IF /\ arg.token.k = "Identifier" /\ arg.token.v = "async"
        /\ ~hasLineTerminator /\ ~matchAny({":", "(", "*"})
     THEN IF Intolerable(look.k = "Identifier" /\ look.v = "constructor") THEN throw
          ELSE Go(ctx, Under, <<Call("parseObjectPropertyKey"),
                                CallWith("elementValue", [arg EXCEPT !.token = look, !.async = TRUE])>>)
     ELSE Then(<<CallWith("elementValue", arg)>>)

elementValue ==
  /\ At("elementValue")
  /\ LET below == IF arg.hasKey THEN Under ELSE vals
         keyed(kind, is) ==
           Go(ctx, below, <<Call("parseObjectPropertyKey")>> \o is \o
              <<CallWith("endElement", [kind |-> kind, element |-> [arg EXCEPT !.computed = match("[")]])>>)
         end(kind) == CallWith("endElement", [kind |-> kind, element |-> arg])
     IN  IF IsAccessor(arg.token, "get")
         THEN keyed("get", <<Put([allowYield |-> FALSE]), Call("parseGetterMethod")>>)
         ELSE IF IsAccessor(arg.token, "set") THEN keyed("set", <<Call("parseSetterMethod")>>)
         ELSE IF IsGenerator(arg.token) THEN keyed("method", <<Call("parseGeneratorMethod")>>)
         ELSE IF arg.token.k = "Identifier" /\ match("=")
         THEN Skip(<<Call("parseAssignmentExpression"), end("init")>>)
         ELSE IF arg.token.k = "Identifier" /\ ~match("(") THEN Give(Leaf("None"), <<end("init")>>)
         ELSE IF arg.hasKey /\ match("(")
         THEN Then(<<Call(IF arg.async THEN "parsePropertyMethodAsyncFunction"
                          ELSE "parsePropertyMethodFunction"), end("method")>>)
         ELSE throw

endElement ==
  /\ At("endElement")
  /\ LET e == arg.element
         named(v) == ~e.computed /\ isPropertyKey(vals[2], v)
         constructor == ~e.static /\ named("constructor")
     IN  IF \/ e.static /\ named("prototype")
            \/ constructor /\ (arg.kind # "method" \/ Top.n = "generator" \/ e.constructor)
         THEN throw
         ELSE Go(ctx, Tail(Under), <<CallWith("classElement", e.constructor \/ constructor)>>)
-----------------------------------------------------------------------------
(* Imports and exports *)

\* The content of the lookahead as a format specification: empty, or an alignment, will do.
throwContent == IF AtEnd \/ matchAny({"<", "=>"}) THEN throw ELSE throwFormatted

parseModuleSpecifier ==
  /\ At("parseModuleSpecifier")
  /\ IF look.k = "StringLiteral" THEN Skip(<<>>) ELSE throw

fromClause ==
  /\ At("fromClause")
  /\ IF matchContextualKeyword("from")
     THEN Skip(<<Call("parseModuleSpecifier"), Call("consumeSemicolon")>>) ELSE throwContent

parseNamedImports ==
  At("parseNamedImports") /\ Then(<<Expect("{"), Call("namedImport")>>)

namedImport ==
  /\ At("namedImport")
  /\ IF match("}") THEN Skip(<<>>)
     ELSE Then(<<Call("parseImportSpecifier"), CallWith("commaUnless", "}"), Call("namedImport")>>)

\* Only an identifier may be imported under its own name.
parseImportSpecifier ==
  /\ At("parseImportSpecifier")
  /\ IF look.k = "Identifier"
     THEN Then(<<CallWith("parseVariableIdentifier", ""), Drop, CallWith("importAs", TRUE)>>)
     ELSE Then(<<Call("parseIdentifierName"), Drop, CallWith("importAs", FALSE)>>)

importAs ==
  /\ At("importAs")
  /\ CASE matchContextualKeyword("as") -> Skip(<<CallWith("parseVariableIdentifier", ""), Drop>>)
       [] ~matchContextualKeyword("as") /\ arg -> Then(<<>>)
       [] OTHER -> throw

parseImportNamespaceSpecifier ==
  At("parseImportNamespaceSpecifier") /\ Then(<<Expect("*"), Call("namespaceAs")>>)

namespaceAs ==
  /\ At("namespaceAs")
  /\ IF matchContextualKeyword("as") THEN Skip(<<Call("parseIdentifierName"), Drop>>) ELSE throw

parseImportDeclaration ==
  /\ At("parseImportDeclaration")
  /\ IF ctx.inFunctionBody THEN throw ELSE Then(<<ExpectKeyword("import"), Call("importClause")>>)

importClause ==
  /\ At("importClause")
  /\ CASE look.k = "StringLiteral" -> Then(<<Call("parseModuleSpecifier"), Call("consumeSemicolon")>>)
       [] match("{") -> Then(<<Call("parseNamedImports"), Call("fromClause")>>)
       [] match("*") -> Then(<<Call("parseImportNamespaceSpecifier"), Call("fromClause")>>)
       [] isIdentifierName(look) /\ ~matchKeyword("default") ->
            Skip(<<Call("afterDefaultImport"), Call("fromClause")>>)
       [] OTHER -> throw

afterDefaultImport ==
  /\ At("afterDefaultImport")
  /\ IF match(",") THEN Skip(<<Call("moreImports")>>) ELSE Then(<<>>)

moreImports ==
  /\ At("moreImports")
  /\ CASE match("*") -> Then(<<Call("parseImportNamespaceSpecifier")>>)
       [] match("{") -> Then(<<Call("parseNamedImports")>>)
       [] OTHER      -> throw

parseExportDeclaration ==
  /\ At("parseExportDeclaration")
  /\ IF ctx.inFunctionBody THEN throw ELSE Then(<<ExpectKeyword("export"), Call("exported")>>)

exported ==
  /\ At("exported")
  /\ CASE matchKeyword("default")          -> Skip(<<Call("exportDefault")>>)
       [] match("*")                       -> Skip(<<Call("fromClause")>>)
       [] matchKeywords({"let", "const"})  -> Then(<<Call("declarationStatement")>>)
       [] matchKeywords({"var", "class", "function"}) -> Then(<<Call("parseStatementListItem")>>)
       [] matchContextualKeyword("async")  -> Then(<<Peek("exportAsync")>>)
       [] look.k = "Identifier" /\ look.v # "async" -> Then(<<Call("exportSpecifiers")>>)
       [] look.k # "Identifier" /\ look.k # "Keyword" /\ ~match("*") -> Then(<<Call("exportBraces")>>)
       [] OTHER -> throw

exportDefault ==
  /\ At("exportDefault")
  /\ CASE matchKeyword("function") -> Then(<<Call("parseDefaultFunction"), Drop>>)
       [] matchKeyword("class")    -> Then(<<CallWith("parseClass", "optional"), Drop>>)
       [] matchContextualKeyword("async") -> Then(<<Peek("exportDefaultAsync")>>)
       [] matchContextualKeyword("from")  -> throwContent
       [] OTHER -> Then(<<Call(IF match("{") THEN "parseObjectInitializer"
                               ELSE IF match("[") THEN "parseArrayInitializer"
                               ELSE "parseAssignmentExpression"),
                          Drop, Call("consumeSemicolon")>>)

exportDefaultAsync ==
  /\ At("exportDefaultAsync")
  /\ Then(<<Call(IF IsAsyncFunction(arg) THEN "parseDefaultFunction" ELSE "parseAssignmentExpression"), Drop>>)

exportAsync ==
  /\ At("exportAsync")
  /\ Then(<<Call(IF IsAsyncFunction(arg) THEN "functionItem" ELSE "exportSpecifiers")>>)

\* A name before the braces, or in their place.
exportSpecifiers ==
  At("exportSpecifiers") /\ Skip(<<Call("afterDefaultExport")>>)

afterDefaultExport ==
  /\ At("afterDefaultExport")
  /\ IF match(",") THEN Skip(<<Call("exportBraces")>>) ELSE Then(<<CallWith("endExport", FALSE)>>)

exportBraces ==
  At("exportBraces") /\ Then(<<Expect("{"), CallWith("exportSpecifier", FALSE)>>)

\* arg: `default` is exported, which only an export from another module can do.
exportSpecifier ==
  /\ At("exportSpecifier")
  /\ IF match("}") THEN Skip(<<CallWith("endExport", arg)>>)
     ELSE Then(<<Call("parseIdentifierName"), Drop, Call("exportAs"), CallWith("commaUnless", "}"),
                 CallWith("exportSpecifier", arg \/ matchKeyword("default"))>>)

exportAs ==
  /\ At("exportAs")
  /\ IF matchContextualKeyword("as") THEN Skip(<<Call("parseIdentifierName"), Drop>>) ELSE Then(<<>>)

endExport ==
  /\ At("endExport")
  /\ Then(<<Call(IF matchContextualKeyword("from") \/ arg THEN "fromClause" ELSE "consumeSemicolon")>>)
-----------------------------------------------------------------------------
(* Scripts and modules *)

parseScript ==
  /\ At("parseScript")
  /\ Then(<<CallWith("parseDirectivePrologues", FALSE), Call("program")>>)

parseModule ==
  /\ At("parseModule")
  /\ Go([ctx EXCEPT !.strict = TRUE, !.isModule = TRUE], vals,
        <<CallWith("parseDirectivePrologues", FALSE), Call("program")>>)

program ==
  /\ At("program")
  /\ IF AtEnd
     THEN status' = "done" /\ todo' = <<>> /\ UNCHANGED <<src, scan, ctx, vals, names>>
     ELSE Then(<<Call("parseStatementListItem"), Call("program")>>)

\* The parser has returned, or raised.
Finished == status # "parsing" /\ UNCHANGED vars

ModuleStep ==
  \/ parseClass \/ parseClassExpression \/ className \/ heritage \/ classElement \/ elementKey
  \/ asyncElement \/ elementValue \/ endElement \/ parseModuleSpecifier \/ fromClause
  \/ parseNamedImports \/ namedImport \/ parseImportSpecifier \/ importAs
  \/ parseImportNamespaceSpecifier \/ namespaceAs \/ parseImportDeclaration \/ importClause
  \/ afterDefaultImport \/ moreImports \/ parseExportDeclaration \/ exported \/ exportDefault
  \/ exportDefaultAsync \/ exportAsync \/ exportSpecifiers \/ afterDefaultExport \/ exportBraces
  \/ exportSpecifier \/ exportAs \/ endExport \/ parseScript \/ parseModule \/ program

Next == MachineStep \/ ExpressionStep \/ StatementStep \/ ModuleStep \/ Finished

\* The parser runs in the thread that calls it, which nothing keeps from its next step.
Spec == Init /\ [][Next]_vars /\ WF_vars(Next)
-----------------------------------------------------------------------------
(* Properties *)

\* What a statement sets in the context it also puts back: when an item of a statement list
\* has been parsed, the flags are those it started with, save that allowYield may be lost (a
\* getter clears it before it is saved).  A flag that leaked would change how the rest of the
\* text is read.
ContextScoped ==
  At("endItem") =>
    /\ \A flag \in {"isModule", "allowAwait", "allowIn", "allowStrictDirective", "inFunctionBody",
                   "inIteration", "inSwitch", "labelSet", "strict"} : ctx[flag] = arg[flag]
    /\ ctx.allowYield => arg.allowYield

\* A break or continue finds exactly the labels of the labelled statements around it in the
\* same function: the label set follows the calls that are still to return.
FunctionReturns == {i \in DOMAIN todo : todo[i].f = "put" /\ "labelSet" \in DOMAIN todo[i].a}
LabelsInScope ==
  status = "parsing" =>
    ctx.labelSet = {todo[i].a : i \in {j \in DOMAIN todo :
                      todo[j].f = "removeLabel" /\ \A r \in FunctionReturns : j < r}}

\* A parser that is not tolerant never returns a function whose strict code has a parameter
\* named eval or arguments, a reserved word among several, or two of the same name: its names
\* were read before the directive that makes it strict.  (A lone parameter may be the token that
\* was looked ahead at behind the directive, which the lexer read as not strict.)
StrictNames(bound) ==
  /\ \A n \in DOMAIN bound : ~isRestrictedWord(bound[n])
  /\ \A n \in DOMAIN bound : isStrictModeReservedWord(bound[n]) => Len(bound) = 1
  /\ \A m, n \in DOMAIN bound : bound[m] = bound[n] => m = n
StrictNamesChecked ==
  \A i \in DOMAIN vals :
    vals[i].t = "Function" /\ vals[i].strict /\ ~src.tolerant => StrictNames(vals[i].bound)

\* That no parameter of strict code is a reserved word is what its message StrictReservedWord
\* says.  Not kept: validateParam looks for them only outside strict code, so that
\* `"use strict"; static => x` is parsed.
NoReservedParameter ==
  \A i \in DOMAIN vals :
    vals[i].t = "Function" /\ vals[i].strict /\ ~src.tolerant =>
      \A n \in DOMAIN vals[i].bound : ~isStrictModeReservedWord(vals[i].bound[n])

\* The operator stack builds the tree of the grammar: the left operand of a binary operator
\* binds at least as tightly as the operator, the right operand more tightly.
PrecedenceRespected ==
  \A i \in DOMAIN vals :
    vals[i].t = "BinaryExpression" /\ vals[i].p # 99 => vals[i].l >= vals[i].p /\ vals[i].r > vals[i].p

\* While the parser is in an expression of a template, the lexer knows it: it holds a `${`
\* for every template element still to come, so that the `}` which ends the expression is
\* scanned as a piece of the template.  (Unless errors are tolerated, when any token may be
\* skipped for a missing `)`, or a look further ahead scanned a brace or a template, which
\* the token itself then opened or closed again.)
OpenTemplates == Cardinality({i \in DOMAIN scan.curly : scan.curly[i] = "${"})
AwaitedElements == Cardinality({i \in DOMAIN todo : todo[i].f = "parseTemplateElement"})
TemplatesHeld ==
  status = "parsing" /\ ~src.tolerant /\ ~scan.twice =>
    AwaitedElements + (IF look.v = "quasi${" THEN 1 ELSE 0)
      <= OpenTemplates + (IF look.v = "}quasi" THEN 1 ELSE 0)

\* The other way round, that a parsed text leaves no template open, is what parseTemplateElement
\* looks for a template token for.  Not kept: it takes a template that only begins, so that
\* `x${a++`b` is parsed to its end.
TemplatesClosed ==
  status = "done" /\ ~src.tolerant /\ ~scan.twice =>
    \A i \in DOMAIN scan.curly : scan.curly[i] # "${"

\* Every parse returns or raises, of any text and also when errors are tolerated.
ParseEnds == <>(status # "parsing")

\* The comment of lex: 'Template literals start with ` for template head or } for template
\* middle or template tail', so a `}` is scanned as a piece of a template only inside one.
\* Not kept: in `{ async`${x}` }` the look past `async` opens the template a first time, and
\* the `}` of the block is scanned as what follows its expression.
InsideTemplate == \E i \in DOMAIN todo : todo[i].f = "parseTemplateElement"
PiecesBelong == status = "parsing" /\ look.v \in {"}quasi", "}quasi${"} => InsideTemplate

\* The assertion of parseTemplateHead: 'Template literal must start with a template head'.
\* Not kept: `a${}` runs into it.
TemplateStartsWithHead == status # "assertion error"
=============================================================================
