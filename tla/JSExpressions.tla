--------------------------- MODULE JSExpressions ---------------------------
(* The expression grammar of JSParser, from the primary expression to the   *)
(* comma operator, with the cover grammar of arrow parameters and patterns. *)
EXTENDS JSMachine, SequencesExt

Function(generator, strict, bound) ==
  [t |-> "Function", n |-> generator, k |-> <<>>, strict |-> strict, bound |-> bound]
\* Nodes refer to their parts by index, and index 0 reads as "there is none".  The first node
\* of the tree can only be one that adds no other; whether it comes first is left open.
MayComeFirst(e) ==
  /\ e.k = <<>>
  /\ \/ e.t \in {"Identifier", "Literal", "ThisExpression", "RegexLiteral", "ArrayExpression",
                 "ObjectExpression"}
     \/ e.t = "YieldExpression" /\ e.n = ""
Binary(op, p, l, r) == [t |-> "BinaryExpression", n |-> op, k |-> <<>>, p |-> p, l |-> l, r |-> r]
-----------------------------------------------------------------------------
(* Primary expressions *)

\* An import keyword takes the first branch, so that the call of matchImportCall in the last
\* one is never reached.
parsePrimaryExpression ==
  /\ At("parsePrimaryExpression")
  /\ \/ /\ look.k = "Identifier" \/ matchKeyword("import")
        /\ IF Intolerable((ctx.isModule \/ ctx.allowAwait) /\ look.v = "await") THEN throw
           ELSE IF matchContextualKeyword("async") THEN Then(<<Peek("asyncPrimary")>>)
           ELSE GoNext(ctx, <<Identifier(look.v)>> \o vals, <<>>)
     \/ /\ look.k \in {"NumericLiteral", "StringLiteral", "BooleanLiteral", "NullLiteral"}
        /\ IF Intolerable(ctx.strict /\ look.v \in {"octal num", "octal str"}) THEN throw
           ELSE GoNext(Plain, <<Node("Literal", look.v, <<>>)>> \o vals, <<>>)
     \/ look.k = "Template" /\ Then(<<Call("parseTemplateLiteral")>>)
     \/ /\ match("(")
        /\ Go([ctx EXCEPT !.isBindingElement = FALSE], vals, <<Inherit("parseGroupExpression")>>)
     \/ match("[") /\ Then(<<Inherit("parseArrayInitializer")>>)
     \/ match("{") /\ Then(<<Inherit("parseObjectInitializer")>>)
     \/ match("/") /\ GoNext(Plain, <<Leaf("RegexLiteral")>> \o vals, <<>>)
     \/ /\ \/ matchKeyword("yield") /\ ~ctx.strict /\ ctx.allowYield
           \/ matchKeyword("let") /\ ~ctx.strict
        /\ GoNext(ctx, <<Identifier(look.v)>> \o vals, <<>>)
     \/ /\ matchKeyword("function")
        /\ Go(Plain, vals, <<Call("parseFunctionExpression")>>)
     \/ matchKeyword("class") /\ Go(Plain, vals, <<Call("parseClassExpression")>>)
     \/ matchKeyword("this") /\ GoNext(Plain, <<Leaf("ThisExpression")>> \o vals, <<>>)
     \/ /\ \/ AtEnd
           \/ look.k = "Punctuator" /\ ~matchAny({"(", "[", "{", "/"})
           \/ look.k = "Keyword" /\ ~matchKeywords({"function", "class", "this", "import"})
              /\ ~(matchKeyword("yield") /\ ~ctx.strict /\ ctx.allowYield)
              /\ ~(matchKeyword("let") /\ ~ctx.strict)
        /\ throw

IsAsyncFunction(next) == next.line = look.line /\ next.k = "Keyword" /\ next.v = "function"

\* matchAsyncFunction after the look ahead.
asyncPrimary ==
  /\ At("asyncPrimary")
  /\ IF IsAsyncFunction(arg) THEN Then(<<Call("parseFunctionExpression")>>)
     ELSE GoNext(ctx, <<Identifier(look.v)>> \o vals, <<>>)

parseSpreadElement ==
  /\ At("parseSpreadElement")
  /\ Then(<<Expect("..."), Inherit("parseAssignmentExpression"), Build("SpreadElement", 1)>>)

parseArrayInitializer ==
  /\ At("parseArrayInitializer")
  /\ Give(Leaf("ArrayExpression"), <<Expect("["), Call("arrayElement")>>)

\* As if an element left out did not take its comma.
HoleKept == Then(<<Call("arrayElement")>>)
Hole == Skip(<<Call("arrayElement")>>)

arrayElement ==
  /\ At("arrayElement")
  /\ CASE match("]")   -> Skip(<<>>)
       [] match(",")   -> Hole
       [] match("...") -> Then(<<Call("parseSpreadElement"), AddChild, Call("afterSpread"),
                                 Call("arrayElement")>>)
       [] OTHER        -> Then(<<Inherit("parseAssignmentExpression"), AddChild,
                                 CallWith("commaUnless", "]"), Call("arrayElement")>>)

afterSpread ==
  /\ At("afterSpread")
  /\ IF match("]") THEN Then(<<>>) ELSE Go(Plain, vals, <<Expect(",")>>)

\* The template head is asserted: a middle or a tail in its place is an AssertionError.
parseTemplateLiteral ==
  /\ At("parseTemplateLiteral")
  /\ CASE ~TemplateHead -> Fail("assertion error")
       [] TemplateHead /\ look.v = "quasi" ->
            GoNext(ctx, <<Leaf("TemplateLiteral")>> \o vals, <<>>)
       [] OTHER         -> Skip(<<Call("parseExpression"), Drop, Call("parseTemplateElement")>>)

parseTemplateElement ==
  /\ At("parseTemplateElement")
  /\ CASE look.k # "Template" -> throw
       [] look.k = "Template" /\ look.v \in {"quasi", "}quasi"} ->
            GoNext(ctx, <<Leaf("TemplateLiteral")>> \o vals, <<>>)
       [] OTHER -> Skip(<<Call("parseExpression"), Drop, Call("parseTemplateElement")>>)
-----------------------------------------------------------------------------
(* Object literals *)

parsePropertyMethod ==
  /\ At("parsePropertyMethod")
  /\ Go([Plain EXCEPT !.allowStrictDirective = Top.simple], Under,
        <<Isolate("parseFunctionSourceElements"),
          CallWith("endFunction", [params |-> Top, generator |-> arg, kind |-> "method"]),
          Put([strict |-> ctx.strict, allowStrictDirective |-> ctx.allowStrictDirective])>>)

\* What a restricted name, or a repeated one, costs once the body has made the function strict.
\* The parameters of an arrow function are nodes, which the error message cannot describe.
endFunction ==
  /\ At("endFunction")
  /\ LET p == arg.params
         restricted == ctx.strict /\ p.firstRestricted
         bad == restricted \/ (ctx.strict /\ p.stricted)
     IN  IF bad /\ arg.kind = "arrow" THEN Fail("internal error")
         ELSE IF (restricted /\ arg.kind = "function") \/ Intolerable(bad) THEN throw
         ELSE Go(ctx, <<Function(arg.generator, ctx.strict, p.bound)>> \o Under, <<>>)

Method(yieldIn, yieldBody, await, generator, arity) ==
  Go([ctx EXCEPT !.allowYield = yieldIn, !.allowAwait = await], vals,
     <<CallWith("parseFormalParameters", FALSE), CallWith("checkArity", arity),
       Put([allowYield |-> yieldBody]), CallWith("parsePropertyMethod", generator),
       Put([allowYield |-> ctx.allowYield, allowAwait |-> ctx.allowAwait])>>)

parsePropertyMethodFunction ==
  At("parsePropertyMethodFunction") /\ Method(TRUE, TRUE, ctx.allowAwait, "", "any")
parsePropertyMethodAsyncFunction ==
  At("parsePropertyMethodAsyncFunction") /\ Method(FALSE, FALSE, TRUE, "", "any")
parseGetterMethod ==
  At("parseGetterMethod") /\ Method(TRUE, TRUE, ctx.allowAwait, "", "getter")
parseSetterMethod ==
  At("parseSetterMethod") /\ Method(TRUE, TRUE, ctx.allowAwait, "", "setter")
parseGeneratorMethod ==
  At("parseGeneratorMethod") /\ Method(TRUE, FALSE, ctx.allowAwait, "generator", "any")

\* BadGetterArity, BadSetterArity and BadSetterRestParameter.
checkArity ==
  /\ At("checkArity")
  /\ IF Intolerable(\/ arg = "getter" /\ Top.k # <<>>
                    \/ arg = "setter" /\ (Len(Top.k) # 1 \/ Top.k[1].t = "RestElement"))
     THEN throw ELSE Then(<<>>)

parseObjectPropertyKey ==
  /\ At("parseObjectPropertyKey")
  /\ CASE look.k \in {"StringLiteral", "NumericLiteral"} ->
            IF Intolerable(ctx.strict /\ look.v \in {"octal num", "octal str"}) THEN throw
            ELSE GoNext(ctx, <<Node("Literal", look.v, <<>>)>> \o vals, <<>>)
       [] isIdentifierName(look) -> GoNext(ctx, <<Identifier(look.v)>> \o vals, <<>>)
       [] match("[")             -> Skip(<<Isolate("parseAssignmentExpression"), Expect("]")>>)
       [] OTHER                  -> throw

isPropertyKey(key, v) == key.t \in {"Identifier", "Literal"} /\ key.n = v

\* A property is kept as its value, which is all that patterns look at.
parseObjectInitializer ==
  /\ At("parseObjectInitializer")
  /\ Give(Leaf("ObjectExpression"), <<Expect("{"), Call("objectProperty")>>)

objectProperty ==
  /\ At("objectProperty")
  /\ LET again == <<AddChild, Call("afterProperty"), Call("objectProperty")>>
     IN  CASE match("}")   -> Skip(<<>>)
           [] match("...") -> Then(<<Call("parseSpreadElement")>> \o again)
           [] OTHER        -> Then(<<Call("parseObjectProperty")>> \o again)

afterProperty ==
  /\ At("afterProperty")
  /\ Then(IF match("}") THEN <<>> ELSE <<Call("expectCommaSeparator")>>)

parseObjectProperty ==
  /\ At("parseObjectProperty")
  /\ LET rest(hasKey, computed) ==
           CallWith("propertyValue",
                    [token |-> look, async |-> FALSE, hasKey |-> hasKey, computed |-> computed])
     IN  CASE look.k = "Identifier" -> Skip(<<CallWith("identifierProperty", look)>>)
           [] match("*")            -> Skip(<<rest(FALSE, FALSE)>>)
           [] OTHER                 -> Then(<<Call("parseObjectPropertyKey"), rest(TRUE, match("["))>>)

identifierProperty ==
  /\ At("identifierProperty")
  /\ LET async == /\ ~hasLineTerminator /\ arg.v = "async"
                  /\ ~matchAny({":", "(", "*", ","})
         rest == CallWith("propertyValue",
                   [token |-> arg, async |-> async, hasKey |-> TRUE, computed |-> match("[")])
     IN  IF async THEN Then(<<Call("parseObjectPropertyKey"), rest>>)
         ELSE Give(Identifier(arg.v), <<rest>>)

IsAccessor(token, v) == token.k = "Identifier" /\ token.v = v /\ qualifiedPropertyName(look)
IsGenerator(token) == token.k = "Punctuator" /\ token.v = "*" /\ qualifiedPropertyName(look)

\* The value of a property whose key, if there is one yet, is the last node.  A getter clears
\* allowYield before parseGetterMethod saves it.
propertyValue ==
  /\ At("propertyValue")
  /\ LET a == arg
         below == IF a.hasKey THEN Under ELSE vals
         key == <<Call("parseObjectPropertyKey"), Drop>>
     IN  IF IsAccessor(a.token, "get") /\ ~a.async
         THEN Go(ctx, below, key \o <<Put([allowYield |-> FALSE]), Call("parseGetterMethod")>>)
         ELSE IF IsAccessor(a.token, "set") /\ ~a.async
         THEN Go(ctx, below, key \o <<Call("parseSetterMethod")>>)
         ELSE IF IsGenerator(a.token)
         THEN Go(ctx, below, key \o <<Call("parseGeneratorMethod")>>)
         ELSE IF ~a.hasKey THEN throw
         ELSE IF match(":") /\ ~a.async
         THEN LET proto == ~a.computed /\ isPropertyKey(Top, "__proto__")
              IN  IF Intolerable(proto /\ below[1].n = "proto") THEN throw
                  ELSE GoNext(ctx, IF proto THEN <<[below[1] EXCEPT !.n = "proto"]>> \o Tail(below)
                                   ELSE below,
                              <<Inherit("parseAssignmentExpression")>>)
         ELSE IF match("(")
         THEN Go(ctx, below, <<Call(IF a.async THEN "parsePropertyMethodAsyncFunction"
                                    ELSE "parsePropertyMethodFunction")>>)
         ELSE IF a.token.k # "Identifier" THEN throw
         ELSE IF match("=")
         THEN GoNext([ctx EXCEPT !.firstCoverInitializedNameError = TRUE],
                     <<Identifier(a.token.v)>> \o below,
                     <<Isolate("parseAssignmentExpression"), Build("AssignmentPattern", 2)>>)
         ELSE Go(ctx, <<Identifier(a.token.v)>> \o below, <<>>)
-----------------------------------------------------------------------------
(* Groups, and expressions that turn out to be patterns *)

\* A node and all below it; a tree is no deeper than the text is long.
Nodes(e) ==
  LET level[d \in 0 .. Len(src.lexemes)] ==
        IF d = 0 THEN {e} ELSE UNION {Range(n.k) : n \in level[d - 1]}
  IN  UNION Range(level)

\* reinterpretExpressionAsPattern
Reinterpret(e) ==
  LET pattern[n \in Nodes(e)] ==
        LET kids == [i \in DOMAIN n.k |-> pattern[n.k[i]]]
        IN  CASE n.t = "SpreadElement"    -> [n EXCEPT !.t = "RestElement", !.k = kids]
              [] n.t = "ArrayExpression"  -> [n EXCEPT !.t = "ArrayPattern", !.k = kids]
              [] n.t = "ObjectExpression" -> [n EXCEPT !.t = "ObjectPattern", !.k = kids]
              [] n.t = "AssignmentExpression" ->
                   [n EXCEPT !.t = "AssignmentPattern", !.k = <<kids[1], n.k[2]>>]
              [] OTHER -> n
  IN  pattern[e]

Reinterpreted(es) == [i \in DOMAIN es |-> Reinterpret(es[i])]
Placeholder(how, params) == Node("ArrowParameterPlaceHolder", how, params)
\* The parts of a node that the parser later treats as one: parentheses hide an operator.
Parenthesized(e) == IF e.t = "BinaryExpression" THEN Binary(e.n, 99, 99, 99) ELSE e

parseGroupExpression ==
  /\ At("parseGroupExpression")
  /\ Then(<<Expect("("), Call("groupFirst")>>)

groupFirst ==
  /\ At("groupFirst")
  /\ CASE match(")")   -> Skip(<<CallWith("arrowAhead", Placeholder("", <<>>))>>)
       [] match("...") -> Then(<<Call("openNames"), Call("parseRestElement"), Call("dropNames"),
                                 Expect(")"), Call("restArrow")>>)
       [] OTHER        -> Go([ctx EXCEPT !.isBindingElement = TRUE], vals,
                             <<Inherit("parseAssignmentExpression"), Call("groupNext")>>)

\* `if not self.match('=>'): self.expect('=>')`
arrowAhead ==
  /\ At("arrowAhead")
  /\ IF match("=>") THEN Give(arg, <<>>) ELSE throw

restArrow ==
  /\ At("restArrow")
  /\ Go(ctx, Under, <<CallWith("arrowAhead", Placeholder("", <<Top>>))>>)

groupNext ==
  /\ At("groupNext")
  /\ IF match(",")
     THEN Go([ctx EXCEPT !.isAssignmentTarget = FALSE],
             <<Node("SequenceExpression", "", <<Top>>)>> \o Under, <<Call("groupMore")>>)
     ELSE Then(<<Expect(")"), Call("groupClosed")>>)

groupMore ==
  /\ At("groupMore")
  /\ IF match(",") THEN Skip(<<Call("groupItem")>>)
     ELSE Then(<<Expect(")"), Call("groupClosed")>>)

groupItem ==
  /\ At("groupItem")
  /\ CASE match(")") -> GoNext(ctx, <<Placeholder("trailing comma", Reinterpreted(Top.k))>> \o Under, <<>>)
       [] match("...") ->
            IF ~ctx.isBindingElement THEN throw
            ELSE Then(<<Call("openNames"), Call("parseRestElement"), Call("dropNames"), AddChild,
                        Expect(")"), Call("groupRestArrow")>>)
       [] OTHER -> Then(<<Inherit("parseAssignmentExpression"), AddChild, Call("groupMore")>>)

groupRestArrow ==
  /\ At("groupRestArrow")
  /\ Go([ctx EXCEPT !.isBindingElement = FALSE], Under,
        <<CallWith("arrowAhead", Placeholder("", Reinterpreted(Top.k)))>>)

groupClosed ==
  /\ At("groupClosed")
  /\ LET plain == [ctx EXCEPT !.isBindingElement = FALSE]
         yields == Top.t = "Identifier" /\ Top.n = "yield"
         params == IF Top.t = "SequenceExpression" THEN Reinterpreted(Top.k)
                   ELSE <<Reinterpret(Top)>>
     IN  CASE ~match("=>") -> Go(plain, <<Parenthesized(Top)>> \o Under, <<>>)
           [] match("=>") /\ yields -> Go(plain, <<Placeholder("", <<Top>>)>> \o Under, <<>>)
           [] match("=>") /\ ~yields /\ ~ctx.isBindingElement -> throw
           [] OTHER -> Go(plain, <<Placeholder("", params)>> \o Under, <<>>)
-----------------------------------------------------------------------------
(* Calls, members and operators *)

parseArguments ==
  /\ At("parseArguments")
  /\ Give(Leaf("Arguments"), <<Expect("("), CallWith("firstArgument", arg)>>)

firstArgument ==
  /\ At("firstArgument")
  /\ IF match(")") THEN Skip(<<>>) ELSE Then(<<CallWith("argument", arg)>>)

argument ==
  /\ At("argument")
  /\ Then(<<IF match("...") THEN Call("parseSpreadElement") ELSE Isolate(arg), AddChild,
            CallWith("afterArgument", arg)>>)

afterArgument ==
  /\ At("afterArgument")
  /\ IF match(")") THEN Skip(<<>>)
     ELSE Then(<<Call("expectCommaSeparator"), CallWith("nextArgument", arg)>>)

nextArgument ==
  /\ At("nextArgument")
  /\ IF match(")") THEN Skip(<<>>) ELSE Then(<<CallWith("argument", arg)>>)

parseAsyncArgument ==
  /\ At("parseAsyncArgument")
  /\ Then(<<Call("parseAssignmentExpression"), Put([firstCoverInitializedNameError |-> FALSE])>>)

parseIdentifierName ==
  /\ At("parseIdentifierName")
  /\ IF isIdentifierName(look) THEN GoNext(ctx, <<Identifier(look.v)>> \o vals, <<>>) ELSE throw

parseNewExpression ==
  /\ At("parseNewExpression")
  /\ Skip(<<Call("newCallee")>>)

newCallee ==
  /\ At("newCallee")
  /\ CASE match(".")             -> Skip(<<Call("newTarget")>>)
       [] matchKeyword("import") -> throw
       [] OTHER -> Then(<<Isolate("parseLeftHandSideExpression"), Drop, Call("newArguments"),
                          Put([isAssignmentTarget |-> FALSE, isBindingElement |-> FALSE])>>)

newTarget ==
  /\ At("newTarget")
  /\ IF matchContextualKeyword("target") /\ ctx.inFunctionBody
     THEN GoNext(ctx, <<Leaf("MetaProperty")>> \o vals, <<>>) ELSE throw

newArguments ==
  /\ At("newArguments")
  /\ IF match("(")
     THEN Then(<<CallWith("parseArguments", "parseAssignmentExpression"), Drop,
                 Build("NewExpression", 0)>>)
     ELSE Give(Leaf("NewExpression"), <<>>)

HeadExpression == Inherit(IF matchKeyword("new") THEN "parseNewExpression" ELSE "parsePrimaryExpression")

parseLeftHandSideExpressionAllowCall ==
  /\ At("parseLeftHandSideExpressionAllowCall")
  /\ LET c == [ctx EXCEPT !.allowIn = TRUE]
         tail == <<CallWith("memberOrCall", [calls |-> TRUE, start |-> look]),
                   Put([allowIn |-> ctx.allowIn])>>
     IN  IF matchKeyword("super") /\ ctx.inFunctionBody
         THEN GoNext(c, <<Leaf("Super")>> \o vals, <<CallWith("superMember", {"(", ".", "["})>> \o tail)
         ELSE Go(c, vals, <<HeadExpression>> \o tail)

\* super must be followed by a member, or by a call.
superMember ==
  /\ At("superMember")
  /\ IF matchAny(arg) THEN Then(<<>>) ELSE throw

parseLeftHandSideExpression ==
  /\ At("parseLeftHandSideExpression")
  /\ LET tail == CallWith("memberOrCall", [calls |-> FALSE, start |-> look])
     IN  CASE ~ctx.allowIn -> Fail("assertion error")
           [] ctx.allowIn /\ matchKeyword("super") /\ ctx.inFunctionBody ->
                GoNext(ctx, <<Leaf("Super")>> \o vals, <<CallWith("superMember", {".", "["}), tail>>)
           [] OTHER -> Then(<<HeadExpression, tail>>)

\* The loop of parseLeftHandSideExpressionAllowCall and, without calls, of the other.
memberOrCall ==
  /\ At("memberOrCall")
  /\ LET again == CallWith("memberOrCall", arg)
         async == /\ arg.start.k = "Identifier" /\ arg.start.v = "async"
                  /\ arg.start.line = look.line
     IN  CASE matchAny({".", "?."}) ->
                GoNext(Assignable(ctx, TRUE), vals,
                       <<Call("parseIdentifierName"), Build("MemberExpression", 2), again>>)
           [] match("[") ->
                GoNext(Assignable(ctx, TRUE), vals,
                       <<Isolate("parseExpression"), Expect("]"), Build("MemberExpression", 2), again>>)
           [] arg.calls /\ match("(") ->
                Go(Plain, vals,
                   <<CallWith("parseArguments", IF async THEN "parseAsyncArgument"
                                                ELSE "parseAssignmentExpression"),
                     CallWith("endCall", async), again>>)
           [] TemplateHead ->
                Then(<<Call("parseTemplateLiteral"), Build("TaggedTemplateExpression", 2), again>>)
           [] OTHER -> Then(<<>>)

endCall ==
  /\ At("endCall")
  /\ Go(ctx, <<IF arg /\ match("=>") THEN Placeholder("async", Reinterpreted(Top.k))
               ELSE Leaf("CallExpression")>> \o Tail(Under), <<>>)

UpdatesRestricted(e, c) == (c.strict /\ IsRestricted(e)) \/ ~c.isAssignmentTarget

parseUpdateExpression ==
  /\ At("parseUpdateExpression")
  /\ IF match("++") THEN Skip(<<Inherit("parseUnaryExpression"), Call("prefixUpdate")>>)
     ELSE Then(<<Inherit("parseLeftHandSideExpressionAllowCall"), Call("postfixUpdate")>>)

prefixUpdate ==
  /\ At("prefixUpdate")
  /\ IF Intolerable(UpdatesRestricted(Top, ctx)) THEN throw
     ELSE Go(Plain, <<Leaf("UpdateExpression")>> \o Under, <<>>)

postfixUpdate ==
  /\ At("postfixUpdate")
  /\ IF hasLineTerminator \/ ~match("++") THEN Then(<<>>)
     ELSE IF Intolerable(UpdatesRestricted(Top, ctx)) THEN throw
     ELSE GoNext(Plain, <<Leaf("UpdateExpression")>> \o Under, <<>>)

parseUnaryExpression ==
  /\ At("parseUnaryExpression")
  /\ CASE matchAny({"+", "-", "!"}) \/ matchKeyword("delete") ->
            Skip(<<Inherit("parseUnaryExpression"), CallWith("endUnary", look.v)>>)
       [] ctx.allowAwait /\ matchContextualKeyword("await") ->
            Skip(<<Call("parseUnaryExpression"), Build("AwaitExpression", 1)>>)
       [] OTHER -> Then(<<Call("parseUpdateExpression")>>)

endUnary ==
  /\ At("endUnary")
  /\ IF Intolerable(ctx.strict /\ arg = "delete" /\ Top.t = "Identifier") THEN throw
     ELSE Go(Plain, <<Leaf("UnaryExpression")>> \o Under, <<>>)

parseExponentiationExpression ==
  /\ At("parseExponentiationExpression")
  /\ Then(<<Inherit("parseUnaryExpression"), Call("power")>>)

power ==
  /\ At("power")
  /\ IF Top.t # "UnaryExpression" /\ match("**")
     THEN GoNext(Plain, vals, <<Isolate("parseExponentiationExpression"), Call("endPower")>>)
     ELSE Then(<<>>)

endPower ==
  /\ At("endPower")
  /\ Go(ctx, <<Binary("**", 99, 99, 99)>> \o Tail(Under), <<>>)

operatorPrecedence(op) ==
  CASE op = "||" -> 1 [] op = "&&" -> 2 [] op = "<" -> 7 [] op = "+" -> 9 [] op = "-" -> 9
    [] op \in {"*", "/"} -> 11 [] OTHER -> 0

binaryPrecedence(token) ==
  CASE token.k = "Punctuator" -> operatorPrecedence(token.v)
    [] token.k = "Keyword" /\ token.v = "in" /\ ctx.allowIn -> 7
    [] OTHER -> 0

parseBinaryExpression ==
  /\ At("parseBinaryExpression")
  /\ Then(<<Inherit("parseExponentiationExpression"), Call("firstOperator")>>)

firstOperator ==
  /\ At("firstOperator")
  /\ IF binaryPrecedence(look) = 0 THEN Then(<<>>)
     ELSE GoNext(Plain, vals,
                 <<Isolate("parseExponentiationExpression"),
                   CallWith("nextOperator", <<[op |-> look.v, p |-> binaryPrecedence(look)]>>)>>)

PrecedenceOf(e) == IF e.t = "BinaryExpression" THEN e.p ELSE 99

\* As if operators of the same precedence grouped to the right.
ReducesTighter(p, top) == p < top
Reduces(p, top) == p <= top

\* The stack of operators, the last one first; its operands are the last nodes.
nextOperator ==
  /\ At("nextOperator")
  /\ LET p == binaryPrecedence(look)
         top == IF arg = <<>> THEN 0 ELSE arg[1].p
     IN  \/ /\ arg # <<>> /\ Reduces(p, top)
            /\ Go(ctx, <<Binary(arg[1].op, arg[1].p, PrecedenceOf(vals[2]), PrecedenceOf(Top))>>
                       \o Tail(Under),
                  <<CallWith("nextOperator", Tail(arg))>>)
         \/ /\ p > 0 /\ (arg = <<>> \/ ~Reduces(p, top))
            /\ Skip(<<Isolate("parseExponentiationExpression"),
                      CallWith("nextOperator", <<[op |-> look.v, p |-> p]>> \o arg)>>)
         \/ p = 0 /\ arg = <<>> /\ Then(<<>>)

parseConditionalExpression ==
  /\ At("parseConditionalExpression")
  /\ Then(<<Inherit("parseBinaryExpression"), Call("conditional")>>)

conditional ==
  /\ At("conditional")
  /\ IF match("?")
     THEN GoNext([ctx EXCEPT !.allowIn = TRUE], vals,
                 <<Isolate("parseAssignmentExpression"), Put([allowIn |-> ctx.allowIn]),
                   Expect(":"), Isolate("parseAssignmentExpression"),
                   Build("ConditionalExpression", 3),
                   Put([isAssignmentTarget |-> FALSE, isBindingElement |-> FALSE])>>)
     ELSE Then(<<>>)
-----------------------------------------------------------------------------
(* Parameters, arrow functions and assignments *)

NoParams == [t |-> "Params", n |-> "", k |-> <<>>, simple |-> TRUE, message |-> "",
             stricted |-> FALSE, firstRestricted |-> FALSE, bound |-> <<>>]

\* As if names were only compared in code that is strict already.
validateParamLate(o, name) ==
  LET repeated == \E i \in DOMAIN o.bound : o.bound[i] = name
  IN  [o EXCEPT !.bound = Append(@, name), !.stricted = @ \/ (ctx.strict /\ repeated),
                !.firstRestricted = @ \/ (~ctx.strict /\ isRestrictedWord(name))]

validateParam(o, name) ==
  LET repeated == \E i \in DOMAIN o.bound : o.bound[i] = name
      checked ==
        IF ctx.strict
        THEN IF repeated THEN [o EXCEPT !.stricted = TRUE, !.message = "StrictParamDupe"]
             ELSE IF isRestrictedWord(name)
             THEN [o EXCEPT !.stricted = TRUE, !.message = "StrictParamName"]
             ELSE o
        ELSE IF o.firstRestricted THEN o
             ELSE IF isRestrictedWord(name)
             THEN [o EXCEPT !.firstRestricted = TRUE, !.message = "StrictParamName"]
             ELSE IF isStrictModeReservedWord(name)
             THEN [o EXCEPT !.firstRestricted = TRUE, !.message = "StrictReservedWord"]
             ELSE IF repeated THEN [o EXCEPT !.stricted = TRUE, !.message = "StrictParamDupe"]
             ELSE o
  IN  [checked EXCEPT !.bound = Append(@, name)]

validateParams(o, ns) == FoldLeft(validateParam, o, ns)

\* The names that checkPatternParam comes to, in its order.
Names(param) ==
  LET bound[p \in Nodes(param)] ==
        CASE p.t = "Identifier" -> <<p.n>>
          [] p.t \in {"RestElement", "AssignmentPattern"} -> bound[p.k[1]]
          [] p.t \in {"ArrayPattern", "ObjectPattern"} ->
               FlattenSeq([i \in DOMAIN p.k |-> bound[p.k[i]]])
          [] OTHER -> <<>>
  IN  bound[param]
checkPatternParam(o, param) ==
  [validateParams(o, Names(param)) EXCEPT !.simple = @ /\ param.t = "Identifier"]

IsPlaceholder(e) == e.t = "ArrowParameterPlaceHolder"
IsAsyncArrow(e) == IsPlaceholder(e) /\ e.n = "async"

\* reinterpretAsCoverFormalsList: the names the parameters bind, or why they cannot.
CoverFormals(e) ==
  LET params == IF e.t = "Identifier" THEN <<e>> ELSE e.k
      yieldsValue(p) == p.t = "AssignmentPattern" /\ p.k[2].t = "YieldExpression" /\ p.k[2].n = "argument"
      awaits(p) == IsAsyncArrow(e) /\ p.t = "Identifier" /\ p.n = "await"
      o == FoldLeft(checkPatternParam, NoParams, params)
  IN  [bad |-> \/ \E i \in DOMAIN params : yieldsValue(params[i]) \/ awaits(params[i])
               \/ /\ ctx.strict \/ ~ctx.allowYield
                  /\ \E i \in DOMAIN params : params[i].t = "YieldExpression"
               \/ o.message = "StrictParamDupe" /\ ~ctx.strict,
       unspeakable |-> o.message = "StrictParamDupe" /\ ctx.strict,
       params |-> o]

parseAssignmentExpression ==
  /\ At("parseAssignmentExpression")
  /\ IF ~ctx.allowYield /\ matchKeyword("yield") THEN Then(<<Call("parseYieldExpression")>>)
     ELSE Then(<<Call("parseConditionalExpression"), CallWith("asyncArrow", look)>>)

\* `async x => ...`: the parameter stands where an operator would.
asyncArrow ==
  /\ At("asyncArrow")
  /\ IF /\ arg.k = "Identifier" /\ arg.v = "async" /\ arg.line = look.line
        /\ look.k = "Identifier" \/ matchKeyword("yield")
     THEN Then(<<Call("parsePrimaryExpression"), Call("asyncParameter"), CallWith("assignment", arg)>>)
     ELSE Then(<<CallWith("assignment", arg)>>)

asyncParameter ==
  /\ At("asyncParameter")
  /\ Go(ctx, <<Placeholder("async", <<Reinterpret(Top)>>)>> \o Tail(Under), <<>>)

assignment ==
  /\ At("assignment")
  /\ \/ /\ IsPlaceholder(Top) \/ (match("=>") /\ Top.t = "Identifier")
        /\ LET list == CoverFormals(Top)
           IN  IF ~list.bad /\ list.unspeakable THEN Fail("internal error")
               ELSE IF list.bad \/ Intolerable(hasLineTerminator) \/ ~match("=>") THEN throw
               ELSE GoNext([Plain EXCEPT !.firstCoverInitializedNameError = FALSE,
                              !.allowStrictDirective = list.params.simple,
                              !.allowYield = TRUE, !.allowAwait = IsAsyncArrow(Top)],
                           Under,
                           <<CallWith("arrowBody", list.params),
                             Put([strict |-> ctx.strict, allowYield |-> ctx.allowYield,
                                  allowStrictDirective |-> ctx.allowStrictDirective,
                                  allowAwait |-> ctx.allowAwait])>>)
     \/ /\ match("=>") /\ ~IsPlaceholder(Top) /\ Top.t # "Identifier"
        /\ Go(Plain, vals, <<>>)
     \/ /\ matchAssign /\ ~IsPlaceholder(Top)
        /\ IF Intolerable(\/ ~ctx.isAssignmentTarget
                          \/ ctx.strict /\ Top.t = "Identifier"
                             /\ (isRestrictedWord(Top.n) \/ isStrictModeReservedWord(Top.n)))
           THEN throw
           ELSE GoNext(IF match("=") THEN ctx ELSE Plain,
                       IF match("=") THEN <<Reinterpret(Top)>> \o Under ELSE vals,
                       <<Isolate("parseAssignmentExpression"), Build("AssignmentExpression", 2),
                         Put([firstCoverInitializedNameError |-> FALSE])>>)
     \/ ~match("=>") /\ ~matchAssign /\ ~IsPlaceholder(Top) /\ Then(<<>>)

arrowBody ==
  /\ At("arrowBody")
  /\ LET end == CallWith("endFunction", [params |-> arg, generator |-> "", kind |-> "arrow"])
     IN  IF match("{")
         THEN Go([ctx EXCEPT !.allowIn = TRUE], vals,
                 <<Call("parseFunctionSourceElements"), Put([allowIn |-> ctx.allowIn]), end>>)
         ELSE Then(<<Isolate("parseAssignmentExpression"), end>>)

\* isStartOfExpression
StartsExpression ==
  CASE look.k = "Punctuator" -> look.v \in {"[", "(", "{", "+", "-", "!", "++", "/"}
    [] look.k = "Keyword" -> look.v \in {"class", "delete", "function", "let", "new", "super",
                                         "this", "yield"}
    [] OTHER -> TRUE

parseYieldExpression ==
  /\ At("parseYieldExpression")
  /\ Skip(<<Call("yieldArgument")>>)

yieldArgument ==
  /\ At("yieldArgument")
  /\ LET value == <<Call("parseAssignmentExpression"), Put([allowYield |-> ctx.allowYield]),
                    Call("endYield")>>
         c == [ctx EXCEPT !.allowYield = FALSE]
     IN  CASE ~hasLineTerminator /\ match("*")      -> GoNext(c, vals, value)
           [] ~hasLineTerminator /\ ~match("*") /\ StartsExpression -> Go(c, vals, value)
           [] OTHER -> Give(Leaf("YieldExpression"), <<>>)

endYield ==
  /\ At("endYield")
  /\ \E n \in {"argument"} \cup (IF MayComeFirst(Top) THEN {""} ELSE {}) :
       Go(ctx, <<Node("YieldExpression", n, <<>>)>> \o Under, <<>>)

parseExpression ==
  /\ At("parseExpression")
  /\ Then(<<Isolate("parseAssignmentExpression"), Call("comma")>>)

comma ==
  /\ At("comma")
  /\ IF match(",")
     THEN Skip(<<Isolate("parseAssignmentExpression"), Build("SequenceExpression", 2), Call("comma")>>)
     ELSE Then(<<>>)

ExpressionStep ==
  \/ parsePrimaryExpression \/ asyncPrimary \/ parseSpreadElement \/ parseArrayInitializer
  \/ arrayElement \/ afterSpread \/ parseTemplateLiteral \/ parseTemplateElement
  \/ parsePropertyMethod \/ endFunction \/ parsePropertyMethodFunction
  \/ parsePropertyMethodAsyncFunction \/ parseGetterMethod \/ parseSetterMethod
  \/ parseGeneratorMethod \/ checkArity \/ parseObjectPropertyKey \/ parseObjectInitializer
  \/ objectProperty \/ afterProperty \/ parseObjectProperty \/ identifierProperty \/ propertyValue
  \/ parseGroupExpression \/ groupFirst \/ arrowAhead \/ restArrow \/ groupNext \/ groupMore
  \/ groupItem \/ groupRestArrow \/ groupClosed \/ parseArguments \/ firstArgument \/ argument
  \/ afterArgument \/ nextArgument \/ parseAsyncArgument \/ parseIdentifierName
  \/ parseNewExpression \/ newCallee \/ newTarget \/ newArguments
  \/ parseLeftHandSideExpressionAllowCall \/ superMember \/ parseLeftHandSideExpression
  \/ memberOrCall \/ endCall \/ parseUpdateExpression \/ prefixUpdate \/ postfixUpdate
  \/ parseUnaryExpression \/ endUnary \/ parseExponentiationExpression \/ power \/ endPower
  \/ parseBinaryExpression \/ firstOperator \/ nextOperator \/ parseConditionalExpression
  \/ conditional \/ parseAssignmentExpression \/ asyncArrow \/ asyncParameter \/ assignment
  \/ arrowBody \/ parseYieldExpression \/ yieldArgument \/ endYield \/ parseExpression \/ comma
=============================================================================
