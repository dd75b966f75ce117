----------------------------- MODULE MCJSParser -----------------------------
(* The JavaScript parser on templates of texts: each position may hold the  *)
(* lexeme shown or one of its alternatives, and the text may end anywhere.  *)
EXTENDS JSParser

Or(i, X) == i :> X
Text(words, alternatives, breaks, modes) ==
  {[lexemes  |-> [i \in DOMAIN words |-> {words[i]} \cup IF i \in DOMAIN alternatives
                                                         THEN alternatives[i] ELSE {}],
    breaks |-> breaks, module |-> m[1], tolerant |-> m[2]] : m \in modes}

Script == {<<FALSE, FALSE>>}
Scripts == {<<FALSE, FALSE>>, <<FALSE, TRUE>>}
Module == {<<TRUE, FALSE>>}
All == {<<FALSE, FALSE>>, <<FALSE, TRUE>>, <<TRUE, FALSE>>}
None == [i \in {} |-> {}]

Expressions ==
  Text(<<"x", "+", "y", "*", "z", "<", "x">>,
       Or(2, {"**", "=", "?", "in"}) @@ Or(4, {"-", "||", ":", "+="}) @@ Or(6, {"&&", "**"}), {}, Scripts)
  \cup Text(<<"(", "x", ",", "[", "y", ",", "...", "z", "]", ")", "=>", "x">>,
            Or(2, {"eval", "(", "{"}) @@ Or(4, {"x", ")", "..."}) @@ Or(11, {"+", "="}), {11}, Script)
  \cup Text(<<"(", "x", ",", "...", "y", ")", "=>", "{", "}">>,
            Or(2, {"...", "num"}) @@ Or(3, {"y"}) @@ Or(4, {")"}) @@ Or(6, {"=>", "="}) @@ Or(7, {"x", "+"}), {}, All)
  \cup Text(<<"(", "{", "x", "=", "num", "}", ")", "=>", "{", "use strict", "}">>,
            Or(2, {"...", "yield"}) @@ Or(4, {":", ","}) @@ Or(6, {"x"}) @@ Or(9, {"x", "("}), {}, Scripts)
  \cup Text(<<"(", "x", ",", "y", ")", "=>", "{", "use strict", ";", "octal num", "}">>,
            Or(2, {"eval"}) @@ Or(4, {"x", ")"}) @@ Or(6, {"+"}), {}, Scripts)
  \cup Text(<<"async", "(", "x", ",", "...", "y", ")", "=>", "await", "x">>,
            Or(2, {"x", "function"}) @@ Or(3, {"await", ")"}) @@ Or(4, {")", "=>"}) @@ Or(8, {";"}), {2}, Script)
  \cup Text(<<"x", "=", "{", "get", "y", "(", ")", "{", "}", ",", "set", "[", "z", "]", "(", "z", ")", "{",
              "}", ",", "*", "z", "(", ")", "{", "yield", "*", "x", "}", "}">>,
            Or(4, {"async", "str"}) @@ Or(5, {":", ","}) @@ Or(10, {";"}) @@ Or(16, {")", "..."}), {}, Scripts)
  \cup Text(<<"x", "=", "{", "__proto__", ":", "x", ",", "async", "y", "(", "x", ")", "{", "}", ",", "...", "y", "}">>,
            Or(8, {"__proto__", "octal str"}) @@ Or(9, {":", "=", "("}), {}, Scripts)
  \cup Text(<<"new", "x", ".", "y", "(", "...", "z", ",", "w", ")", "[", "x", "]", "?.", "z", "++">>,
            Or(2, {".", "import", "new", "super"}) @@ Or(3, {"(", ";"}) @@ Or(8, {")", ";"}), {}, Scripts)
  \cup Text(<<"-", "this", "**", "/", ";", "!", "null", ";", "[", ",", "x", "]", "=", "++", "y">>,
            Or(1, {"++", "delete"}) @@ Or(2, {"x"}) @@ Or(3, {"/", ";"}) @@ Or(15, {"eval", "num"}), {}, Script)

Templates ==
  Text(<<"quasi${", "x", "}", "y", "}">>, Or(1, {"quasi", "x"}) @@ Or(2, {"{", "quasi${"}) @@ Or(4, {"}"}), {}, Script)
  \cup Text(<<"x", "quasi${", "function", "(", ")", "{", "let", "{", "x", "}", "=", "y", ";", "}", "}", "{", "}">>,
            Or(7, {"var"}) @@ Or(8, {"y"}) @@ Or(9, {"}", ";"}), {}, Script)
  \cup Text(<<"{", "async", "quasi${", "x", "}", "}", "x">>,
            Or(2, {"let", "x"}) @@ Or(3, {"{", "quasi"}) @@ Or(6, {";"}), {}, Script)
  \cup Text(<<"quasi${", "x", "++", "quasi${", "y", "}", "+", "z", "}", "quasi", "}">>,
            Or(2, {"quasi"}) @@ Or(3, {"quasi${", "+"}) @@ Or(4, {"quasi"}) @@ Or(6, {"++", "{"})
            @@ Or(8, {"quasi${", "}"}), {}, Scripts)

Functions ==
  Text(<<"function", "x", "(", "y", ",", "z", ")", "{", "use strict", "}">>,
       Or(2, {"*", "eval", "static", "yield"}) @@ Or(4, {"eval", "let", "...", "{"})
       @@ Or(5, {"}", ")", "="}) @@ Or(6, {"y", ")", "{"}), {}, Scripts)
  \cup Text(<<"function", "*", "x", "(", ")", "{", "(", "x", "=", "yield", "*", "y", ")", "=>", "z", "}">>,
            Or(2, {"x"}) @@ Or(8, {"yield"}) @@ Or(11, {")", ";", "y"}) @@ Or(12, {")"}), {11}, Script)
  \cup Text(<<"use strict", ";", "x", "=", "function", "y", "(", "z", ")", "{", "new", ".", "target", ";", "super",
              ".", "y", ";", "return", "z", "}", ";", "delete", "z", "}">>,
            Or(3, {"eval", "static"}) @@ Or(4, {"=>"}) @@ Or(6, {"yield", "eval", "("}) @@ Or(8, {"eval", "y", ")"}), {20}, Scripts)
  \cup Text(<<"async", "function", "x", "(", "{", "y", "=", "z", "}", ")", "{", "await", "x", "}", "await">>,
            Or(1, {"x"}) @@ Or(7, {":", ","}) @@ Or(9, {"..."}) @@ Or(12, {"return", "async"}), {2}, Scripts)

Statements ==
  Text(<<"for", "(", "var", "x", "=", "num", "in", "y", ")", "x", ";">>,
       Or(3, {"let", "const", ";"}) @@ Or(4, {"in", "["}) @@ Or(5, {"of", "in", ";", ","})
       @@ Or(6, {"-", ";", "y"}) @@ Or(7, {")", "of", ";"}), {}, Scripts)
  \cup Text(<<"for", "(", "x", "of", "y", ")", "{", "break", ";", "continue", "}">>,
            Or(3, {"num", "["}) @@ Or(4, {"in", "=", "]"}) @@ Or(8, {"y"}), {9}, Scripts)
  \cup Text(<<"x", ":", "while", "(", "y", ")", "{", "z", ":", "continue", "x", ";", "function", "z", "(", ")", "{",
              "x", ":", "break", "x", "}", "break", "z", "}">>,
            Or(3, {"if", "with"}) @@ Or(6, {";"}) @@ Or(8, {"x"}) @@ Or(13, {"class"}) @@ Or(21, {"z", ";"}), {}, Scripts)
  \cup Text(<<"x", ":", "function", "*", "y", "(", ")", "{", "}">>, Or(3, {"class"}) @@ Or(4, {"y", "("}), {}, Scripts)
  \cup Text(<<"do", "x", ";", "while", "(", "y", ")", ";", "if", "(", "x", ")", "function", "y", "(", ")", "{", "}",
              "else", ";", "debugger">>,
            Or(7, {";"}) @@ Or(12, {"y"}) @@ Or(13, {"throw", "{"}), {14}, Scripts)
  \cup Text(<<"switch", "(", "x", ")", "{", "case", "y", ":", "break", ";", "default", ":", "z", "}">>,
            Or(6, {"default"}) @@ Or(7, {":"}) @@ Or(9, {"continue"}) @@ Or(11, {"case"}), {}, Script)
  \cup Text(<<"try", "{", "x", "}", "catch", "(", "{", "y", ",", "y", "}", ")", "{", "}", "finally", "{", "}">>,
            Or(5, {"finally"}) @@ Or(6, {"{"}) @@ Or(7, {"x", ")", "["}) @@ Or(10, {"z", "..."}), {}, Script)
  \cup Text(<<"let", "[", "x", ",", "{", "y", ":", "z", "}", "=", "x", "]", "=", "num", ",", "y">>,
            Or(1, {"const", "var"}) @@ Or(2, {"let", "{"}) @@ Or(4, {"]", "="}) @@ Or(5, {"...", ","}) @@ Or(12, {"}"}), {}, Scripts)
  \cup Text(<<"return", "x", "+", "y", "}", "throw", "x">>, Or(1, {"throw", "{"}) @@ Or(2, {"var", "let"}) @@ Or(3, {"=", ";"}), {2}, Scripts)

Classes ==
  Text(<<"class", "x", "extends", "y", "{", "constructor", "(", ")", "{", "super", "(", "x", ")", "}", "static",
         "async", "z", "(", ")", "{", "}", ";", "get", "constructor", "(", ")", "{", "}", "}">>,
       Or(2, {"{"}) @@ Or(6, {"prototype", "str"}) @@ Or(15, {"async", "*"}) @@ Or(16, {"get", "*", "prototype"})
       @@ Or(17, {"=", "("}) @@ Or(23, {"set", "*", "constructor"}), {}, Script)
  \cup Text(<<"x", "=", "class", "y", "{", "static", "=", "x", ";", "async", "[", "y", "]", "(", ")", "{", "}",
              "z", "=", "{", "x", "=", "y", "}", "}">>,
            Or(4, {"{"}) @@ Or(6, {"x", "[", "*"}) @@ Or(7, {";", "(", "x"}) @@ Or(11, {"constructor", ";"}), {10}, Scripts)

Modules ==
  Text(<<"import", "x", ",", "{", "y", "as", "z", "}", "from", "str", ";", "x">>,
       Or(2, {"*", "str", "{", "(", "default"}) @@ Or(3, {"as", "from", "x"}) @@ Or(4, {"*", "as", "str"})
       @@ Or(5, {"default", "as"}) @@ Or(6, {"}", ",", "z"}) @@ Or(7, {"from"}), {}, Module)
  \cup Text(<<"export", "x", ",", "{", "y", "as", "default", "}", "from", "str">>,
            Or(2, {"*", "{", "let", "var", "if", "async", "+"}) @@ Or(3, {"from", "default", "x", "function"})
            @@ Or(4, {"}", "=", "str", ";", "x"}) @@ Or(5, {"default", "}", "num"}) @@ Or(6, {"}", ",", "from", "("})
            @@ Or(7, {")", "str"}) @@ Or(8, {"{"}) @@ Or(9, {"}", ";"}), {}, Module)
  \cup Text(<<"export", "default", "function", "x", "(", ")", "{", "import", "x", "from", "str", "}">>,
            Or(1, {"import"}) @@ Or(3, {"class", "async", "from", "{", "[", "x"}) @@ Or(4, {"(", "function", "=>", "]"})
            @@ Or(5, {"{", "=", ")", "}"}) @@ Or(6, {"x", "=>", "}"}) @@ Or(8, {"export", "await", "static"}), {}, Module)

MCSources == Expressions \cup Templates \cup Functions \cup Statements \cup Classes \cup Modules
=============================================================================
