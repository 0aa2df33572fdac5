-------------------------------- MODULE MCParser --------------------------------
EXTENDS Parsing

Text(given, then, most) == [given |-> given, then |-> then, most |-> most]

Main == <<"int", "f", "(", ")", "{">>
MainOf(declared) == <<"int", "f", "(", "int", "x">> \o declared \o <<")", "{">>

\* What stands at the top level, read ahead and read again.
File == Text(<<>>, {"int", "x", "(", ")", "{", "}", ";", "*"}, 6)
Params == Text(<<"int", "f", "(">>, {"int", "x", ",", ")", "{", "}", ";"}, 7)
Prototypes == Text(<<"int", "f", "(", ")">>, {"int", "x", "(", ")", "{", "}", ";", "["}, 5)

\* Operators of several levels in one expression.
Levelled == Text(Main \o <<"1">>, {"1", "||", "==", ">=", "-", "*", ";", "}"}, 6)
Others == Text(Main \o <<"1">>, {"1", "&&", "<", "+", "/", ";", "}"}, 6)
Assigned == Text(MainOf(<<>>), {"x", "=", "+=", "+", "(", ")", ";", "}"}, 7)

\* Prefix and postfix operators, sizeof and its look-ahead.
Prefixed == Text(MainOf(<<>>) \o <<"sizeof">>, {"x", "(", ")", "int", "*", "[", "1", "]", ";", "}"}, 6)
Signed == Text(MainOf(<<>>), {"x", "sizeof", "++", "-", "!", "&", ";", "}"}, 5)
Postfixes ==
    Text(MainOf(<<"[", "1", "]">>) \o <<"x">>, {"x", "++", "--", "[", "]", "(", ")", ";", "}"}, 6)
Called == Text(Main \o <<"x">>, {"f", "x", "(", ")", ",", "'c'", "\"s\"", ";", "}"}, 7)

\* Statements.
Ifs == Text(Main \o <<"if", "(", "1", ")", "if", "(", "1", ")">>, {"if", "else", ";", "{", "}"}, 7)
Switches ==
    Text(Main \o <<"while", "(", "1", ")", "switch", "(", "1", ")">>,
         {"case", "default", ":", "1", "{", "}", ";", "return"}, 7)
Fors == Text(MainOf(<<>>) \o <<"for", "(">>, {"int", "x", "1", ")", ";", "}"}, 8)

\* Variables and their initial values.
Locals == Text(Main \o <<"int">>, {"x", "*", "[", "1", "]", "=", ";", "}"}, 6)
Arrays ==
    Text(Main \o <<"int", "x", "[", "1", "]", "=">>, {"{", "}", ",", "1", "\"s\"", ";"}, 7)

MCTexts ==
    {File, Params, Prototypes, Levelled, Others, Assigned, Prefixed, Signed, Postfixes,
     Called, Ifs, Switches, Fors, Locals, Arrays}

MCEndings == {<<>>, <<";">>, <<"}">>, <<";", "}">>}
=============================================================================
