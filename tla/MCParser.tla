------------------------------- MODULE MCParser -------------------------------
(***************************************************************************)
(* Texts for Parser: a beginning, then every sequence of up to n pieces,   *)
(* then an end.                                                            *)
(***************************************************************************)
EXTENDS Parser

UpTo(begin, pieces, n, end) ==
  UNION {{begin \o FlattenSeq(middle) \o end : middle \in [1..m -> pieces]}
           : m \in 1..n}

Single(tokens) == {<<token>> : token \in tokens}
Expression == <<"x", ";">>
Typed == <<"x", ":", "T">>

MCTexts == <<
  (* blocks, arms, jumps *)
  UpTo(<<>>, {<<"if", "(", "x", ")">>, Expression}
               \cup Single({"loop", "else", "{", "}", "break", "return", ";"}),
       4, <<>>),
  (* headers of for *)
  UpTo(<<"for", "(">>, {<<"let", "x", "=", "x">>}
                         \cup Single({"const", "x", "in", ";", ")"}), 4,
       Expression),
  UpTo(<<"const">>, Single({"x", ":", "T", "=", ";"}), 4, <<";">>),
  (* switch, its cases and what it switches on *)
  UpTo(<<"switch", "0", "{">>,
       {<<"case", "s", "=>">>, <<"case">> \o Typed \o <<"=>">>, Expression}
         \cup Single({"{", "}"}), 4, <<"}">>),
  UpTo(<<"switch">>, {<<"{", "}">>, <<"(", "x", ")">>, <<".", "x">>}
                       \cup Single({"x", "0", "+", ";"}), 4, <<>>),
  (* declarations *)
  UpTo(<<"fn", "x", "(">>, {Typed, <<"=", "x">>}
                             \cup Single({",", ")", "{", "}", ";"}), 4, <<>>),
  UpTo(<<"struct", "x", "{">>, {Typed, <<"fn", "x", "(", ")">>}
                                 \cup Single({";", "{", "}"}), 4, <<>>),
  UpTo(<<"let", "x", ":">>, Single({"T", "x", "<", ">", ",", "*"}), 4,
       <<";">>),
  UpTo(<<"print", "(">>, Single({"x", ",", ")", "+", "."}), 4, <<";">>),
  (* three operators of any two levels, casts and type arguments *)
  UpTo(<<"x">>, {<<op, "x">> : op \in Operators \ {"as"}}
                  \cup {<<"as", "T">>, <<"?">>, <<":", "x">>}, 3, <<";">>),
  UpTo(<<>>, Single({"(", ")", "-", "*", "x", "T", "<", ">"}), 4, <<";">>),
  UpTo(<<"x", "<">>, {<<";", "x">>} \cup Single({"x", "<", ">", "(", "T"}),
       4, <<"x", ")", ";">>),
  (* what follows a type, a `?` or a block *)
  UpTo(<<"x">>, {<<"as", "T">>, <<"as", "x">>, <<"?">>, <<"else", "{", "}">>,
                 <<"(", "x", ")">>, <<".", "x">>, <<"<", "T", ">">>,
                 <<"+", "x">>, <<"^", "x">>, <<"=", "x">>}, 3, <<";">>),
  (* calls, fields and parentheses that go wrong, and what follows them *)
  UpTo(<<"x">>, Single({"(", ")", ".", "x", "+", "=", "?"}), 4, <<";">>),
  UpTo(<<"print", "(", "x">>, {<<".", "=">>, <<"(", ")">>}
                                \cup Single({".", "=", ")", ";", "}"}), 4,
       <<";">>),
  (* arms, blocks and literals within expressions *)
  UpTo(<<"x", "=", "if", "(", "x", ")">>,
       {<<"{", "}">>, <<".", "x">>, <<"(", "x", ")">>}
         \cup Single({"x", "else", "+", "{", "}", "=", "?"}), 3, <<";">>),
  UpTo(<<"x", "else">>, Single({"return", "x", "{", "}", ";", "=", "+"}), 3,
       <<";">>),
  UpTo(<<"x", "{">>, Single({"x", ":", ",", "}"}), 4, <<";">>) >>
===============================================================================
