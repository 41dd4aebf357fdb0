------------------------- MODULE MCRedisConnection -------------------------
EXTENDS RedisConnection

Object(type, text) == <<[path |-> <<>>, type |-> type, text |-> text]>>

Array(parts) ==
    Object("*", <<ToString(Len(parts))>>)
        \o FlattenSeq([i \in DOMAIN parts |->
              [j \in DOMAIN parts[i] |-> [parts[i][j] EXCEPT !.path = <<i - 1>> \o @]]])

\* Arrays nested n deep.
Nested(n) == [i \in 1..(n + 1) |->
    [path |-> [j \in 1..(i - 1) |-> 0], type |-> IF i <= n THEN "*" ELSE ":", text |-> <<"1">>]]

\* Nested arrays that end together, with a bulk string that holds line ends,
\* an error, nils and an empty array in them; an array that is too deep.
AllAnswers ==
    << Object("+", <<"x">>),
       Array(<<Array(<<Object("$", <<"CR", "LF", "CR">>), Array(<<Object("nil", <<"$">>), Object("nil", <<"*">>)>>)>>),
               Array(<<>>), Object("-", <<"x">>)>>),
       Nested(TaskLimit) >>

\* Two threads: the length a list has, and a lock that was taken.
TwoAnswers == <<Object(":", <<"2">>), Object(":", <<"1">>)>>
=============================================================================
