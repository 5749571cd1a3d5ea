--------------------------- MODULE MCSentinelMessage ---------------------------
(* The model-checking instance of SentinelMessage.                         *)
EXTENDS SentinelMessage

CONSTANTS fresh, stale, v1, v2

Letters == {Backslash, Quote, Replaced, Lone, "x"} \cup Blank

\* Strings of up to n of the characters that matter, and one that does not.
Strings(n) == UNION {[1..m -> {Backslash, Quote, Space, "x"}] : m \in 0..n}

First == Strings(4) \cup {<<"x", "tab">>, <<"x", Lone>>}
Later == {<<>>, <<"x">>, <<Backslash>>, <<"x", Space, Backslash>>, <<Quote>>}
Files == {<<"x">>, <<"x", Space, Backslash, "x">>}

\* A, a, A_, ab and the sentinel's variable.
Var   == <<87>>
Words == {<<65>>, <<97>>, <<65, 95>>, <<97, 98>>, Var}

\* A parent that is no sentinel child, and one that is.
Parents ==
  {<<Pair(<<65>>, v1), Pair(<<97, 98>>, v1)>>,
   <<Pair(Var, stale), Pair(<<65, 95>>, v1)>>}

Magic  == <<"W", "O", "R", "T">>
Pieces == {Magic, <<"O", "R", "T", "W", "W", "O", "R", "T">>}
Chars  == {"W", "O", "R", "T", "0"}
=============================================================================
