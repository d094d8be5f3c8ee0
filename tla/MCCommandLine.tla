--------------------------- MODULE MCCommandLine ---------------------------
(***************************************************************************)
(* An instance of CommandLine for TLC: every command with all that can     *)
(* follow it in a few words and blanks, and lines that are no command.     *)
(***************************************************************************)
EXTENDS CommandLine

Upto(n, characters) == UNION {[1 .. m -> characters] : m \in 0 .. n}

Commands == {<<"put">> \o s : s \in Upto(4, {"k", Blank})}
            \cup {<<word>> \o s : word \in {"get", "del"}, s \in Upto(3, {"k", Blank})}
Others   == {<<Blank, "put", Blank, "k", Blank, "v">>, <<Blank, Blank, "del", Blank, "k">>,
             <<"put", Blank, "k", Blank, Blank, "v", Blank>>, <<"get", Blank, "k", Colon, "v">>,
             <<"k", "put", Blank, "k", Blank, "v">>, <<"k", Colon, "v">>, <<Blank>>, <<>>}
SomeLines == {Append(s, End) : s \in Commands \cup Others}

TwoAddresses == {<<"host", Colon, "port">>, <<"host2", Colon, "port2">>}
=============================================================================
