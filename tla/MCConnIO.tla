------------------------------- MODULE MCConnIO -------------------------------
(***************************************************************************)
(* Scripts of three clients for module ConnIO.                               *)
(***************************************************************************)
EXTENDS ConnIO

CONSTANTS c1, c2, c3

MCConns == {c1, c2, c3}

MCPutSize == [put1 |-> 1, put2 |-> 2, put3 |-> 3]

Eol == <<"R", "N">>

Cmd(word) == [line |-> <<word>> \o Eol, body |-> <<>>]

\* A line of n tokens before its end.
Long(n) == [line |-> [i \in 1..n |-> "x"] \o Eol, body |-> <<>>]

Put(word, body) == [line |-> <<word>> \o Eol, body |-> body]

\* A body that looks like a command line.
LooksLikeCommand == <<"quit">> \o Eol

\* A body that holds a line end of its own.
HoldsEol == Eol \o Eol

BadTrailer == <<"a", "quit", "R">>

TooBig == <<"quit">> \o Eol \o Eol

Reserve == Cmd("reserve")

ReserveTimeout == Cmd("reserve-with-timeout")

\* c1 mostly puts and c2 mostly reserves; c3 waits in one of the scripts.
Triples == {
    << <<Put("put1", LooksLikeCommand), Put("put2", HoldsEol)>>,
       <<Reserve, ReserveTimeout>>, <<>> >>,
    << <<Put("put3", TooBig), Put("put1", LooksLikeCommand)>>,
       <<Cmd("stats"), Reserve>>, <<>> >>,
    << <<Put("put1", BadTrailer), Cmd("stats")>>,
       <<Put("put1", LooksLikeCommand), Reserve, Cmd("quit"), Cmd("stats")>>, <<>> >>,
    << <<Long(6), Long(12), Cmd("stats")>>,
       <<ReserveTimeout>>, <<>> >>,
    << <<Long(5), Cmd("stats"), Put("put1", LooksLikeCommand)>>,
       <<Reserve, Long(5)>>, <<>> >>,
    << <<ReserveTimeout, Put("put1", LooksLikeCommand)>>,
       <<Reserve>>, <<Reserve>> >>}

ScriptsOf(triples) ==
    {[c \in MCConns |-> CASE c = c1 -> p[1] [] c = c2 -> p[2] [] c = c3 -> p[3]] :
        p \in triples}

MCScripts == ScriptsOf(Triples)

\* The shortest line that is too long: its CR is the last byte of the buffer.
MCLongLine ==
    ScriptsOf({<< <<Long(5), Cmd("stats"), Put("put1", LooksLikeCommand)>>, <<>>, <<>> >>})
=============================================================================
