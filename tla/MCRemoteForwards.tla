-------------------------- MODULE MCRemoteForwards --------------------------
(* Small instances of RemoteForwards for TLC. *)
EXTENDS RemoteForwards

Digits(text, n) == [kind |-> "digits", text |-> text, num |-> n]
Word(kind, text) == [kind |-> kind, text |-> text, num |-> 0]

P0 == Digits("0", 0)
P1 == Digits("1", 1)
PBig == Digits("9", 9)
Remote == Word("name", "remote")
StarF == Word("star", "*")
Sock == Word("path", "/sock")
Six == Word("bracketed", "::1")
Empty == Word("empty", "")

Fields == {P1, PBig, Remote, StarF, Sock, Six, Empty}
SeqsOf(S, n) == UNION {[1..k -> S] : k \in 1..n}

(* Every argument of up to three fields, those of four with a port or a    *)
(* host in second and fourth place, a few longer ones, on its own.         *)
Nothing == [opt |-> "none", fields |-> <<>>]
Few == {P1, PBig, Remote, Sock}
FourFields == {<<f, m, g, n>> : f, g \in Fields, m, n \in Few}
Alone == {<<[opt |-> o, fields |-> s], Nothing>> :
            o \in {"-L", "-R", "-D"},
            s \in SeqsOf(Fields, 3) \cup FourFields \cup [1..5 -> {P1, Remote}]}

(* Pairs of -R arguments whose sockets and keys come close to each other. *)
R(s) == [opt |-> "-R", fields |-> s]
Pairs ==
  {<<R(<<P1>>), R(<<P1, Sock>>)>>,                           (* the same port twice        *)
   <<R(<<P0, Remote, P1>>), R(<<P1, Sock>>)>>,               (* two ports of a host        *)
   <<R(<<StarF, P1, Remote, P1>>), R(<<Six, P0, Sock>>)>>,   (* all addresses, and one     *)
   <<R(<<Sock, Remote, P1>>), R(<<Sock, Sock>>)>>,           (* the same path twice        *)
   <<R(<<Remote, P1, Sock>>), R(<<P1, Remote, P1>>)>>}       (* a host that is looked up   *)

MCCommandLines == Alone \cup Pairs
MCForeign == {{<<"lo6", 2>>, <<"lo4", 3>>}}
MCLookup(host) == IF host = "remote" THEN <<"lan4", "lan6">> ELSE <<>>
=============================================================================
