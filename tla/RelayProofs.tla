----------------------------- MODULE RelayProofs -----------------------------
(***************************************************************************)
(* What Relay promises of the bytes it forwards, for every payload, every  *)
(* set of channel types and every number of faults: only payload arrives,  *)
(* and a clean end is never invented.                                      *)
(*                                                                         *)
(* The invariant follows a byte through the pipes.  Up, what the far side  *)
(* has eaten of the handshake, the bytes at the target, in the channel and *)
(* at the near side are, put together, what the application has sent.      *)
(* Down, what the near side took as the answer, the bytes at the           *)
(* application, in the channel and at the far side are the confirmation,   *)
(* the replies of the negotiation and what the target has sent.  The ends  *)
(* of the pipes are told apart by who can have closed them.                *)
(***************************************************************************)
EXTENDS Relay, SequenceTheorems, TLAPS

Data(p) == pipe[p].data
End(p) == pipe[p].end
Started(c) == copier[c] # "none"

(* The tokens that pass through the pipes. *)
Literals ==
  {"max", "type", "host", "port", "bigport", "path", "reserved", "zero",
   "confirm", "failure", "code", "text",
   "noauth", "otherauth", "badversion", "connect", "bind", "badatyp",
   "method_none", "method_ok", "unsupported", "granted", "refused"}
Token == Literals \cup Range(UpBytes) \cup Range(DownBytes)

Ends == {"open", "fin", "reset"}
PipeStates == [Pipes -> [data : Seq(Token), end : Ends]]
Conns == [kind : Kinds, port : {"port", "bigport"},
          greeting : {"noauth", "otherauth", "badversion"},
          request : {"connect", "bind", "badversion", "badatyp"}]
States == {"none", "copy", "done", "failed", "aborted"}
Nears == {"open", "wait", "relay", "cancelling", "done", "dropped"}
Fars == {"none", "decode", "greeting", "request", "connect", "relay", "done", "dropped"}
Negotiating == {"greeting", "request", "connect"}

(* The types of the variables, and how conn was chosen. *)
TypeInv ==
  /\ conn \in Conns
  /\ near \in Nears
  /\ far \in Fars
  /\ copier \in [Copiers -> States]
  /\ pipe \in PipeStates
  /\ todo \in Seq({"varint", "string"})
  /\ sent \in [app : 0..Len(Script), target : 0..Len(DownBytes)]
ConnInv ==
  /\ conn.kind # "direct-tcpip" => conn.port = "port"
  /\ conn.kind # "socks5" => conn.greeting = "noauth"
  /\ conn.kind # "socks5" \/ conn.greeting # "noauth" => conn.request = "connect"

(* Where the handlers are, and which relays they have started. *)
WhereInv ==
  /\ near = "open" => far = "none"
  /\ far = "none" => near \in {"open", "done", "dropped"}
  /\ far \in {"none", "decode"} => \A c \in Copiers : ~Started(c)
  /\ far \in Negotiating => conn.kind = "socks5" /\ ~Started("far_up")
  /\ far = "relay" => Started("far_up")
  /\ near \in {"open", "wait"} => ~Started("near_up")
  /\ near \in {"relay", "cancelling"} => Started("near_up")
  /\ Started("near_up") <=> Started("near_down")
  /\ Started("far_up") <=> Started("far_down")
  /\ far \in {"request", "connect"} => conn.greeting = "noauth"
  /\ far = "connect" => conn.request = "connect"
  /\ Started("far_up") =>
       conn.greeting = "noauth" /\ conn.request = "connect" /\ conn.port = "port"
  /\ near = "cancelling" => "cancel" \in faults
  /\ \A c \in FarCopiers : copier[c] # "aborted"
  /\ \A c \in NearCopiers : copier[c] = "aborted" => "cancel" \in faults

(* What the application and the target have sent so far. *)
Sent == SubSeq(Script, 1, sent.app)
Fed == SubSeq(DownBytes, 1, sent.target)

(* The far side reads the channel as the payload, or as the negotiation. *)
Live == far \in Negotiating \/ Started("far_up")

(* What the far side has eaten of the handshake, and what it has answered. *)
Eaten ==
  IF Started("far_up") \/ far = "connect" THEN Handshake
  ELSE IF far = "request" THEN <<conn.greeting>> ELSE <<>>
Said ==
  IF conn.kind # "socks5" THEN <<>>
  ELSE IF Started("far_up") THEN <<"method_ok", "granted">>
  ELSE IF far \in {"request", "connect"} THEN <<"method_ok">> ELSE <<>>

UpInv ==
  /\ ~Started("near_up") => Data("localUp") = Sent
  /\ far = "none" => Data("chanUp") = <<>>
  /\ far = "decode" => Len(Data("chanUp")) = Len(todo)
  /\ ~Started("far_up") => Data("targetUp") = <<>>
  /\ Live => Eaten \o (Data("targetUp") \o (Data("chanUp") \o Data("localUp"))) = Sent

(* What has come out of the channel at the near side, the confirmation     *)
(* that the near handler took included.                                    *)
Got ==
  IF Started("near_down") THEN Confirmation \o (Data("localDown") \o Data("chanDown"))
                          ELSE Data("chanDown")

(* What an unfinished negotiation, or none, may have sent. *)
Refusals ==
  \/ Got \in {<<>>, Failure}
  \/ conn.kind = "socks5" /\ \E s \in Socks5Answers : IsPrefix(Got, Confirmation \o s)

DownInv ==
  /\ ~Started("near_down") => Data("localDown") = <<>>
  /\ far \in {"none", "decode"} => Got = <<>>
  /\ ~Started("far_up") => sent.target = 0 /\ Data("targetDown") = <<>>
  /\ Live => Got \o Data("targetDown") = Confirmation \o (Said \o Fed)
  /\ Live => Len(Data("targetDown")) <= sent.target
  /\ ~Live => Refusals

(* Who closed a pipe, as long as no fault concerns it. *)
NearGaveUp == near = "done" /\ ~Started("near_up")
FarGaveUp == far = "done" /\ ~Started("far_up")
UpOnly == faults \subseteq {"chanDown"}
DownOnly == faults \subseteq {"chanUp"}
Drained(c) == copier[c] = "done" /\ Data(Src(c)) = <<>> /\ End(Src(c)) = "fin"

LocalUpEnd == End("localUp") = "reset" => "app" \in faults
ChanUpEnd ==
  UpOnly => /\ End("chanUp") = "reset" => NearGaveUp \/ FarGaveUp
            /\ End("chanUp") = "fin" => NearGaveUp \/ Drained("near_up")
TargetUpEnd ==
  /\ End("targetUp") # "open" => copier["far_up"] \in {"done", "failed"} \/ "target" \in faults
  /\ UpOnly /\ End("targetUp") = "fin" => NearGaveUp \/ Drained("far_up")
TargetDownEnd == End("targetDown") = "reset" => "target" \in faults
ChanDownEnd ==
  DownOnly => /\ End("chanDown") = "reset" => NearGaveUp \/ FarGaveUp
              /\ End("chanDown") = "fin" => FarGaveUp \/ Drained("far_down")
LocalDownEnd ==
  /\ End("localDown") # "open" =>
       \/ Over("near_down") \/ "app" \in faults
       \/ ~Started("near_up") /\ near \in {"done", "dropped"}
  /\ copier["near_down"] = "done" => End("localDown") # "open"
  /\ DownOnly /\ End("localDown") = "fin" => NearGaveUp \/ FarGaveUp \/ Drained("near_down")
NearDownFails == DownOnly /\ copier["near_down"] \in {"failed", "aborted"} => FarGaveUp
GivenUp ==
  /\ NearGaveUp => End("chanDown") # "open"
  /\ faults = {} /\ NearGaveUp => ~Started("far_up")

EndInv ==
  /\ LocalUpEnd /\ ChanUpEnd /\ TargetUpEnd
  /\ TargetDownEnd /\ ChanDownEnd /\ LocalDownEnd
  /\ NearDownFails /\ GivenUp

IInv ==
  /\ TypeInv /\ ConnInv /\ WhereInv /\ UpInv /\ DownInv /\ EndInv
-----------------------------------------------------------------------------
(* Sequences: what comes off one pipe and is put behind another. *)

(* A concatenation: its type, its length and its first tokens. *)
LEMMA Joined ==
  ASSUME NEW S, NEW a \in Seq(S), NEW b \in Seq(S)
  PROVE  /\ a \o b \in Seq(S) /\ Len(a \o b) = Len(a) + Len(b)
         /\ Len(a) \in Nat /\ Len(b) \in Nat
BY ConcatProperties, LenProperties

LEMMA JoinedAt ==
  ASSUME NEW S, NEW a \in Seq(S), NEW b \in Seq(S), NEW i \in 1..Len(a)
  PROVE  (a \o b)[i] = a[i]
<1>1. i \in 1..(Len(a) + Len(b)) /\ i <= Len(a) BY LenProperties
<1> QED BY <1>1, ConcatProperties

LEMMA PairJoined ==
  ASSUME NEW S, NEW x \in S, NEW y \in S
  PROVE  <<x>> \o <<y>> = <<x, y>> /\ <<x, y>> \in Seq(S)
<1>1. <<x>> \in Seq(S) /\ <<y>> \in Seq(S) /\ <<x, y>> \in Seq(S) OBVIOUS
<1>2. <<x>> \o <<y>> \in Seq(S) /\ Len(<<x>> \o <<y>>) = 2 BY <1>1, Joined
<1>3. ASSUME NEW i \in 1..2 PROVE (<<x>> \o <<y>>)[i] = <<x, y>>[i]
  BY <1>1, ConcatProperties
<1> QED BY <1>1, <1>2, <1>3, SeqEqual

(* A sequence that is not empty is its head and its tail. *)
LEMMA HeadAndTail ==
  ASSUME NEW S, NEW s \in Seq(S), s # <<>>
  PROVE  /\ Head(s) \in S /\ Tail(s) \in Seq(S) /\ <<Head(s)>> \in Seq(S)
         /\ Len(Tail(s)) = Len(s) - 1
         /\ <<Head(s)>> \o Tail(s) = s
<1>1. Head(s) \in S /\ Tail(s) \in Seq(S) /\ Len(Tail(s)) = Len(s) - 1
  BY HeadTailProperties
<1>2. <<Head(s)>> \in Seq(S) BY <1>1
<1>3. <<Head(s)>> \o Tail(s) \in Seq(S) /\ Len(<<Head(s)>> \o Tail(s)) = Len(s)
  BY <1>1, <1>2, ConcatProperties, LenProperties
<1>4. ASSUME NEW i \in 1..Len(s) PROVE (<<Head(s)>> \o Tail(s))[i] = s[i]
  BY <1>1, <1>2, ConcatProperties, LenProperties, HeadTailProperties
<1> QED BY <1>1, <1>2, <1>3, <1>4, SeqEqual

(* What is put in front can be taken off again. *)
LEMMA FrontCancels ==
  ASSUME NEW S, NEW a \in Seq(S), NEW s \in Seq(S), NEW t \in Seq(S), a \o s = a \o t
  PROVE  s = t
<1>1. Len(s) \in Nat /\ Len(t) \in Nat /\ Len(a) \in Nat BY LenProperties
<1>2. Len(a) + Len(s) = Len(a) + Len(t) BY ConcatProperties
<1>3. Len(s) = Len(t) BY <1>1, <1>2
<1>4. ASSUME NEW i \in 1..Len(s) PROVE s[i] = t[i]
  <2>1. Len(a) + i \in 1..(Len(a) + Len(s)) /\ ~(Len(a) + i <= Len(a))
        /\ (Len(a) + i) - Len(a) = i
    BY <1>1
  <2>2. (a \o s)[Len(a) + i] = s[i] BY <2>1, ConcatProperties
  <2>3. (a \o t)[Len(a) + i] = t[i] BY <2>1, <1>3, ConcatProperties
  <2> QED BY <2>2, <2>3
<1> QED BY <1>3, <1>4, SeqEqual

(* A prefix, index by index. *)
LEMMA PrefixByIndex ==
  ASSUME NEW S, NEW s \in Seq(S), NEW t \in Seq(S)
  PROVE  IsPrefix(s, t) <=> Len(s) <= Len(t) /\ \A i \in 1..Len(s) : s[i] = t[i]
<1>1. Len(s) \in Nat /\ Len(t) \in Nat BY LenProperties
<1>2. SubSeq(s, 1, Len(s)) = s BY SubSeqFull
<1>3. CASE Len(s) <= Len(t)
  <2>1. /\ SubSeq(t, 1, Len(s)) \in Seq(S) /\ Len(SubSeq(t, 1, Len(s))) = Len(s)
        /\ \A i \in 1..Len(s) : SubSeq(t, 1, Len(s))[i] = t[i]
    BY <1>1, <1>3
  <2>2. s = SubSeq(t, 1, Len(s)) <=> \A i \in 1..Len(s) : s[i] = t[i]
    <3>1. ASSUME \A i \in 1..Len(s) : s[i] = t[i] PROVE s = SubSeq(t, 1, Len(s))
      BY <2>1, <3>1, SeqEqual
    <3> QED BY <2>1, <3>1
  <2> QED BY <1>2, <1>3, <2>2 DEF IsPrefix
<1> QED BY <1>3 DEF IsPrefix

LEMMA PrefixSelf ==
  ASSUME NEW S, NEW s \in Seq(S)
  PROVE  IsPrefix(s, s)
BY PrefixByIndex, LenProperties

LEMMA PrefixEmpty ==
  ASSUME NEW S, NEW s \in Seq(S)
  PROVE  IsPrefix(<<>>, s)
<1> DEFINE e == <<>>
<1>1. e \in Seq(S) /\ Len(e) = 0 /\ Len(s) \in Nat BY EmptySeq, LenProperties
<1> HIDE DEF e
<1>2. Len(e) <= Len(s) /\ \A i \in 1..Len(e) : e[i] = s[i] BY <1>1
<1>3. IsPrefix(e, s) BY <1>1, <1>2, PrefixByIndex
<1> QED BY <1>3 DEF e

(* The first part of a sequence is a prefix of it, and of what the whole   *)
(* is a prefix of.                                                         *)
LEMMA FirstPart ==
  ASSUME NEW S, NEW s \in Seq(S), NEW t \in Seq(S), NEW u \in Seq(S), IsPrefix(s \o t, u)
  PROVE  IsPrefix(s, u)
<1>1. Len(s) \in Nat /\ Len(t) \in Nat /\ Len(u) \in Nat BY LenProperties
<1>2. s \o t \in Seq(S) /\ Len(s \o t) = Len(s) + Len(t)
      /\ \A i \in 1..Len(s) : (s \o t)[i] = s[i]
  BY <1>1, ConcatProperties
<1> DEFINE w == s \o t
<1> HIDE DEF w
<1>w. w \in Seq(S) /\ IsPrefix(w, u) BY <1>2 DEF w
<1>v. Len(w) <= Len(u) /\ \A i \in 1..Len(w) : w[i] = u[i] BY <1>w, PrefixByIndex
<1>3. Len(s) + Len(t) <= Len(u) /\ \A i \in 1..(Len(s) + Len(t)) : (s \o t)[i] = u[i]
  BY <1>2, <1>v DEF w
<1>4. Len(s) <= Len(u) /\ \A i \in 1..Len(s) : s[i] = u[i] BY <1>1, <1>2, <1>3
<1> QED BY <1>4, PrefixByIndex

(* The same front can be put before both, and taken off both. *)
LEMMA PrefixBehind ==
  ASSUME NEW S, NEW a \in Seq(S), NEW s \in Seq(S), NEW t \in Seq(S)
  PROVE  IsPrefix(a \o s, a \o t) <=> IsPrefix(s, t)
<1>1. Len(s) \in Nat /\ Len(t) \in Nat /\ Len(a) \in Nat BY LenProperties
<1>2. /\ a \o s \in Seq(S) /\ Len(a \o s) = Len(a) + Len(s)
      /\ a \o t \in Seq(S) /\ Len(a \o t) = Len(a) + Len(t)
  BY ConcatProperties
<1>3. ASSUME IsPrefix(a \o s, a \o t) PROVE IsPrefix(s, t)
  <2>1. /\ Len(a) + Len(s) <= Len(a) + Len(t)
        /\ \A i \in 1..(Len(a) + Len(s)) : (a \o s)[i] = (a \o t)[i]
    BY <1>2, <1>3, PrefixByIndex
  <2>2. Len(s) <= Len(t) BY <1>1, <2>1
  <2>3. ASSUME NEW i \in 1..Len(s) PROVE s[i] = t[i]
    <3>1. /\ Len(a) + i \in 1..(Len(a) + Len(s)) /\ Len(a) + i \in 1..(Len(a) + Len(t))
          /\ ~(Len(a) + i <= Len(a)) /\ (Len(a) + i) - Len(a) = i
      BY <1>1, <2>2
    <3>2. (a \o s)[Len(a) + i] = s[i] /\ (a \o t)[Len(a) + i] = t[i]
      BY <3>1, ConcatProperties
    <3> QED BY <2>1, <3>1, <3>2
  <2> QED BY <2>2, <2>3, PrefixByIndex
<1>4. ASSUME IsPrefix(s, t) PROVE IsPrefix(a \o s, a \o t)
  <2>1. Len(s) <= Len(t) /\ \A i \in 1..Len(s) : s[i] = t[i]
    BY <1>4, PrefixByIndex
  <2>2. Len(a \o s) <= Len(a \o t) BY <1>1, <1>2, <2>1
  <2>3. ASSUME NEW i \in 1..(Len(a) + Len(s)) PROVE (a \o s)[i] = (a \o t)[i]
    <3>1. i \in 1..(Len(a) + Len(t)) BY <1>1, <2>1
    <3>2. (a \o s)[i] = IF i <= Len(a) THEN a[i] ELSE s[i - Len(a)]
      BY ConcatProperties
    <3>3. (a \o t)[i] = IF i <= Len(a) THEN a[i] ELSE t[i - Len(a)]
      BY <3>1, ConcatProperties
    <3>4. ~(i <= Len(a)) => i - Len(a) \in 1..Len(s) BY <1>1
    <3> QED BY <2>1, <3>2, <3>3, <3>4
  <2> QED BY <1>2, <2>2, <2>3, PrefixByIndex
<1> QED BY <1>3, <1>4

(* Two tokens are taken off the front. *)
LEMMA TwoOff ==
  ASSUME NEW S, NEW a \in Seq(S), NEW d \in Seq(S), Len(a) = 2, IsPrefix(a, d)
  PROVE  SubSeq(d, 3, Len(d)) \in Seq(S) /\ d = a \o SubSeq(d, 3, Len(d))
<1> DEFINE w == SubSeq(d, 3, Len(d))
<1>1. Len(d) \in Nat BY LenProperties
<1>2. 2 <= Len(d) /\ \A i \in 1..2 : a[i] = d[i] BY PrefixByIndex
<1>3. w \in Seq(S) /\ Len(w) = Len(d) - 2 /\ \A i \in 1..(Len(d) - 2) : w[i] = d[i + 2]
  BY <1>1, <1>2
<1> HIDE DEF w
<1>j. a \o w \in Seq(S) /\ Len(a \o w) = Len(a) + Len(w) BY <1>3, Joined
<1>4. a \o w \in Seq(S) /\ Len(a \o w) = Len(d) BY <1>1, <1>3, <1>j
<1>5. ASSUME NEW i \in 1..Len(d) PROVE (a \o w)[i] = d[i]
  <2>1. i \in 1..(Len(a) + Len(w)) BY <1>1, <1>3
  <2>2. (a \o w)[i] = IF i <= Len(a) THEN a[i] ELSE w[i - Len(a)]
    BY ZenonT(30), <1>3, <2>1, ConcatProperties
  <2>3. CASE i <= 2
    <3>1. i \in 1..2 BY <2>3
    <3> QED BY <1>2, <2>2, <2>3, <3>1
  <2>4. CASE ~(i <= 2)
    <3>1. i - 2 \in 1..(Len(d) - 2) /\ (i - 2) + 2 = i BY <1>1, <2>4
    <3> QED BY <1>3, <2>2, <2>4, <3>1
  <2> QED BY <2>3, <2>4
<1> QED BY <1>3, <1>4, <1>5, SeqEqual DEF w

(* The first n tokens of a sequence. *)
LEMMA Firsts ==
  ASSUME NEW S, NEW s \in Seq(S), NEW n \in 0..Len(s)
  PROVE  /\ SubSeq(s, 1, n) \in Seq(S) /\ Len(SubSeq(s, 1, n)) = n
         /\ IsPrefix(SubSeq(s, 1, n), s)
         /\ n = 0 => SubSeq(s, 1, n) = <<>>
         /\ n < Len(s) => /\ n + 1 \in 0..Len(s) /\ s[n + 1] \in S
                          /\ SubSeq(s, 1, n + 1) = SubSeq(s, 1, n) \o <<s[n + 1]>>
<1>1. Len(s) \in Nat /\ n \in Nat /\ n <= Len(s) BY LenProperties
<1>2. SubSeq(s, 1, n) \in Seq(S) /\ Len(SubSeq(s, 1, n)) = n
      /\ \A i \in 1..n : SubSeq(s, 1, n)[i] = s[i]
  BY <1>1
<1>3. IsPrefix(SubSeq(s, 1, n), s) BY <1>1, <1>2, PrefixByIndex
<1>4. n = 0 => SubSeq(s, 1, n) = <<>> BY <1>2, EmptySeq
<1>5. ASSUME n < Len(s)
      PROVE  /\ n + 1 \in 0..Len(s) /\ s[n + 1] \in S
             /\ SubSeq(s, 1, n + 1) = SubSeq(s, 1, n) \o <<s[n + 1]>>
  <2>1. n + 1 \in 0..Len(s) /\ n + 1 \in 1..Len(s) BY <1>1, <1>5
  <2>2. s[n + 1] \in S BY <2>1, ElementOfSeq
  <2>3. <<s[n + 1]>> \in Seq(S) /\ Len(<<s[n + 1]>>) = 1 BY <2>2
  <2>4. SubSeq(s, 1, n + 1) \in Seq(S) /\ Len(SubSeq(s, 1, n + 1)) = n + 1
        /\ \A i \in 1..(n + 1) : SubSeq(s, 1, n + 1)[i] = s[i]
    BY <1>1, <2>1
  <2>5. /\ SubSeq(s, 1, n) \o <<s[n + 1]>> \in Seq(S)
        /\ Len(SubSeq(s, 1, n) \o <<s[n + 1]>>) = n + 1
    BY <1>2, <2>3, ConcatProperties
  <2>6. ASSUME NEW i \in 1..(n + 1) PROVE (SubSeq(s, 1, n) \o <<s[n + 1]>>)[i] = s[i]
    BY <1>1, <1>2, <2>3, ConcatProperties
  <2> QED BY <2>1, <2>2, <2>4, <2>5, <2>6, SeqEqual
<1> QED BY <1>2, <1>3, <1>4, <1>5

-----------------------------------------------------------------------------
(* The tokens of the messages, and the pipes. *)

LEMMA TokensJoined ==
  /\ \A a, b \in Seq(Token) : a \o b \in Seq(Token)
  /\ \A a, b, c \in Seq(Token) : a \o (b \o c) = (a \o b) \o c
<1>1. ASSUME NEW a \in Seq(Token), NEW b \in Seq(Token) PROVE a \o b \in Seq(Token)
  BY Joined
<1>2. ASSUME NEW a \in Seq(Token), NEW b \in Seq(Token), NEW c \in Seq(Token)
      PROVE  a \o (b \o c) = (a \o b) \o c
  BY SMTT(30), ConcatAssociative
<1> QED BY <1>1, <1>2

(* A head moved behind the pipe before it leaves the whole as it was. *)
LEMMA TokensMove ==
  \A a, s, z \in Seq(Token) : s # <<>> =>
    /\ (a \o <<Head(s)>>) \o Tail(s) = a \o s
    /\ (a \o <<Head(s)>>) \o (Tail(s) \o z) = a \o (s \o z)
<1>1. ASSUME NEW a \in Seq(Token), NEW s \in Seq(Token), NEW z \in Seq(Token), s # <<>>
      PROVE  /\ (a \o <<Head(s)>>) \o Tail(s) = a \o s
             /\ (a \o <<Head(s)>>) \o (Tail(s) \o z) = a \o (s \o z)
  <2> DEFINE h == <<Head(s)>>
             t == Tail(s)
  <2>1. h \in Seq(Token) /\ t \in Seq(Token) /\ h \o t = s BY <1>1, HeadAndTail
  <2> HIDE DEF h, t
  <2>2. (a \o h) \o t = a \o s BY ZenonT(30), <2>1, TokensJoined
  <2>3. a \o h \in Seq(Token) BY <2>1, TokensJoined
  <2>4. (a \o h) \o (t \o z) = ((a \o h) \o t) \o z
    <3> DEFINE b == a \o h
    <3>1. b \in Seq(Token) BY <2>3
    <3> HIDE DEF b
    <3>2. b \o (t \o z) = (b \o t) \o z BY SMTT(30), <2>1, <3>1, TokensJoined
    <3> QED BY <3>2 DEF b
  <2>5. (a \o s) \o z = a \o (s \o z) BY TokensJoined
  <2> QED BY <2>2, <2>4, <2>5 DEF h, t
<1> QED BY <1>1

LEMMA Payloads == /\ UpBytes \in Seq(Token) /\ DownBytes \in Seq(Token)
                  /\ Literals \subseteq Token
<1>1. Range(UpBytes) \subseteq Token /\ Range(DownBytes) \subseteq Token /\ Literals \subseteq Token
  BY DEF Token
<1>2. UpBytes \in Seq(Range(UpBytes)) /\ DownBytes \in Seq(Range(DownBytes))
  BY RelayAssumption
<1> QED BY <1>1, <1>2, SeqMonotonic

(* The answers of the far side. *)
LEMMA AnswerTokens ==
  /\ <<>> \in Seq(Token) /\ Confirmation \in Seq(Token) /\ Failure \in Seq(Token)
  /\ Len(Confirmation) = 2 /\ Len(Failure) = 3
  /\ Confirmation[1] = "confirm" /\ Confirmation[2] = "max" /\ Failure[1] = "failure"
  /\ \A w \in {"method_none", "method_ok", "unsupported", "granted", "refused"} :
       <<w>> \in Seq(Token) /\ Len(<<w>>) = 1
  /\ \A w \in {"method_none", "method_ok", "unsupported", "granted", "refused"} :
       <<"method_ok", w>> \in Seq(Token) /\ <<"method_ok">> \o <<w>> = <<"method_ok", w>>
<1>1. \A w \in Literals : w \in Token BY Payloads
<1>2. /\ "confirm" \in Token /\ "max" \in Token /\ "failure" \in Token /\ "code" \in Token
      /\ "text" \in Token
  BY <1>1 DEF Literals
<1>3. \A w \in {"method_none", "method_ok", "unsupported", "granted", "refused"} : w \in Token
  BY <1>1 DEF Literals
<1>4. <<>> \in Seq(Token) BY EmptySeq
<1>5. Confirmation \in Seq(Token) /\ Len(Confirmation) = 2
      /\ Confirmation[1] = "confirm" /\ Confirmation[2] = "max"
  BY <1>2 DEF Confirmation
<1>6. Failure \in Seq(Token) /\ Len(Failure) = 3 /\ Failure[1] = "failure"
  BY <1>2 DEF Failure
<1>7. ASSUME NEW w \in {"method_none", "method_ok", "unsupported", "granted", "refused"}
      PROVE  /\ <<w>> \in Seq(Token) /\ Len(<<w>>) = 1
             /\ <<"method_ok", w>> \in Seq(Token) /\ <<"method_ok">> \o <<w>> = <<"method_ok", w>>
  <2>1. w \in Token /\ "method_ok" \in Token BY <1>3
  <2>2. <<w>> \in Seq(Token) /\ Len(<<w>>) = 1 BY <2>1
  <2>3. <<"method_ok", w>> \in Seq(Token) BY <2>1
  <2>4. <<"method_ok">> \o <<w>> = <<"method_ok", w>> BY <2>1, PairJoined
  <2> QED BY <2>2, <2>3, <2>4
<1> QED BY <1>4, <1>5, <1>6, <1>7

LEMMA ScriptTokens ==
  ASSUME conn \in Conns
  PROVE  /\ Handshake \in Seq(Token) /\ Script \in Seq(Token) /\ Len(Script) \in Nat
         /\ conn.kind = "socks5" => /\ Handshake = <<conn.greeting>> \o <<conn.request>>
                                    /\ Len(Handshake) = 2
                                    /\ Script[1] = conn.greeting /\ Script[2] = conn.request
                                    /\ Len(Script) >= 2
         /\ conn.kind # "socks5" => Handshake = <<>>
         /\ <<conn.greeting>> \in Seq(Token) /\ <<conn.request>> \in Seq(Token)
<1>1. conn.greeting \in Literals /\ conn.request \in Literals
  BY DEF Conns, Literals
<1>2. conn.greeting \in Token /\ conn.request \in Token BY <1>1, Payloads
<1>3. Handshake \in Seq(Token) BY <1>2 DEF Handshake
<1>4. UpBytes \in Seq(Token) /\ Len(UpBytes) \in Nat BY Payloads, LenProperties
<1>5. Script \in Seq(Token) /\ Len(Script) \in Nat
  BY <1>3, <1>4, ConcatProperties, LenProperties DEF Script
<1>6. ASSUME conn.kind = "socks5"
      PROVE  /\ Handshake = <<conn.greeting>> \o <<conn.request>>
             /\ Len(Handshake) = 2
             /\ Script[1] = conn.greeting /\ Script[2] = conn.request
             /\ Len(Script) >= 2
  <2>1. Handshake = <<conn.greeting, conn.request>> BY <1>6 DEF Handshake
  <2>2. Len(Handshake) = 2 /\ Handshake[1] = conn.greeting /\ Handshake[2] = conn.request
    BY <2>1
  <2>3. Handshake = <<conn.greeting>> \o <<conn.request>> BY <2>1, <1>2, PairJoined
  <2> DEFINE h == Handshake
  <2> HIDE DEF h
  <2>h. h \in Seq(Token) /\ Len(h) = 2 /\ h[1] = conn.greeting /\ h[2] = conn.request
        /\ Script = h \o UpBytes
    BY <1>3, <2>2 DEF h, Script
  <2>4. Len(h \o UpBytes) = 2 + Len(UpBytes) BY <2>h, <1>4, Joined
  <2>8. 1 \in 1..Len(h) /\ 2 \in 1..Len(h) BY <2>h
  <2>9. (h \o UpBytes)[1] = h[1] /\ (h \o UpBytes)[2] = h[2]
    BY <2>h, <2>8, <1>4, JoinedAt
  <2>5. Len(Script) = 2 + Len(UpBytes) /\ Script[1] = conn.greeting /\ Script[2] = conn.request
    BY <2>h, <2>4, <2>9
  <2>6. Len(Script) >= 2 BY <2>5, <1>4
  <2> QED BY <2>2, <2>3, <2>5, <2>6
<1>7. conn.kind # "socks5" => Handshake = <<>> BY DEF Handshake
<1> QED BY <1>2, <1>3, <1>5, <1>6, <1>7

(* The decoder of each channel type asks for as many fields as the open    *)
(* message of that type has.                                               *)
LEMMA FieldsMatch ==
  ASSUME conn \in Conns
  PROVE  /\ OpenMessage \in Seq(Token) /\ DecodedTypes \in Seq({"varint", "string"})
         /\ Len(OpenMessage) = Len(DecodedTypes)
<1>1. conn.port \in Literals BY DEF Conns, Literals
<1>2. \A w \in Literals : w \in Token BY Payloads
<1>3. /\ conn.port \in Token /\ "max" \in Token /\ "type" \in Token /\ "host" \in Token
      /\ "port" \in Token /\ "path" \in Token /\ "reserved" \in Token /\ "zero" \in Token
  BY <1>1, <1>2 DEF Literals
<1>4. Header \in Seq(Token) /\ Len(Header) = 2 BY <1>3 DEF Header
<1>5. AcceptTypes \in Seq({"varint", "string"}) /\ Len(AcceptTypes) = 2 BY DEF AcceptTypes
<1>6. ASSUME NEW f \in Seq(Token), NEW t \in Seq({"varint", "string"}), Len(f) = Len(t),
             OpenMessage = Header \o f, DecodedTypes = AcceptTypes \o t
      PROVE  /\ OpenMessage \in Seq(Token) /\ DecodedTypes \in Seq({"varint", "string"})
             /\ Len(OpenMessage) = Len(DecodedTypes)
  <2>1. Header \o f \in Seq(Token) /\ Len(Header \o f) = 2 + Len(f)
    BY <1>4, Joined
  <2>2. AcceptTypes \o t \in Seq({"varint", "string"}) /\ Len(AcceptTypes \o t) = 2 + Len(t)
    BY <1>5, Joined
  <2> QED BY <1>6, <2>1, <2>2
<1>7. conn.kind \in {"direct-tcpip", "direct-streamlocal", "socks5",
                     "forwarded-tcpip", "forwarded-streamlocal"}
  BY RelayAssumption DEF Conns
<1>8. CASE conn.kind = "direct-tcpip"
  <2>1. /\ DirectTcpipFields \in Seq(Token) /\ DirectTcpipTypes \in Seq({"varint", "string"})
        /\ Len(DirectTcpipFields) = Len(DirectTcpipTypes)
    BY <1>3 DEF DirectTcpipFields, DirectTcpipTypes
  <2>2. OpenMessage = Header \o DirectTcpipFields /\ DecodedTypes = AcceptTypes \o DirectTcpipTypes
    BY <1>8 DEF OpenMessage, DecodedTypes
  <2> QED BY <1>6, <2>1, <2>2
<1>9. CASE conn.kind = "direct-streamlocal"
  <2>1. /\ DirectStreamlocalFields \in Seq(Token)
        /\ DirectStreamlocalTypes \in Seq({"varint", "string"})
        /\ Len(DirectStreamlocalFields) = Len(DirectStreamlocalTypes)
    BY <1>3 DEF DirectStreamlocalFields, DirectStreamlocalTypes
  <2>2. /\ OpenMessage = Header \o DirectStreamlocalFields
        /\ DecodedTypes = AcceptTypes \o DirectStreamlocalTypes
    BY <1>9 DEF OpenMessage, DecodedTypes
  <2> QED BY <1>6, <2>1, <2>2
<1>10. CASE conn.kind = "forwarded-tcpip"
  <2>1. /\ ForwardedTcpipFields \in Seq(Token)
        /\ ForwardedTcpipTypes \in Seq({"varint", "string"})
        /\ Len(ForwardedTcpipFields) = Len(ForwardedTcpipTypes)
    BY <1>3 DEF ForwardedTcpipFields, ForwardedTcpipTypes
  <2>2. /\ OpenMessage = Header \o ForwardedTcpipFields
        /\ DecodedTypes = AcceptTypes \o ForwardedTcpipTypes
    BY <1>10 DEF OpenMessage, DecodedTypes
  <2> QED BY <1>6, <2>1, <2>2
<1>11. CASE conn.kind = "forwarded-streamlocal"
  <2>1. /\ ForwardedStreamlocalFields \in Seq(Token)
        /\ ForwardedStreamlocalTypes \in Seq({"varint", "string"})
        /\ Len(ForwardedStreamlocalFields) = Len(ForwardedStreamlocalTypes)
    BY <1>3 DEF ForwardedStreamlocalFields, ForwardedStreamlocalTypes
  <2>2. /\ OpenMessage = Header \o ForwardedStreamlocalFields
        /\ DecodedTypes = AcceptTypes \o ForwardedStreamlocalTypes
    BY <1>11 DEF OpenMessage, DecodedTypes
  <2> QED BY <1>6, <2>1, <2>2
<1>12. CASE conn.kind = "socks5"
  <2>1. <<>> \in Seq(Token) /\ <<>> \in Seq({"varint", "string"}) BY EmptySeq
  <2>2. OpenMessage = Header \o <<>> /\ DecodedTypes = AcceptTypes \o <<>>
    BY <1>12 DEF OpenMessage, DecodedTypes
  <2> QED BY <1>6, <2>1, <2>2
<1> QED BY <1>7, <1>8, <1>9, <1>10, <1>11, <1>12

(* q has the data of pp; the pipes ps of q end as those of pp do; pipe p   *)
(* ends in q, if it is open in pp, in one of the ways hows - or may.       *)
SameData(pp, q) == \A r \in Pipes : q[r].data = pp[r].data
SameEnds(pp, q, ps) == \A r \in ps : q[r].end = pp[r].end
Closes(pp, q, p, hows) ==
  IF pp[p].end = "open" THEN q[p].end \in hows ELSE q[p].end = pp[p].end
MayClose(pp, q, p, hows) ==
  q[p].end = pp[p].end \/ (pp[p].end = "open" /\ q[p].end \in hows)

LEMMA PipeFields ==
  ASSUME NEW pp \in PipeStates, NEW p \in Pipes
  PROVE  pp[p].data \in Seq(Token) /\ pp[p].end \in Ends
BY DEF PipeStates

LEMMA PutPipe ==
  ASSUME NEW pp \in PipeStates, NEW p \in Pipes, NEW w \in Seq(Token)
  PROVE  /\ Put(pp, p, w) \in PipeStates
         /\ SameEnds(pp, Put(pp, p, w), Pipes)
         /\ Put(pp, p, w)[p].data = pp[p].data \o w
         /\ \A r \in Pipes \ {p} : Put(pp, p, w)[r].data = pp[r].data
<1>1. pp[p].data \o w \in Seq(Token) BY PipeFields, Joined
<1> QED BY <1>1 DEF Put, PipeStates, SameEnds

(* The head of a pipe, or all of it but its confirmation, is taken out. *)
LEMMA TakePipe ==
  ASSUME NEW pp \in PipeStates, NEW p \in Pipes, NEW w \in Seq(Token)
  PROVE  LET q == [pp EXCEPT ![p].data = w]
         IN  /\ q \in PipeStates
             /\ SameEnds(pp, q, Pipes)
             /\ q[p].data = w
             /\ \A r \in Pipes \ {p} : q[r].data = pp[r].data
BY DEF PipeStates, SameEnds

LEMMA ClosePipe ==
  ASSUME NEW pp \in PipeStates, NEW p \in Pipes, NEW how \in {"fin", "reset"}
  PROVE  /\ Close(pp, p, how) \in PipeStates
         /\ SameData(pp, Close(pp, p, how))
         /\ SameEnds(pp, Close(pp, p, how), Pipes \ {p})
         /\ Closes(pp, Close(pp, p, how), p, {how})
BY DEF Close, PipeStates, Ends, SameData, SameEnds, Closes

LEMMA PipeNames ==
  /\ {"localUp", "chanUp", "targetUp", "targetDown", "chanDown", "localDown"} = Pipes
  /\ ChannelPipes = {"chanUp", "chanDown"}
  /\ "fin" \in {"fin", "reset"} /\ "reset" \in {"fin", "reset"}
BY DEF Pipes, ChannelPipes

LEMMA DropWriterPipe ==
  ASSUME NEW pp \in PipeStates, NEW p \in Pipes, NEW q \in DropWriter(pp, p)
  PROVE  /\ q \in PipeStates
         /\ SameData(pp, q)
         /\ SameEnds(pp, q, Pipes \ {p})
         /\ Closes(pp, q, p, {"fin", "reset"})
         /\ p \notin ChannelPipes => Closes(pp, q, p, {"fin"})
<1>1. q \in {Close(pp, p, "fin"), Close(pp, p, "reset")} BY DEF DropWriter
<1>2. p \notin ChannelPipes => q = Close(pp, p, "fin") BY DEF DropWriter
<1>3. PICK how \in {"fin", "reset"} : q = Close(pp, p, how) BY <1>1
<1>4. /\ q \in PipeStates /\ SameData(pp, q) /\ SameEnds(pp, q, Pipes \ {p})
      /\ Closes(pp, q, p, {how})
  BY <1>3, ClosePipe
<1>5. Closes(pp, q, p, {"fin", "reset"}) BY <1>4 DEF Closes
<1>6. p \notin ChannelPipes => Closes(pp, q, p, {"fin"}) BY <1>2, ClosePipe, PipeNames
<1> QED BY <1>4, <1>5, <1>6

LEMMA DropReaderPipe ==
  ASSUME NEW pp \in PipeStates, NEW p \in Pipes
  PROVE  /\ DropReader(pp, p) \in PipeStates
         /\ SameData(pp, DropReader(pp, p))
         /\ SameEnds(pp, DropReader(pp, p), Pipes \ {p})
         /\ p \in ChannelPipes => Closes(pp, DropReader(pp, p), p, {"reset"})
         /\ p \notin ChannelPipes => DropReader(pp, p) = pp
<1>1. CASE p \in ChannelPipes
  <2>1. DropReader(pp, p) = Close(pp, p, "reset") BY <1>1 DEF DropReader
  <2> QED BY <1>1, <2>1, ClosePipe, PipeNames
<1>2. CASE p \notin ChannelPipes
  <2>1. DropReader(pp, p) = pp BY <1>2 DEF DropReader
  <2> QED BY <1>2, <2>1 DEF SameData, SameEnds
<1> QED BY <1>1, <1>2

LEMMA NearLetsGoPipes ==
  ASSUME NEW pp \in PipeStates, NEW q \in NearLetsGo(pp)
  PROVE  /\ q \in PipeStates
         /\ SameData(pp, q)
         /\ SameEnds(pp, q, {"localUp", "targetUp", "targetDown"})
         /\ Closes(pp, q, "chanUp", {"fin", "reset"})
         /\ Closes(pp, q, "chanDown", {"reset"})
         /\ Closes(pp, q, "localDown", {"fin"})
<1> DEFINE a == DropReader(pp, "chanDown")
           b == Close(a, "localDown", "fin")
<1>1. q \in DropWriter(b, "chanUp") BY DEF NearLetsGo
<1>2. /\ a \in PipeStates /\ SameData(pp, a) /\ SameEnds(pp, a, Pipes \ {"chanDown"})
      /\ Closes(pp, a, "chanDown", {"reset"})
  BY DropReaderPipe, PipeNames
<1>3. /\ b \in PipeStates /\ SameData(a, b) /\ SameEnds(a, b, Pipes \ {"localDown"})
      /\ Closes(a, b, "localDown", {"fin"})
  <2> HIDE DEF a
  <2> QED BY <1>2, ClosePipe, PipeNames
<1> HIDE DEF a, b
<1>4. /\ q \in PipeStates /\ SameData(b, q) /\ SameEnds(b, q, Pipes \ {"chanUp"})
      /\ Closes(b, q, "chanUp", {"fin", "reset"})
  BY <1>1, <1>3, DropWriterPipe, PipeNames
<1>5. SameData(pp, q) BY <1>2, <1>3, <1>4 DEF SameData
<1> QED BY <1>2, <1>3, <1>4, <1>5 DEF SameEnds, Closes, Pipes

LEMMA FarLetsGoPipes ==
  ASSUME NEW pp \in PipeStates, NEW q \in FarLetsGo(pp)
  PROVE  /\ q \in PipeStates
         /\ SameData(pp, q)
         /\ SameEnds(pp, q, {"localUp", "targetUp", "targetDown", "localDown"})
         /\ Closes(pp, q, "chanUp", {"reset"})
         /\ Closes(pp, q, "chanDown", {"fin", "reset"})
<1> DEFINE a == DropReader(pp, "chanUp")
<1>1. q \in DropWriter(a, "chanDown") BY DEF FarLetsGo
<1>2. /\ a \in PipeStates /\ SameData(pp, a) /\ SameEnds(pp, a, Pipes \ {"chanUp"})
      /\ Closes(pp, a, "chanUp", {"reset"})
  BY DropReaderPipe, PipeNames
<1> HIDE DEF a
<1>3. /\ q \in PipeStates /\ SameData(a, q) /\ SameEnds(a, q, Pipes \ {"chanDown"})
      /\ Closes(a, q, "chanDown", {"fin", "reset"})
  BY <1>1, <1>2, DropWriterPipe, PipeNames
<1>4. SameData(pp, q) BY <1>2, <1>3 DEF SameData
<1> QED BY <1>2, <1>3, <1>4 DEF SameEnds, Closes, Pipes

(* A reply and the shutdown behind it, at the end of a negotiation. *)
LEMMA LastReplyPipes ==
  ASSUME NEW pp \in PipeStates
  PROVE  LET q == DropReader(Close(pp, "chanDown", "fin"), "chanUp")
         IN  /\ q \in PipeStates
             /\ SameData(pp, q)
             /\ SameEnds(pp, q, {"localUp", "targetUp", "targetDown", "localDown"})
             /\ Closes(pp, q, "chanUp", {"reset"})
             /\ Closes(pp, q, "chanDown", {"fin", "reset"})
<1> DEFINE a == Close(pp, "chanDown", "fin")
           q == DropReader(a, "chanUp")
<1>2. /\ a \in PipeStates /\ SameData(pp, a) /\ SameEnds(pp, a, Pipes \ {"chanDown"})
      /\ Closes(pp, a, "chanDown", {"fin"})
  BY ClosePipe, PipeNames
<1> HIDE DEF a
<1>3. /\ q \in PipeStates /\ SameData(a, q) /\ SameEnds(a, q, Pipes \ {"chanUp"})
      /\ Closes(a, q, "chanUp", {"reset"})
  BY <1>2, DropReaderPipe, PipeNames
<1> HIDE DEF q
<1>4. SameData(pp, q) BY <1>2, <1>3 DEF SameData
<1>5. /\ SameEnds(pp, q, {"localUp", "targetUp", "targetDown", "localDown"})
      /\ Closes(pp, q, "chanUp", {"reset"}) /\ Closes(pp, q, "chanDown", {"fin", "reset"})
  BY <1>2, <1>3, <1>4 DEF SameEnds, Closes, Pipes
<1> QED BY <1>3, <1>4, <1>5 DEF q, a

(* The socket of a forwarded connection behind its last half. *)
LEMMA SocketAfterPipes ==
  ASSUME NEW pp \in PipeStates, NEW c
  PROVE  LET q == SocketAfter(pp, c)
         IN  /\ q \in PipeStates /\ SameData(pp, q)
             /\ SameEnds(pp, q, Pipes \ {"localDown"})
             /\ MayClose(pp, q, "localDown", {"fin"})
             /\ ~LastHalf(c) => q = pp
<1>1. CASE LastHalf(c)
  <2>1. SocketAfter(pp, c) = Close(pp, "localDown", "fin") BY <1>1 DEF SocketAfter
  <2>2. /\ Close(pp, "localDown", "fin") \in PipeStates
        /\ SameData(pp, Close(pp, "localDown", "fin"))
        /\ SameEnds(pp, Close(pp, "localDown", "fin"), Pipes \ {"localDown"})
        /\ Closes(pp, Close(pp, "localDown", "fin"), "localDown", {"fin"})
    BY ClosePipe, PipeNames
  <2>3. MayClose(pp, Close(pp, "localDown", "fin"), "localDown", {"fin"})
    BY <2>2 DEF Closes, MayClose
  <2> QED BY <1>1, <2>1, <2>2, <2>3
<1>2. CASE ~LastHalf(c)
  <2>1. SocketAfter(pp, c) = pp BY <1>2 DEF SocketAfter
  <2> QED BY <2>1 DEF SameData, SameEnds, MayClose
<1> QED BY <1>1, <1>2

LEMMA Ways ==
  /\ Src("near_up") = "localUp" /\ Dst("near_up") = "chanUp"
  /\ Src("far_up") = "chanUp" /\ Dst("far_up") = "targetUp"
  /\ Src("far_down") = "targetDown" /\ Dst("far_down") = "chanDown"
  /\ Src("near_down") = "chanDown" /\ Dst("near_down") = "localDown"
BY DEF Src, Dst

(* Where a relay that is dropped can leave the pipes. *)
LEMMA DroppedPipes ==
  ASSUME TypeInv, NEW c \in Copiers, NEW q \in Dropped(c)
  PROVE  /\ q \in PipeStates /\ SameData(pipe, q)
         /\ c = "near_up" => /\ SameEnds(pipe, q, Pipes \ {"chanUp", "localDown"})
                             /\ MayClose(pipe, q, "chanUp", {"fin", "reset"})
                             /\ MayClose(pipe, q, "localDown", {"fin"})
                             /\ ~LastHalf(c) => q["localDown"].end = pipe["localDown"].end
         /\ c = "near_down" => /\ SameEnds(pipe, q, Pipes \ {"chanDown", "localDown"})
                               /\ MayClose(pipe, q, "chanDown", {"reset"})
                               /\ MayClose(pipe, q, "localDown", {"fin"})
         /\ c = "far_up" => /\ SameEnds(pipe, q, Pipes \ {"chanUp", "targetUp"})
                            /\ MayClose(pipe, q, "chanUp", {"reset"})
                            /\ MayClose(pipe, q, "targetUp", {"fin"})
         /\ c = "far_down" => /\ SameEnds(pipe, q, Pipes \ {"chanDown"})
                              /\ MayClose(pipe, q, "chanDown", {"fin", "reset"})
<1> DEFINE a == DropReader(pipe, Src(c))
<1>1. pipe \in PipeStates /\ Src(c) \in Pipes /\ Dst(c) \in Pipes
  BY Ways, PipeNames DEF TypeInv, Copiers
<1>2. /\ a \in PipeStates /\ SameData(pipe, a) /\ SameEnds(pipe, a, Pipes \ {Src(c)})
      /\ Src(c) \in ChannelPipes => Closes(pipe, a, Src(c), {"reset"})
      /\ Src(c) \notin ChannelPipes => a = pipe
  BY <1>1, DropReaderPipe
<1>3. PICK b \in PipeStates :
        /\ q = SocketAfter(b, c) /\ SameData(a, b) /\ SameEnds(a, b, Pipes \ {Dst(c)})
        /\ MayClose(a, b, Dst(c), {"fin", "reset"})
        /\ Dst(c) \notin ChannelPipes => MayClose(a, b, Dst(c), {"fin"})
  <2>1. CASE Split(c) /\ Dst(c) = "localDown"
    <3>1. q = SocketAfter(a, c) BY <2>1 DEF Dropped
    <3>2. SameData(a, a) /\ SameEnds(a, a, Pipes \ {Dst(c)})
          /\ MayClose(a, a, Dst(c), {"fin", "reset"}) /\ MayClose(a, a, Dst(c), {"fin"})
      BY DEF SameData, SameEnds, MayClose
    <3> HIDE DEF a
    <3> QED BY <1>2, <3>1, <3>2
  <2>2. CASE ~(Split(c) /\ Dst(c) = "localDown")
    <3>1. PICK b \in DropWriter(a, Dst(c)) : q = SocketAfter(b, c) BY <2>2 DEF Dropped
    <3> HIDE DEF a
    <3>2. /\ b \in PipeStates /\ SameData(a, b) /\ SameEnds(a, b, Pipes \ {Dst(c)})
          /\ Closes(a, b, Dst(c), {"fin", "reset"})
          /\ Dst(c) \notin ChannelPipes => Closes(a, b, Dst(c), {"fin"})
      BY <1>1, <1>2, DropWriterPipe
    <3>3. /\ MayClose(a, b, Dst(c), {"fin", "reset"})
          /\ Dst(c) \notin ChannelPipes => MayClose(a, b, Dst(c), {"fin"})
      BY <3>2 DEF Closes, MayClose
    <3> QED BY <3>1, <3>2, <3>3
  <2> QED BY <2>1, <2>2
<1> HIDE DEF a
<1>4. /\ q \in PipeStates /\ SameData(b, q) /\ SameEnds(b, q, Pipes \ {"localDown"})
      /\ MayClose(b, q, "localDown", {"fin"}) /\ (~LastHalf(c) => q = b)
  BY <1>3, SocketAfterPipes
<1>5. SameData(pipe, q) BY <1>2, <1>3, <1>4 DEF SameData
<1>6. ASSUME c = "near_up"
      PROVE  /\ SameEnds(pipe, q, Pipes \ {"chanUp", "localDown"})
             /\ MayClose(pipe, q, "chanUp", {"fin", "reset"})
             /\ MayClose(pipe, q, "localDown", {"fin"})
             /\ ~LastHalf(c) => q["localDown"].end = pipe["localDown"].end
  <2>1. a = pipe /\ Dst(c) = "chanUp" BY <1>2, <1>6, Ways, PipeNames
  <2> QED BY <2>1, <1>3, <1>4 DEF SameEnds, MayClose, Pipes
<1>7. ASSUME c = "near_down"
      PROVE  /\ SameEnds(pipe, q, Pipes \ {"chanDown", "localDown"})
             /\ MayClose(pipe, q, "chanDown", {"reset"})
             /\ MayClose(pipe, q, "localDown", {"fin"})
  <2>1. /\ SameEnds(pipe, a, Pipes \ {"chanDown"}) /\ Closes(pipe, a, "chanDown", {"reset"})
        /\ SameEnds(a, b, Pipes \ {"localDown"}) /\ MayClose(a, b, "localDown", {"fin"})
    BY <1>2, <1>3, <1>7, Ways, PipeNames
  <2> QED BY <2>1, <1>4 DEF SameEnds, MayClose, Closes, Pipes
<1>8. ASSUME c \in FarCopiers PROVE q = b
  BY <1>4, <1>8 DEF LastHalf, Split, NearCopiers, FarCopiers
<1>9. ASSUME c = "far_up"
      PROVE  /\ SameEnds(pipe, q, Pipes \ {"chanUp", "targetUp"})
             /\ MayClose(pipe, q, "chanUp", {"reset"})
             /\ MayClose(pipe, q, "targetUp", {"fin"})
  <2>1. q = b BY <1>8, <1>9 DEF FarCopiers
  <2>2. /\ SameEnds(pipe, a, Pipes \ {"chanUp"}) /\ Closes(pipe, a, "chanUp", {"reset"})
        /\ SameEnds(a, b, Pipes \ {"targetUp"}) /\ MayClose(a, b, "targetUp", {"fin"})
    BY <1>2, <1>3, <1>9, Ways, PipeNames
  <2> QED BY <2>1, <2>2 DEF SameEnds, MayClose, Closes, Pipes
<1>10. ASSUME c = "far_down"
       PROVE  /\ SameEnds(pipe, q, Pipes \ {"chanDown"})
              /\ MayClose(pipe, q, "chanDown", {"fin", "reset"})
  <2>1. q = b BY <1>8, <1>10 DEF FarCopiers
  <2>2. a = pipe /\ Dst(c) = "chanDown" BY <1>2, <1>10, Ways, PipeNames
  <2> QED BY <2>1, <2>2, <1>3
<1> QED BY <1>4, <1>5, <1>6, <1>7, <1>9, <1>10

-----------------------------------------------------------------------------
(* What each action does to the pipes. *)

(* Of the data, only that of p changes, to w. *)
OnlyData(pp, q, p, w) == q[p].data = w /\ \A r \in Pipes \ {p} : q[r].data = pp[r].data

LEMMA PipeTypes ==
  ASSUME TypeInv
  PROVE  \A p \in Pipes : Data(p) \in Seq(Token) /\ End(p) \in Ends
BY PipeFields DEF TypeInv, Data, End

LEMMA PutEffect ==
  ASSUME TypeInv, NEW p \in Pipes, NEW w \in Seq(Token), pipe' = Put(pipe, p, w)
  PROVE  /\ pipe' \in PipeStates /\ SameEnds(pipe, pipe', Pipes)
         /\ OnlyData(pipe, pipe', p, Data(p) \o w)
<1>1. pipe \in PipeStates BY DEF TypeInv
<1> QED BY <1>1, PutPipe DEF OnlyData, Data

LEMMA NearOpenPipes ==
  ASSUME TypeInv, NearOpen
  PROVE  /\ pipe' \in PipeStates /\ SameEnds(pipe, pipe', Pipes)
         /\ OnlyData(pipe, pipe', "chanUp", Data("chanUp") \o OpenMessage)
<1>1. OpenMessage \in Seq(Token) BY FieldsMatch DEF TypeInv
<1>2. pipe' = Put(pipe, "chanUp", OpenMessage) BY DEF NearOpen
<1> QED BY <1>1, <1>2, PutEffect, PipeNames

LEMMA NearConfirmedPipes ==
  ASSUME TypeInv, NearConfirmed
  PROVE  /\ pipe' \in PipeStates /\ SameEnds(pipe, pipe', Pipes)
         /\ OnlyData(pipe, pipe', "chanDown", SubSeq(Data("chanDown"), 3, Len(Data("chanDown"))))
         /\ Data("chanDown") = Confirmation \o Data("chanDown")'
<1> DEFINE d == Data("chanDown")
           w == SubSeq(d, 3, Len(d))
<1>1. pipe \in PipeStates /\ "chanDown" \in Pipes BY PipeNames DEF TypeInv
<1>2. d \in Seq(Token) BY PipeTypes, <1>1
<1>3. IsPrefix(Confirmation, d) BY DEF NearConfirmed, Data
<1>4. pipe' = [pipe EXCEPT !["chanDown"].data = w] BY DEF NearConfirmed, Data
<1>5. Confirmation \in Seq(Token) /\ Len(Confirmation) = 2 BY AnswerTokens
<1>6. w \in Seq(Token) /\ d = Confirmation \o w
  <2> HIDE DEF d
  <2> QED BY <1>2, <1>3, <1>5, TwoOff
<1> HIDE DEF w
<1>8. /\ pipe' \in PipeStates /\ SameEnds(pipe, pipe', Pipes) /\ OnlyData(pipe, pipe', "chanDown", w)
  <2>1. LET q == [pipe EXCEPT !["chanDown"].data = w]
        IN  /\ q \in PipeStates /\ SameEnds(pipe, q, Pipes) /\ q["chanDown"].data = w
            /\ \A r \in Pipes \ {"chanDown"} : q[r].data = pipe[r].data
    BY <1>1, <1>6, TakePipe
  <2> QED BY <1>4, <2>1 DEF OnlyData
<1>9. Data("chanDown")' = w BY <1>8 DEF OnlyData, Data
<1> QED BY <1>6, <1>8, <1>9 DEF w

LEMMA FarDecodePipes ==
  ASSUME TypeInv, FarDecode
  PROVE  /\ pipe' \in PipeStates /\ SameEnds(pipe, pipe', Pipes)
         /\ OnlyData(pipe, pipe', "chanUp", Tail(Data("chanUp")))
<1>1. pipe \in PipeStates /\ "chanUp" \in Pipes BY PipeNames DEF TypeInv
<1>2. Data("chanUp") # <<>> BY DEF FarDecode, Data
<1> DEFINE w == Tail(Data("chanUp"))
           q == [pipe EXCEPT !["chanUp"].data = w]
<1>3. w \in Seq(Token) BY <1>1, <1>2, PipeTypes, HeadAndTail
<1>4. pipe' = q BY DEF FarDecode, Data
<1>5. /\ q \in PipeStates /\ SameEnds(pipe, q, Pipes) /\ q["chanUp"].data = w
      /\ \A r \in Pipes \ {"chanUp"} : q[r].data = pipe[r].data
  <2> HIDE DEF w
  <2> QED BY <1>1, <1>3, TakePipe
<1> HIDE DEF q
<1> QED BY <1>4, <1>5 DEF OnlyData

(* The ends of the channel when the far handler lets it go. *)
FarClosed ==
  /\ SameEnds(pipe, pipe', {"localUp", "targetUp", "targetDown", "localDown"})
  /\ Closes(pipe, pipe', "chanUp", {"reset"})
  /\ Closes(pipe, pipe', "chanDown", {"fin", "reset"})

LEMMA FarLetsGoEffect ==
  ASSUME TypeInv, pipe' \in FarLetsGo(pipe)
  PROVE  pipe' \in PipeStates /\ SameData(pipe, pipe') /\ FarClosed
<1>1. pipe \in PipeStates BY DEF TypeInv
<1> QED BY <1>1, FarLetsGoPipes DEF FarClosed

(* The same behind a change of data that leaves the ends alone. *)
LEMMA FarLetsGoAfter ==
  ASSUME NEW pp \in PipeStates, SameEnds(pipe, pp, Pipes),
         pipe' \in FarLetsGo(pp) \/ pipe' = DropReader(Close(pp, "chanDown", "fin"), "chanUp")
  PROVE  pipe' \in PipeStates /\ SameData(pp, pipe') /\ FarClosed
<1>1. /\ pipe' \in PipeStates /\ SameData(pp, pipe')
      /\ SameEnds(pp, pipe', {"localUp", "targetUp", "targetDown", "localDown"})
      /\ Closes(pp, pipe', "chanUp", {"reset"})
      /\ Closes(pp, pipe', "chanDown", {"fin", "reset"})
  BY FarLetsGoPipes, LastReplyPipes
<1> QED BY <1>1 DEF FarClosed, SameEnds, Closes, Pipes

LEMMA FarRejectPipes ==
  ASSUME TypeInv, FarReject
  PROVE  /\ pipe' \in PipeStates /\ FarClosed
         /\ \/ SameData(pipe, pipe')
            \/ /\ End("chanDown") = "open"
               /\ OnlyData(pipe, pipe', "chanDown", Data("chanDown") \o Failure)
<1>1. pipe \in PipeStates /\ "chanDown" \in Pipes /\ Failure \in Seq(Token)
  BY PipeNames, AnswerTokens DEF TypeInv
<1>2. CASE End("chanDown") = "open"
  <2> DEFINE pp == Put(pipe, "chanDown", Failure)
  <2>1. /\ pp \in PipeStates /\ SameEnds(pipe, pp, Pipes)
        /\ pp["chanDown"].data = Data("chanDown") \o Failure
        /\ \A r \in Pipes \ {"chanDown"} : pp[r].data = pipe[r].data
    BY <1>1, PutPipe DEF Data
  <2>2. pipe' \in FarLetsGo(pp) BY <1>2 DEF FarReject, End
  <2> HIDE DEF pp
  <2>3. pipe' \in PipeStates /\ SameData(pp, pipe') /\ FarClosed
    BY <2>1, <2>2, FarLetsGoAfter
  <2>4. OnlyData(pipe, pipe', "chanDown", Data("chanDown") \o Failure)
    BY <1>1, <2>1, <2>3 DEF OnlyData, SameData
  <2> QED BY <1>2, <2>3, <2>4
<1>3. CASE End("chanDown") # "open"
  <2>1. pipe' \in FarLetsGo(pipe) BY <1>3 DEF FarReject, End
  <2> QED BY <2>1, FarLetsGoEffect
<1> QED BY <1>2, <1>3

(* A message of the negotiation: read, and answered or not. *)
LEMMA Socks5StepPipes ==
  ASSUME TypeInv, NEW from, NEW reply \in Seq(Token), NEW to, Socks5Step(from, reply, to)
  PROVE  /\ pipe' \in PipeStates /\ Data("chanUp") # <<>>
         /\ pipe'["chanUp"].data = Tail(Data("chanUp"))
         /\ \A r \in Pipes \ {"chanUp", "chanDown"} : pipe'[r].data = pipe[r].data
         /\ \/ /\ to # "done" /\ far' = to /\ End("chanDown") = "open"
               /\ pipe'["chanDown"].data = Data("chanDown") \o reply
               /\ SameEnds(pipe, pipe', Pipes)
            \/ /\ far' = "done" /\ FarClosed
               /\ \/ pipe'["chanDown"].data = Data("chanDown")
                  \/ /\ to = "done" /\ End("chanDown") = "open"
                     /\ pipe'["chanDown"].data = Data("chanDown") \o reply
<1>1. pipe \in PipeStates /\ "chanUp" \in Pipes /\ "chanDown" \in Pipes
  BY PipeNames DEF TypeInv
<1>2. Data("chanUp") # <<>> BY DEF Socks5Step, Data
<1> DEFINE w == Tail(Data("chanUp"))
           t == [pipe EXCEPT !["chanUp"].data = w]
<1>3. w \in Seq(Token) BY <1>1, <1>2, PipeTypes, HeadAndTail
<1>4. /\ t \in PipeStates /\ SameEnds(pipe, t, Pipes) /\ t["chanUp"].data = w
      /\ \A r \in Pipes \ {"chanUp"} : t[r].data = pipe[r].data
  <2> HIDE DEF w
  <2> QED BY <1>1, <1>3, TakePipe
<1> DEFINE u == Put(t, "chanDown", reply)
<1>5. \/ /\ End("chanDown") = "open"
         /\ pipe' \in IF to # "done" THEN {u}
                      ELSE IF reply = <<>> THEN FarLetsGo(t)
                      ELSE {DropReader(Close(u, "chanDown", "fin"), "chanUp")}
         /\ far' = to
      \/ /\ End("chanDown") # "open"
         /\ pipe' \in FarLetsGo(t)
         /\ far' = "done"
  BY DEF Socks5Step, Data, End
<1> HIDE DEF w, t
<1>6. /\ u \in PipeStates /\ SameEnds(t, u, Pipes)
      /\ u["chanDown"].data = t["chanDown"].data \o reply
      /\ \A r \in Pipes \ {"chanDown"} : u[r].data = t[r].data
  BY <1>1, <1>4, PutPipe
<1> HIDE DEF u
<1>7. SameEnds(pipe, u, Pipes) BY <1>4, <1>6 DEF SameEnds
<1>8. "chanUp" # "chanDown" OBVIOUS
<1>9. u["chanDown"].data = Data("chanDown") \o reply /\ u["chanUp"].data = w
      /\ \A r \in Pipes \ {"chanUp", "chanDown"} : u[r].data = pipe[r].data
  BY <1>1, <1>4, <1>6, <1>8 DEF Data
<1>10. CASE to # "done" /\ pipe' = u /\ far' = to /\ End("chanDown") = "open"
  BY <1>2, <1>6, <1>7, <1>9, <1>10 DEF w
<1>11. CASE pipe' \in FarLetsGo(t) /\ far' = "done"
  <2>1. pipe' \in PipeStates /\ SameData(t, pipe') /\ FarClosed
    BY <1>4, <1>11, FarLetsGoAfter
  <2>2. pipe'["chanDown"].data = Data("chanDown") /\ pipe'["chanUp"].data = w
        /\ \A r \in Pipes \ {"chanUp", "chanDown"} : pipe'[r].data = pipe[r].data
    BY <1>1, <1>4, <1>8, <2>1 DEF Data, SameData
  <2> QED BY <1>2, <1>11, <2>1, <2>2 DEF w
<1>12. CASE /\ to = "done" /\ far' = to /\ End("chanDown") = "open"
            /\ pipe' = DropReader(Close(u, "chanDown", "fin"), "chanUp")
  <2>1. pipe' \in PipeStates /\ SameData(u, pipe') /\ FarClosed
    BY <1>6, <1>7, <1>12, FarLetsGoAfter
  <2>2. pipe'["chanDown"].data = Data("chanDown") \o reply /\ pipe'["chanUp"].data = w
        /\ \A r \in Pipes \ {"chanUp", "chanDown"} : pipe'[r].data = pipe[r].data
    BY <1>1, <1>9, <2>1 DEF SameData
  <2> QED BY <1>2, <1>12, <2>1, <2>2 DEF w
<1> QED BY <1>5, <1>10, <1>11, <1>12

LEMMA Socks5ConnectFailsPipes ==
  ASSUME TypeInv, Socks5ConnectFails
  PROVE  /\ pipe' \in PipeStates /\ FarClosed
         /\ \/ SameData(pipe, pipe')
            \/ /\ End("chanDown") = "open"
               /\ OnlyData(pipe, pipe', "chanDown", Data("chanDown") \o <<"refused">>)
<1> DEFINE w == <<"refused">>
<1>1. pipe \in PipeStates /\ "chanDown" \in Pipes /\ w \in Seq(Token)
  BY PipeNames, AnswerTokens DEF TypeInv
<1>2. CASE End("chanDown") = "open"
  <2> DEFINE pp == Put(pipe, "chanDown", w)
  <2>2. pipe' = DropReader(Close(pp, "chanDown", "fin"), "chanUp")
    BY <1>2 DEF Socks5ConnectFails, End
  <2> HIDE DEF w
  <2>1. /\ pp \in PipeStates /\ SameEnds(pipe, pp, Pipes)
        /\ pp["chanDown"].data = Data("chanDown") \o w
        /\ \A r \in Pipes \ {"chanDown"} : pp[r].data = pipe[r].data
    BY <1>1, PutPipe DEF Data
  <2> HIDE DEF pp
  <2>3. pipe' \in PipeStates /\ SameData(pp, pipe') /\ FarClosed
    BY <2>1, <2>2, FarLetsGoAfter
  <2>4. OnlyData(pipe, pipe', "chanDown", Data("chanDown") \o w)
    BY <1>1, <2>1, <2>3 DEF OnlyData, SameData
  <2> QED BY <1>2, <2>3, <2>4 DEF w
<1>3. CASE End("chanDown") # "open"
  <2>1. pipe' \in FarLetsGo(pipe) BY <1>3 DEF Socks5ConnectFails, End
  <2> QED BY <2>1, FarLetsGoEffect
<1> QED BY <1>2, <1>3

(* The ends when the near handler lets the channel and its client go. *)
NearClosed ==
  /\ SameEnds(pipe, pipe', {"localUp", "targetUp", "targetDown"})
  /\ Closes(pipe, pipe', "chanUp", {"fin", "reset"})
  /\ Closes(pipe, pipe', "chanDown", {"reset"})
  /\ Closes(pipe, pipe', "localDown", {"fin"})

LEMMA NearLetsGoEffect ==
  ASSUME TypeInv, pipe' \in NearLetsGo(pipe)
  PROVE  pipe' \in PipeStates /\ SameData(pipe, pipe') /\ NearClosed
<1>1. pipe \in PipeStates BY DEF TypeInv
<1> QED BY <1>1, NearLetsGoPipes DEF NearClosed

LEMMA CopyPipes ==
  ASSUME TypeInv, NEW c \in Copiers, Copy(c)
  PROVE  /\ pipe' \in PipeStates /\ SameEnds(pipe, pipe', Pipes)
         /\ Data(Src(c)) # <<>> /\ End(Dst(c)) = "open"
         /\ pipe'[Src(c)].data = Tail(Data(Src(c)))
         /\ pipe'[Dst(c)].data = Data(Dst(c)) \o <<Head(Data(Src(c)))>>
         /\ \A r \in Pipes \ {Src(c), Dst(c)} : pipe'[r].data = pipe[r].data
<1>1. pipe \in PipeStates /\ Src(c) \in Pipes /\ Dst(c) \in Pipes /\ Src(c) # Dst(c)
  BY Ways, PipeNames DEF TypeInv, Copiers
<1>2. Data(Src(c)) # <<>> /\ End(Dst(c)) = "open" BY DEF Copy, Data, End
<1> DEFINE w == Tail(Data(Src(c)))
           h == <<Head(Data(Src(c)))>>
           t == [pipe EXCEPT ![Src(c)].data = w]
<1>3. w \in Seq(Token) /\ h \in Seq(Token) BY <1>1, <1>2, PipeTypes, HeadAndTail
<1>4. pipe' = Put(t, Dst(c), h) BY DEF Copy, Data
<1> HIDE DEF w, h
<1>5. /\ t \in PipeStates /\ SameEnds(pipe, t, Pipes) /\ t[Src(c)].data = w
      /\ \A r \in Pipes \ {Src(c)} : t[r].data = pipe[r].data
  BY <1>1, <1>3, TakePipe
<1> HIDE DEF t
<1>6. /\ pipe' \in PipeStates /\ SameEnds(t, pipe', Pipes)
      /\ pipe'[Dst(c)].data = t[Dst(c)].data \o h
      /\ \A r \in Pipes \ {Dst(c)} : pipe'[r].data = t[r].data
  BY ZenonT(30), <1>1, <1>3, <1>4, <1>5, PutPipe
<1>7. SameEnds(pipe, pipe', Pipes) BY <1>5, <1>6 DEF SameEnds
<1>8. /\ pipe'[Src(c)].data = w /\ pipe'[Dst(c)].data = Data(Dst(c)) \o h
      /\ \A r \in Pipes \ {Src(c), Dst(c)} : pipe'[r].data = pipe[r].data
  BY <1>1, <1>5, <1>6 DEF Data
<1> QED BY <1>2, <1>6, <1>7, <1>8 DEF w, h

LEMMA CopyEndsPipes ==
  ASSUME TypeInv, NEW c \in Copiers, CopyEnds(c)
  PROVE  /\ pipe' \in PipeStates /\ SameData(pipe, pipe')
         /\ Data(Src(c)) = <<>> /\ End(Src(c)) = "fin" /\ End(Dst(c)) = "open"
         /\ pipe'[Dst(c)].end = "fin"
         /\ SameEnds(pipe, pipe', Pipes \ {Dst(c), "localDown"})
         /\ Dst(c) # "localDown" => MayClose(pipe, pipe', "localDown", {"fin"})
         /\ ~LastHalf(c) => SameEnds(pipe, pipe', Pipes \ {Dst(c)})
<1>1. pipe \in PipeStates /\ Dst(c) \in Pipes /\ "localDown" \in Pipes
  BY Ways, PipeNames DEF TypeInv, Copiers
<1>2. Data(Src(c)) = <<>> /\ End(Src(c)) = "fin" /\ End(Dst(c)) = "open"
  BY DEF CopyEnds, Data, End
<1> DEFINE t == Close(pipe, Dst(c), "fin")
<1>3. pipe' = SocketAfter(t, c) BY DEF CopyEnds
<1>4. /\ t \in PipeStates /\ SameData(pipe, t) /\ SameEnds(pipe, t, Pipes \ {Dst(c)})
      /\ Closes(pipe, t, Dst(c), {"fin"})
  BY <1>1, ClosePipe, PipeNames
<1> HIDE DEF t
<1>5. /\ pipe' \in PipeStates /\ SameData(t, pipe') /\ SameEnds(t, pipe', Pipes \ {"localDown"})
      /\ MayClose(t, pipe', "localDown", {"fin"}) /\ (~LastHalf(c) => pipe' = t)
  BY <1>3, <1>4, SocketAfterPipes
<1>6. SameData(pipe, pipe') BY <1>4, <1>5 DEF SameData
<1>7. t[Dst(c)].end = "fin" BY <1>2, <1>4 DEF Closes, End
<1>8. pipe'[Dst(c)].end = "fin"
  BY <1>1, <1>5, <1>7 DEF SameEnds, MayClose
<1>9. SameEnds(pipe, pipe', Pipes \ {Dst(c), "localDown"}) BY <1>4, <1>5 DEF SameEnds
<1>10. Dst(c) # "localDown" => MayClose(pipe, pipe', "localDown", {"fin"})
  BY <1>1, <1>4, <1>5 DEF SameEnds, MayClose
<1>11. ~LastHalf(c) => SameEnds(pipe, pipe', Pipes \ {Dst(c)}) BY <1>4, <1>5
<1> QED BY <1>2, <1>5, <1>6, <1>8, <1>9, <1>10, <1>11

LEMMA BreakPipes ==
  ASSUME TypeInv, NEW what, NEW ps \in SUBSET Pipes, Break(what, ps)
  PROVE  /\ pipe' \in PipeStates /\ SameData(pipe, pipe')
         /\ SameEnds(pipe, pipe', Pipes \ ps)
         /\ \A p \in ps : Closes(pipe, pipe', p, {"reset"})
         /\ faults' = faults \cup {what}
<1>1. pipe \in PipeStates BY DEF TypeInv
<1>2. faults' = faults \cup {what} BY DEF Break, Fault
<1>3. pipe' = [p \in Pipes |-> IF p \in ps THEN Close(pipe, p, "reset")[p] ELSE pipe[p]]
  BY DEF Break
<1>4. ASSUME NEW p \in Pipes
      PROVE  /\ pipe'[p] \in [data : Seq(Token), end : Ends]
             /\ pipe'[p].data = pipe[p].data
             /\ p \in ps => Closes(pipe, pipe', p, {"reset"})
             /\ p \notin ps => pipe'[p].end = pipe[p].end
  <2>1. /\ Close(pipe, p, "reset") \in PipeStates /\ SameData(pipe, Close(pipe, p, "reset"))
        /\ Closes(pipe, Close(pipe, p, "reset"), p, {"reset"})
    BY <1>1, ClosePipe, PipeNames
  <2>2. CASE p \in ps
    <3>1. pipe'[p] = Close(pipe, p, "reset")[p] BY <1>3, <2>2
    <3> QED BY <2>1, <2>2, <3>1 DEF PipeStates, SameData, Closes
  <2>3. CASE p \notin ps
    <3>1. pipe'[p] = pipe[p] BY <1>3, <2>3
    <3> QED BY <1>1, <2>3, <3>1 DEF PipeStates
  <2> QED BY <2>2, <2>3
<1>5. pipe' \in PipeStates
  <2>1. pipe' = [p \in Pipes |-> pipe'[p]] BY <1>3
  <2> QED BY <2>1, <1>4 DEF PipeStates
<1> QED BY <1>2, <1>4, <1>5 DEF SameData, SameEnds

LEMMA FinishPipes ==
  ASSUME TypeInv, NEW p \in Pipes, End(p) = "open", pipe' = Close(pipe, p, "fin")
  PROVE  /\ pipe' \in PipeStates /\ SameData(pipe, pipe')
         /\ SameEnds(pipe, pipe', Pipes \ {p}) /\ pipe'[p].end = "fin"
<1>1. pipe \in PipeStates BY DEF TypeInv
<1>2. /\ Close(pipe, p, "fin") \in PipeStates /\ SameData(pipe, Close(pipe, p, "fin"))
      /\ SameEnds(pipe, Close(pipe, p, "fin"), Pipes \ {p})
      /\ Closes(pipe, Close(pipe, p, "fin"), p, {"fin"})
  BY <1>1, ClosePipe, PipeNames
<1> QED BY <1>2 DEF Closes, End

-----------------------------------------------------------------------------
(* What no step undoes: a relay that is over stays over, a pipe that has   *)
(* ended stays as it has ended and, once empty, stays empty, and a handler *)
(* that gave up before it relayed does not come back.                      *)
PipesSteady ==
  \A p \in Pipes : End(p) # "open" =>
    pipe'[p].end = pipe[p].end /\ (Data(p) = <<>> => pipe'[p].data = <<>>)
Steady ==
  /\ conn' = conn /\ faults \subseteq faults' /\ PipesSteady
  /\ \A c \in Copiers : Over(c) => copier'[c] = copier[c]
  /\ near \in {"done", "dropped"} /\ ~Started("near_up") =>
       near' = near /\ copier'["near_up"] = "none"
  /\ FarGaveUp => far' = "done" /\ copier'["far_up"] = "none"

LEMMA QuietPipes ==
  ASSUME SameData(pipe, pipe'),
         \A p \in Pipes : pipe'[p].end = pipe[p].end \/ pipe[p].end = "open"
  PROVE  PipesSteady
BY DEF PipesSteady, SameData, End, Data

LEMMA OnePipe ==
  ASSUME NEW p \in Pipes, NEW w, OnlyData(pipe, pipe', p, w), SameEnds(pipe, pipe', Pipes),
         End(p) = "open" \/ Data(p) # <<>>
  PROVE  PipesSteady
BY DEF PipesSteady, OnlyData, SameEnds, End, Data

LEMMA FarClosedPipes ==
  ASSUME TypeInv, FarClosed
  PROVE  \A p \in Pipes : pipe'[p].end = pipe[p].end \/ pipe[p].end = "open"
BY DEF FarClosed, SameEnds, Closes, Pipes

LEMMA NearClosedPipes ==
  ASSUME TypeInv, NearClosed
  PROVE  \A p \in Pipes : pipe'[p].end = pipe[p].end \/ pipe[p].end = "open"
BY DEF NearClosed, SameEnds, Closes, Pipes

LEMMA SteadyGivesUp ==
  ASSUME Steady
  PROVE  /\ NearGaveUp => NearGaveUp'
         /\ FarGaveUp => FarGaveUp'
         /\ UpOnly' => UpOnly
         /\ DownOnly' => DownOnly
BY DEF Steady, NearGaveUp, FarGaveUp, Started, UpOnly, DownOnly

LEMMA StaysDrained ==
  ASSUME Steady, NEW c \in Copiers, Drained(c)
  PROVE  Drained(c)'
<1>1. Src(c) \in Pipes BY Ways, PipeNames DEF Copiers
<1>2. copier[c] = "done" /\ Data(Src(c)) = <<>> /\ End(Src(c)) = "fin" BY DEF Drained
<1>3. copier'[c] = "done" BY <1>2 DEF Steady, Over
<1>4. pipe'[Src(c)].data = <<>> /\ pipe'[Src(c)].end = "fin"
  BY <1>1, <1>2 DEF Steady, PipesSteady, End
<1> QED BY <1>3, <1>4 DEF Drained, Data, End

(* A pipe whose end a step leaves alone keeps what is known of its end. *)
LEMMA LocalUpKept ==
  ASSUME EndInv, Steady, pipe'["localUp"].end = pipe["localUp"].end
  PROVE  LocalUpEnd'
BY DEF EndInv, Steady, LocalUpEnd, End

LEMMA TargetDownKept ==
  ASSUME EndInv, Steady, pipe'["targetDown"].end = pipe["targetDown"].end
  PROVE  TargetDownEnd'
BY DEF EndInv, Steady, TargetDownEnd, End

LEMMA ChanUpKept ==
  ASSUME EndInv, Steady, pipe'["chanUp"].end = pipe["chanUp"].end
  PROVE  ChanUpEnd'
<1>1. ChanUpEnd BY DEF EndInv
<1>2. "near_up" \in Copiers BY DEF Copiers
<1>3. Drained("near_up") => Drained("near_up")' BY <1>2, StaysDrained
<1>4. End("chanUp")' = End("chanUp") BY DEF End
<1> QED BY <1>1, <1>3, <1>4, SteadyGivesUp DEF ChanUpEnd

LEMMA ChanDownKept ==
  ASSUME EndInv, Steady, pipe'["chanDown"].end = pipe["chanDown"].end
  PROVE  ChanDownEnd'
<1>1. ChanDownEnd BY DEF EndInv
<1>2. "far_down" \in Copiers BY DEF Copiers
<1>3. Drained("far_down") => Drained("far_down")' BY <1>2, StaysDrained
<1>4. End("chanDown")' = End("chanDown") BY DEF End
<1> QED BY <1>1, <1>3, <1>4, SteadyGivesUp DEF ChanDownEnd

LEMMA TargetUpKept ==
  ASSUME EndInv, Steady, pipe'["targetUp"].end = pipe["targetUp"].end
  PROVE  TargetUpEnd'
<1>1. TargetUpEnd BY DEF EndInv
<1>2. "far_up" \in Copiers BY DEF Copiers
<1>3. Drained("far_up") => Drained("far_up")' BY <1>2, StaysDrained
<1>4. End("targetUp")' = End("targetUp") BY DEF End
<1>5. copier["far_up"] \in {"done", "failed"} => copier["far_up"]' \in {"done", "failed"}
  BY <1>2 DEF Steady, Over
<1>6. "target" \in faults => "target" \in faults' BY DEF Steady
<1> QED BY <1>1, <1>3, <1>4, <1>5, <1>6, SteadyGivesUp DEF TargetUpEnd

LEMMA LocalDownKept ==
  ASSUME EndInv, Steady, pipe'["localDown"].end = pipe["localDown"].end,
         copier'["near_down"] # "done" \/ copier["near_down"] = "done"
  PROVE  LocalDownEnd'
<1>1. LocalDownEnd BY DEF EndInv
<1>2. "near_down" \in Copiers BY DEF Copiers
<1>3. Drained("near_down") => Drained("near_down")' BY <1>2, StaysDrained
<1>4. End("localDown")' = End("localDown") BY DEF End
<1>5. Over("near_down") => Over("near_down")' BY <1>2 DEF Steady, Over
<1>6. "app" \in faults => "app" \in faults' BY DEF Steady
<1>7. ~Started("near_up") /\ near \in {"done", "dropped"} =>
        ~Started("near_up")' /\ near' \in {"done", "dropped"}
  BY DEF Steady, Started
<1>8. copier'["near_down"] = "done" => End("localDown")' # "open"
  BY <1>1, <1>4 DEF LocalDownEnd
<1>9. End("localDown")' # "open" =>
        \/ Over("near_down")' \/ "app" \in faults'
        \/ ~Started("near_up")' /\ near' \in {"done", "dropped"}
  BY <1>1, <1>4, <1>5, <1>6, <1>7 DEF LocalDownEnd
<1>10. DownOnly' /\ End("localDown")' = "fin" =>
         NearGaveUp' \/ FarGaveUp' \/ Drained("near_down")'
  BY <1>1, <1>3, <1>4, SteadyGivesUp DEF LocalDownEnd
<1> QED BY <1>8, <1>9, <1>10 DEF LocalDownEnd

LEMMA NearDownKept ==
  ASSUME EndInv, Steady,
         copier'["near_down"] = copier["near_down"] \/ copier'["near_down"] \in {"copy", "done"}
  PROVE  NearDownFails'
<1>1. NearDownFails BY DEF EndInv
<1> QED BY <1>1, SteadyGivesUp DEF NearDownFails

LEMMA GivenUpKept ==
  ASSUME EndInv, Steady, NearGaveUp' => NearGaveUp,
         copier'["far_up"] = copier["far_up"] \/ pipe["chanDown"].end = "open"
  PROVE  GivenUp'
<1>1. GivenUp BY DEF EndInv
<1>2. "chanDown" \in Pipes BY PipeNames
<1>3. End("chanDown") # "open" => pipe'["chanDown"].end = pipe["chanDown"].end
  BY <1>2 DEF Steady, PipesSteady
<1>4. NearGaveUp' => End("chanDown")' # "open" BY <1>1, <1>3 DEF GivenUp, End
<1>5. faults' = {} => faults = {} BY DEF Steady
<1>6. faults' = {} /\ NearGaveUp' => ~Started("far_up")'
  BY <1>1, <1>5 DEF GivenUp, End, Started
<1> QED BY <1>4, <1>6 DEF GivenUp

(* Nothing that matters to the ends changes. *)
LEMMA EndsKept ==
  ASSUME EndInv, Steady, SameEnds(pipe, pipe', Pipes),
         copier'["near_down"] = copier["near_down"] \/ copier'["near_down"] = "copy",
         NearGaveUp' => NearGaveUp,
         copier'["far_up"] = copier["far_up"] \/ pipe["chanDown"].end = "open"
  PROVE  EndInv'
<1>1. \A p \in Pipes : pipe'[p].end = pipe[p].end BY DEF SameEnds
<1>2. /\ pipe'["localUp"].end = pipe["localUp"].end /\ pipe'["chanUp"].end = pipe["chanUp"].end
      /\ pipe'["targetUp"].end = pipe["targetUp"].end
      /\ pipe'["targetDown"].end = pipe["targetDown"].end
      /\ pipe'["chanDown"].end = pipe["chanDown"].end
      /\ pipe'["localDown"].end = pipe["localDown"].end
  BY <1>1 DEF Pipes
<1>3. LocalUpEnd' BY <1>2, LocalUpKept
<1>4. ChanUpEnd' BY <1>2, ChanUpKept
<1>5. TargetUpEnd' BY <1>2, TargetUpKept
<1>6. TargetDownEnd' BY <1>2, TargetDownKept
<1>7. ChanDownEnd' BY <1>2, ChanDownKept
<1>8. LocalDownEnd' BY <1>2, LocalDownKept
<1>9. NearDownFails' BY NearDownKept
<1>10. GivenUp' BY GivenUpKept
<1> QED BY <1>3, <1>4, <1>5, <1>6, <1>7, <1>8, <1>9, <1>10 DEF EndInv

-----------------------------------------------------------------------------
(* The types, the data upwards and the data downwards: what the steps that *)
(* move no data keep.                                                      *)

LEMMA ConnKept ==
  ASSUME conn' = conn
  PROVE  /\ Handshake' = Handshake /\ Script' = Script /\ Socks5Answers' = Socks5Answers
         /\ ConnInv => ConnInv'
<1>1. Handshake' = Handshake BY DEF Handshake
<1>2. Script' = Script BY <1>1 DEF Script
<1>3. Socks5Answers' = Socks5Answers BY DEF Socks5Answers
<1>4. ConnInv => ConnInv' BY DEF ConnInv
<1> QED BY <1>1, <1>2, <1>3, <1>4

LEMMA TypeFrame ==
  ASSUME TypeInv, conn' = conn, near' \in Nears, far' \in Fars,
         copier' \in [Copiers -> States], pipe' \in PipeStates,
         todo' \in Seq({"varint", "string"}),
         sent' \in [app : 0..Len(Script), target : 0..Len(DownBytes)]
  PROVE  TypeInv'
<1>1. Script' = Script BY ConnKept
<1> QED BY <1>1 DEF TypeInv

LEMMA SentTypes ==
  ASSUME TypeInv
  PROVE  /\ sent.app \in 0..Len(Script) /\ sent.target \in 0..Len(DownBytes)
         /\ Script \in Seq(Token) /\ DownBytes \in Seq(Token) /\ Handshake \in Seq(Token)
         /\ Sent \in Seq(Token) /\ Len(Sent) = sent.app
         /\ Fed \in Seq(Token) /\ Len(Fed) = sent.target
         /\ sent.target = 0 => Fed = <<>>
<1>1. conn \in Conns BY DEF TypeInv
<1>2. Script \in Seq(Token) /\ DownBytes \in Seq(Token) /\ Handshake \in Seq(Token)
  BY <1>1, ScriptTokens, Payloads
<1>3. sent.app \in 0..Len(Script) /\ sent.target \in 0..Len(DownBytes) BY DEF TypeInv
<1>4. Sent \in Seq(Token) /\ Len(Sent) = sent.app BY <1>2, <1>3, Firsts DEF Sent
<1>5. Fed \in Seq(Token) /\ Len(Fed) = sent.target /\ (sent.target = 0 => Fed = <<>>)
  BY <1>2, <1>3, Firsts DEF Fed
<1> QED BY <1>2, <1>3, <1>4, <1>5

LEMMA DataTypes ==
  ASSUME TypeInv
  PROVE  /\ Data("localUp") \in Seq(Token) /\ Data("chanUp") \in Seq(Token)
         /\ Data("targetUp") \in Seq(Token) /\ Data("targetDown") \in Seq(Token)
         /\ Data("chanDown") \in Seq(Token) /\ Data("localDown") \in Seq(Token)
BY PipeTypes, PipeNames

LEMMA GotType ==
  ASSUME TypeInv
  PROVE  Got \in Seq(Token)
<1>1. Data("localDown") \o Data("chanDown") \in Seq(Token) BY DataTypes, Joined
<1> DEFINE d == Data("localDown") \o Data("chanDown")
<1>2. d \in Seq(Token) BY <1>1
<1> HIDE DEF d
<1>3. Confirmation \o d \in Seq(Token) BY <1>2, AnswerTokens, Joined
<1> QED BY <1>3, DataTypes DEF Got, d

(* Which relays have been started stays as it is, and the far handler goes *)
(* on where it was or is gone.                                             *)
SameRoles ==
  /\ conn' = conn
  /\ \A c \in Copiers : copier'[c] = "none" <=> copier[c] = "none"
  /\ far' = far \/ far' \in {"done", "dropped"}

(* The data of one direction stays where it is. *)
SameUp == \A r \in {"localUp", "chanUp", "targetUp"} : pipe'[r].data = pipe[r].data
SameDown == \A r \in {"targetDown", "chanDown", "localDown"} : pipe'[r].data = pipe[r].data

LEMMA SameBoth ==
  ASSUME SameData(pipe, pipe')
  PROVE  SameUp /\ SameDown
BY DEF SameData, SameUp, SameDown, Pipes

LEMMA QuietUp ==
  ASSUME TypeInv, UpInv, SameRoles, SameUp, todo' = todo, sent'.app = sent.app
  PROVE  UpInv'
<1>1. /\ Data("localUp")' = Data("localUp") /\ Data("chanUp")' = Data("chanUp")
      /\ Data("targetUp")' = Data("targetUp")
  BY DEF SameUp, Data
<1>2. Handshake' = Handshake /\ Script' = Script /\ conn' = conn /\ sent'.app = sent.app /\ todo' = todo
  BY ConnKept DEF SameRoles
<1>3. Sent' = Sent BY <1>2 DEF Sent
<1>4. (Started("near_up")' <=> Started("near_up")) /\ (Started("far_up")' <=> Started("far_up"))
  BY DEF SameRoles, Started, Copiers
<1>5. far' = far \/ far' \in {"done", "dropped"} BY DEF SameRoles
<1>6. ASSUME Live' PROVE Live /\ Eaten' = Eaten
  <2>1. Live BY <1>4, <1>5, <1>6 DEF Live, Negotiating
  <2>2. CASE Started("far_up")
    <3>1. Eaten = Handshake /\ Eaten' = Handshake' BY <1>4, <2>2 DEF Eaten
    <3> QED BY <1>2, <2>1, <3>1
  <2>3. CASE ~Started("far_up")
    <3>1. far' = far BY <1>4, <1>5, <1>6, <2>3 DEF Live, Negotiating
    <3>2. ~Started("far_up")' BY <1>4, <2>3
    <3> QED BY <1>2, <2>1, <2>3, <3>1, <3>2 DEF Eaten
  <2> QED BY <2>2, <2>3
<1>7. ~Started("near_up")' => Data("localUp")' = Sent' BY <1>1, <1>3, <1>4 DEF UpInv
<1>8. far' = "none" => Data("chanUp")' = <<>> BY <1>1, <1>5 DEF UpInv
<1>9. far' = "decode" => Len(Data("chanUp"))' = Len(todo)' BY <1>1, <1>2, <1>5 DEF UpInv
<1>10. ~Started("far_up")' => Data("targetUp")' = <<>> BY <1>1, <1>4 DEF UpInv
<1>11. Live' => (Eaten \o (Data("targetUp") \o (Data("chanUp") \o Data("localUp"))))' = Sent'
  BY <1>1, <1>3, <1>6 DEF UpInv
<1> QED BY <1>7, <1>8, <1>9, <1>10, <1>11 DEF UpInv

(* The answers to a SOCKS5 client. *)
LEMMA Answers ==
  ASSUME conn \in Conns, ConnInv
  PROVE  /\ \A s \in Socks5Answers : s \in Seq(Token)
         /\ \E s \in Socks5Answers : TRUE
         /\ conn.greeting = "badversion" => <<>> \in Socks5Answers
         /\ conn.greeting = "otherauth" => <<"method_none">> \in Socks5Answers
         /\ conn.greeting = "noauth" =>
              \E s \in Socks5Answers : IsPrefix(<<"method_ok">>, s)
         /\ conn.greeting = "noauth" /\ conn.request = "bind" =>
              <<"method_ok", "unsupported">> \in Socks5Answers
         /\ conn.greeting = "noauth" /\ conn.request = "connect" =>
              /\ <<"method_ok", "refused">> \in Socks5Answers
              /\ <<"method_ok", "granted">> \o DownBytes \in Socks5Answers
<1> DEFINE m == <<"method_ok">>
<1>1. /\ m \in Seq(Token) /\ Len(m) = 1 /\ m[1] = "method_ok"
      /\ <<"method_none">> \in Seq(Token) /\ <<>> \in Seq(Token)
      /\ <<"method_ok", "unsupported">> \in Seq(Token) /\ <<"method_ok", "refused">> \in Seq(Token)
      /\ <<"method_ok", "granted">> \in Seq(Token) /\ DownBytes \in Seq(Token)
  BY AnswerTokens, Payloads
<1>2. <<"method_ok", "granted">> \o DownBytes \in Seq(Token) BY <1>1, Joined
<1>3. conn.greeting \in {"noauth", "otherauth", "badversion"}
      /\ conn.request \in {"connect", "bind", "badversion", "badatyp"}
  BY DEF Conns
<1>4. IsPrefix(m, m) /\ IsPrefix(m, <<"method_ok", "unsupported">>)
      /\ IsPrefix(m, <<"method_ok", "refused">>)
  <2>1. IsPrefix(m, m) BY <1>1, PrefixSelf
  <2>2. ASSUME NEW w \in {"unsupported", "refused"} PROVE IsPrefix(m, <<"method_ok", w>>)
    <3>1. <<"method_ok", w>> \in Seq(Token) /\ Len(<<"method_ok", w>>) = 2
          /\ <<"method_ok", w>>[1] = "method_ok"
      BY <1>1
    <3> DEFINE u == <<"method_ok", w>>
    <3>2. u \in Seq(Token) /\ Len(u) = 2 /\ u[1] = "method_ok" BY <3>1
    <3> HIDE DEF m, u
    <3>3. Len(m) <= Len(u) /\ \A i \in 1..Len(m) : m[i] = u[i] BY <1>1, <3>2
    <3>4. IsPrefix(m, u) BY <1>1, <3>2, <3>3, PrefixByIndex
    <3> QED BY <3>4 DEF u
  <2> QED BY <2>1, <2>2
<1>5. CASE conn.greeting = "badversion"
  <2>1. Socks5Answers = {<<>>} BY <1>5 DEF Socks5Answers, ConnInv
  <2> QED BY <1>1, <1>5, <2>1
<1>6. CASE conn.greeting = "otherauth"
  <2>1. Socks5Answers = {<<"method_none">>} BY <1>6 DEF Socks5Answers, ConnInv
  <2> QED BY <1>1, <1>6, <2>1
<1>7. CASE conn.greeting = "noauth" /\ conn.request \in {"badversion", "badatyp"}
  <2>1. Socks5Answers = {m} BY <1>7 DEF Socks5Answers
  <2> QED BY <1>1, <1>4, <1>7, <2>1
<1>8. CASE conn.greeting = "noauth" /\ conn.request = "bind"
  <2>1. Socks5Answers = {<<"method_ok", "unsupported">>} BY <1>8 DEF Socks5Answers
  <2> QED BY <1>1, <1>4, <1>8, <2>1
<1>9. CASE conn.greeting = "noauth" /\ conn.request = "connect"
  <2>1. Socks5Answers = {<<"method_ok", "refused">>, <<"method_ok", "granted">> \o DownBytes}
    BY <1>9 DEF Socks5Answers
  <2> QED BY <1>1, <1>2, <1>4, <1>9, <2>1
<1> QED BY <1>3, <1>5, <1>6, <1>7, <1>8, <1>9

(* While the far side negotiates, the near side has been sent the          *)
(* confirmation and the replies so far; they fit an answer.                *)
LEMMA Negotiated ==
  ASSUME TypeInv, ConnInv, WhereInv, DownInv, far \in Negotiating
  PROVE  /\ conn.kind = "socks5" /\ ~Started("far_up") /\ Live
         /\ sent.target = 0 /\ Data("targetDown") = <<>> /\ Fed = <<>>
         /\ Said \in Seq(Token)
         /\ Got = Confirmation \o Said
         /\ \E s \in Socks5Answers : IsPrefix(Got, Confirmation \o s)
<1>1. conn.kind = "socks5" /\ ~Started("far_up") BY DEF WhereInv
<1>2. Live BY DEF Live
<1>3. sent.target = 0 /\ Data("targetDown") = <<>> BY <1>1 DEF DownInv
<1>4. Fed = <<>> BY <1>3, SentTypes
<1>5. Said = IF far = "greeting" THEN <<>> ELSE <<"method_ok">>
  BY <1>1 DEF Said, Negotiating
<1>6. Said \in Seq(Token) BY <1>5, AnswerTokens
<1>7. Got \o Data("targetDown") = Confirmation \o (Said \o Fed) BY <1>2 DEF DownInv
<1>8. Got \o <<>> = Got /\ Said \o <<>> = Said BY <1>6, GotType, ConcatEmptySeq
<1>9. Got = Confirmation \o Said BY <1>3, <1>4, <1>7, <1>8
<1>10. PICK s \in Socks5Answers : IsPrefix(Said, s)
  <2>1. conn \in Conns BY DEF TypeInv
  <2>2. CASE far = "greeting"
    <3>1. PICK s \in Socks5Answers : TRUE BY <2>1, Answers
    <3>2. s \in Seq(Token) BY <2>1, Answers
    <3>3. Said = <<>> BY <1>5, <2>2
    <3>4. IsPrefix(<<>>, s) BY <3>2, PrefixEmpty
    <3> QED BY <3>3, <3>4
  <2>3. CASE far # "greeting"
    <3>1. conn.greeting = "noauth" BY <2>3 DEF WhereInv, Negotiating
    <3>2. Said = <<"method_ok">> BY <1>5, <2>3
    <3> QED BY <2>1, <3>1, <3>2, Answers
  <2> QED BY <2>2, <2>3
<1>11. s \in Seq(Token) BY Answers DEF TypeInv
<1>12. IsPrefix(Confirmation \o Said, Confirmation \o s)
  BY <1>6, <1>10, <1>11, AnswerTokens, PrefixBehind
<1> QED BY <1>1, <1>2, <1>3, <1>4, <1>6, <1>9, <1>12

(* What has come out of the channel grows with the channel. *)
LEMMA GotKept ==
  ASSUME copier'["near_down"] = "none" <=> copier["near_down"] = "none",
         pipe'["localDown"].data = Data("localDown"), pipe'["chanDown"].data = Data("chanDown")
  PROVE  Got' = Got
<1>1. Started("near_down")' <=> Started("near_down") BY DEF Started
<1>2. Data("localDown")' = Data("localDown") /\ Data("chanDown")' = Data("chanDown") BY DEF Data
<1>3. Confirmation' = Confirmation BY DEF Confirmation
<1> QED BY <1>1, <1>2, <1>3 DEF Got

LEMMA GotGrows ==
  ASSUME TypeInv, copier'["near_down"] = "none" <=> copier["near_down"] = "none",
         NEW w \in Seq(Token),
         pipe'["localDown"].data = Data("localDown"),
         pipe'["chanDown"].data = Data("chanDown") \o w
  PROVE  Got' = Got \o w
<1> DEFINE l == Data("localDown")
           d == Data("chanDown")
<1>1. Started("near_down")' <=> Started("near_down") BY DEF Started
<1>2. Data("localDown")' = l /\ Data("chanDown")' = d \o w BY DEF Data
<1>3. l \in Seq(Token) /\ d \in Seq(Token) /\ Confirmation \in Seq(Token) BY DataTypes, AnswerTokens
<1>4. Got = IF Started("near_down") THEN Confirmation \o (l \o d) ELSE d BY DEF Got
<1>5. Got' = IF Started("near_down") THEN Confirmation \o (l \o (d \o w)) ELSE d \o w
  <2>1. Confirmation' = Confirmation BY DEF Confirmation
  <2> HIDE DEF l, d
  <2> QED BY <1>1, <1>2, <2>1 DEF Got
<1> HIDE DEF l, d
<1>6. l \o (d \o w) = (l \o d) \o w /\ l \o d \in Seq(Token) BY <1>3, TokensJoined
<1> DEFINE x == l \o d
<1>7. x \in Seq(Token) BY <1>6
<1> HIDE DEF x
<1>8. Confirmation \o (x \o w) = (Confirmation \o x) \o w BY SMTT(30), <1>3, <1>7, TokensJoined
<1> QED BY <1>4, <1>5, <1>6, <1>8 DEF x

(* A negotiation that ends without a further word leaves a refusal. *)
LEMMA QuietDown ==
  ASSUME TypeInv, ConnInv, WhereInv, DownInv, SameRoles, SameDown, sent'.target = sent.target
  PROVE  DownInv'
<1>1. /\ Data("localDown")' = Data("localDown") /\ Data("chanDown")' = Data("chanDown")
      /\ Data("targetDown")' = Data("targetDown")
  BY DEF SameDown, Data
<1>2. conn' = conn /\ Socks5Answers' = Socks5Answers BY ConnKept DEF SameRoles
<1>3. Fed' = Fed /\ sent.target' = sent.target BY DEF Fed
<1>4. /\ Started("near_down")' <=> Started("near_down")
      /\ Started("far_up")' <=> Started("far_up")
  BY DEF SameRoles, Started, Copiers
<1>5. far' = far \/ far' \in {"done", "dropped"} BY DEF SameRoles
<1>6. Got' = Got
  <2>1. copier'["near_down"] = "none" <=> copier["near_down"] = "none"
    BY DEF SameRoles, Copiers
  <2> QED BY <2>1, GotKept DEF SameDown, Data
<1>7. Confirmation' = Confirmation /\ Failure' = Failure BY DEF Confirmation, Failure
<1>8. ASSUME Live' PROVE Live /\ Said' = Said
  <2>1. Live BY <1>4, <1>5, <1>8 DEF Live, Negotiating
  <2>2. CASE Started("far_up")
    BY <1>2, <1>4, <2>1, <2>2 DEF Said
  <2>3. CASE ~Started("far_up")
    <3>1. far' = far BY <1>4, <1>5, <1>8, <2>3 DEF Live, Negotiating
    <3>2. ~Started("far_up")' BY <1>4, <2>3
    <3> QED BY <1>2, <2>1, <2>3, <3>1, <3>2 DEF Said
  <2> QED BY <2>2, <2>3
<1>9. ~Started("near_down")' => Data("localDown")' = <<>> BY <1>1, <1>4 DEF DownInv
<1>10. far' \in {"none", "decode"} => Got' = <<>> BY <1>5, <1>6 DEF DownInv
<1>11. ~Started("far_up")' => sent.target' = 0 /\ Data("targetDown")' = <<>>
  BY <1>1, <1>3, <1>4 DEF DownInv
<1>12. Live' => Got' \o Data("targetDown")' = Confirmation' \o (Said' \o Fed')
  BY <1>1, <1>3, <1>6, <1>7, <1>8 DEF DownInv
<1>13. Live' => Len(Data("targetDown"))' <= sent.target'
  BY <1>1, <1>3, <1>8 DEF DownInv
<1>14. ASSUME ~Live' PROVE Refusals'
  <2>1. CASE ~Live
    <3>1. Refusals BY <2>1 DEF DownInv
    <3> QED BY <1>2, <1>6, <1>7, <3>1 DEF Refusals
  <2>2. CASE Live
    <3>1. far \in Negotiating BY <1>4, <1>14, <2>2 DEF Live
    <3>2. conn.kind = "socks5" /\ \E s \in Socks5Answers : IsPrefix(Got, Confirmation \o s)
      BY <3>1, Negotiated
    <3> QED BY <1>2, <1>6, <1>7, <3>2 DEF Refusals
  <2> QED BY <2>1, <2>2
<1> QED BY <1>9, <1>10, <1>11, <1>12, <1>13, <1>14 DEF DownInv

-----------------------------------------------------------------------------
(* The steps that move data upwards. *)

LEMMA NearOpenUp ==
  ASSUME TypeInv, WhereInv, UpInv, NearOpen
  PROVE  UpInv'
<1>1. near = "open" /\ far = "none" /\ ~Started("far_up") /\ ~Started("near_up")
  BY DEF NearOpen, WhereInv, Copiers
<1>2. /\ far' = "decode" /\ todo' = DecodedTypes /\ conn' = conn /\ sent' = sent /\ copier' = copier
  BY DEF NearOpen
<1>3. OnlyData(pipe, pipe', "chanUp", Data("chanUp") \o OpenMessage) BY NearOpenPipes
<1>4. Data("chanUp") = <<>> BY <1>1 DEF UpInv
<1>5. OpenMessage \in Seq(Token) /\ Len(OpenMessage) = Len(DecodedTypes)
  BY FieldsMatch DEF TypeInv
<1>6. <<>> \o OpenMessage = OpenMessage BY <1>5, ConcatEmptySeq
<1>7. Data("chanUp")' = OpenMessage BY <1>3, <1>4, <1>6 DEF OnlyData, Data
<1>8. Data("localUp")' = Data("localUp") /\ Data("targetUp")' = Data("targetUp")
  BY <1>3 DEF OnlyData, Data, Pipes
<1>9. Script' = Script BY <1>2, ConnKept
<1>10. Sent' = Sent BY <1>2, <1>9 DEF Sent
<1>11. ~Started("far_up")' /\ ~Live' BY <1>1, <1>2 DEF Started, Live, Negotiating
<1>12. Data("localUp")' = Sent' BY <1>1, <1>8, <1>10 DEF UpInv
<1>13. Data("targetUp")' = <<>> BY <1>1, <1>8 DEF UpInv
<1>14. Len(Data("chanUp"))' = Len(todo)' BY <1>2, <1>5, <1>7
<1> QED BY <1>2, <1>11, <1>12, <1>13, <1>14 DEF UpInv

LEMMA NearConfirmedUp ==
  ASSUME TypeInv, UpInv, NearConfirmed
  PROVE  UpInv'
<1>1. OnlyData(pipe, pipe', "chanDown", SubSeq(Data("chanDown"), 3, Len(Data("chanDown"))))
  BY NearConfirmedPipes
<1>2. /\ Data("localUp")' = Data("localUp") /\ Data("chanUp")' = Data("chanUp")
      /\ Data("targetUp")' = Data("targetUp")
  BY <1>1 DEF OnlyData, Data, Pipes
<1>3. far' = far /\ todo' = todo /\ conn' = conn /\ sent' = sent BY DEF NearConfirmed
<1>4. copier'["near_up"] = "copy" /\ copier'["far_up"] = copier["far_up"]
  BY DEF NearConfirmed, Copiers, NearCopiers
<1>5. Started("near_up")' /\ (Started("far_up")' <=> Started("far_up")) BY <1>4 DEF Started
<1>6. Handshake' = Handshake /\ Script' = Script BY <1>3, ConnKept
<1>7. Sent' = Sent /\ Eaten' = Eaten /\ (Live' <=> Live)
  BY <1>3, <1>5, <1>6 DEF Sent, Eaten, Live
<1> QED BY <1>2, <1>3, <1>5, <1>7 DEF UpInv

LEMMA FarDecodeUp ==
  ASSUME TypeInv, WhereInv, UpInv, FarDecode
  PROVE  UpInv'
<1>1. far = "decode" /\ ~Started("far_up") /\ ~Started("near_up")
  BY DEF FarDecode, WhereInv, Copiers
<1>2. far' = far /\ todo' = Tail(todo) /\ conn' = conn /\ sent' = sent /\ copier' = copier
  BY DEF FarDecode
<1>3. OnlyData(pipe, pipe', "chanUp", Tail(Data("chanUp"))) BY FarDecodePipes
<1>4. Data("localUp")' = Data("localUp") /\ Data("targetUp")' = Data("targetUp")
      /\ Data("chanUp")' = Tail(Data("chanUp"))
  BY <1>3 DEF OnlyData, Data, Pipes
<1>5. Len(Tail(Data("chanUp"))) = Len(Data("chanUp")) - 1
  <2>1. Data("chanUp") \in Seq(Token) /\ Data("chanUp") # <<>> BY DataTypes DEF FarDecode, Data
  <2> QED BY <2>1, HeadAndTail
<1>6. Len(Tail(todo)) = Len(todo) - 1
  <2>1. todo \in Seq({"varint", "string"}) /\ todo # <<>> BY DEF FarDecode, TypeInv
  <2> QED BY <2>1, HeadAndTail
<1>7. Len(Data("chanUp"))' = Len(todo)' BY <1>1, <1>2, <1>4, <1>5, <1>6 DEF UpInv
<1>8. Script' = Script BY <1>2, ConnKept
<1>9. Sent' = Sent BY <1>2, <1>8 DEF Sent
<1>10. ~Started("far_up")' /\ ~Live' /\ far' = "decode"
  BY <1>1, <1>2 DEF Started, Live, Negotiating
<1>11. Data("localUp")' = Sent' BY <1>1, <1>4, <1>9 DEF UpInv
<1>12. Data("targetUp")' = <<>> BY <1>1, <1>4 DEF UpInv
<1> QED BY <1>7, <1>10, <1>11, <1>12 DEF UpInv

(* The far side takes what follows the open message for payload, or for    *)
(* the negotiation: nothing of the message is left in the channel.         *)
LEMMA FarBeginsUp ==
  ASSUME TypeInv, WhereInv, UpInv, SameUp, far = "decode", todo = <<>>,
         conn' = conn, sent' = sent,
         \/ far' = "greeting" /\ copier' = copier
         \/ far' = "relay" /\ conn.kind # "socks5" /\ StartFarCopiers
  PROVE  UpInv'
<1>1. ~Started("far_up") /\ ~Started("near_up") BY DEF WhereInv, Copiers
<1>2. /\ Data("localUp")' = Data("localUp") /\ Data("chanUp")' = Data("chanUp")
      /\ Data("targetUp")' = Data("targetUp")
  BY DEF SameUp, Data
<1>3. Len(Data("chanUp")) = 0 BY EmptySeq DEF UpInv
<1>4. Data("chanUp") = <<>> BY <1>3, DataTypes, EmptySeq
<1>5. Data("targetUp") = <<>> /\ Data("localUp") = Sent BY <1>1 DEF UpInv
<1>6. Handshake' = Handshake /\ Script' = Script BY ConnKept
<1>7. Sent' = Sent /\ Sent \in Seq(Token) BY <1>6, SentTypes DEF Sent
<1>8. Eaten' = <<>>
  <2>1. CASE far' = "greeting" /\ copier' = copier
    <3>1. ~Started("far_up")' BY <1>1, <2>1 DEF Started
    <3> QED BY <2>1, <3>1 DEF Eaten
  <2>2. CASE far' = "relay" /\ conn.kind # "socks5" /\ StartFarCopiers
    <3>1. Handshake = <<>> BY <2>2 DEF Handshake
    <3>2. Started("far_up")' BY <2>2 DEF Started, StartFarCopiers, Copiers, FarCopiers
    <3> QED BY <1>6, <3>1, <3>2 DEF Eaten
  <2> QED BY <2>1, <2>2
<1>9. <<>> \o Sent = Sent BY <1>7, ConcatEmptySeq
<1>10. (Eaten \o (Data("targetUp") \o (Data("chanUp") \o Data("localUp"))))' = Sent'
  BY <1>2, <1>4, <1>5, <1>7, <1>8, <1>9
<1>11. far' \notin {"none", "decode"} OBVIOUS
<1> QED BY <1>2, <1>5, <1>7, <1>10, <1>11 DEF UpInv

LEMMA Socks5ConnectsUp ==
  ASSUME TypeInv, WhereInv, UpInv, SameUp, far = "connect", far' = "relay",
         conn' = conn, sent' = sent, StartFarCopiers
  PROVE  UpInv'
<1>2. /\ Data("localUp")' = Data("localUp") /\ Data("chanUp")' = Data("chanUp")
      /\ Data("targetUp")' = Data("targetUp")
  BY DEF SameUp, Data
<1>3. copier'["near_up"] = copier["near_up"] /\ copier'["far_up"] = "copy"
  BY DEF StartFarCopiers, Copiers, FarCopiers
<1>4. (Started("near_up")' <=> Started("near_up")) /\ Started("far_up")' BY <1>3 DEF Started
<1>5. Handshake' = Handshake /\ Script' = Script BY ConnKept
<1>6. Eaten = Handshake /\ Eaten' = Handshake' BY <1>4 DEF Eaten
<1>7. Sent' = Sent BY <1>5 DEF Sent
<1>8. Live BY DEF Live, Negotiating
<1>9. (Eaten \o (Data("targetUp") \o (Data("chanUp") \o Data("localUp"))))' = Sent'
  BY <1>2, <1>5, <1>6, <1>7, <1>8 DEF UpInv
<1>10. ~Started("near_up")' => Data("localUp")' = Sent' BY <1>2, <1>4, <1>7 DEF UpInv
<1> QED BY <1>4, <1>9, <1>10 DEF UpInv

LEMMA NextRead ==
  ASSUME NEW a \in Seq(Token), NEW b \in Seq(Token), NEW z \in Seq(Token), NEW u \in Seq(Token),
         NEW n \in 0..Len(u), b # <<>>, a \o (b \o z) = SubSeq(u, 1, n)
  PROVE  Head(b) = u[Len(a) + 1]
<1> DEFINE y == b \o z
<1>1. Len(a) \in Nat /\ Len(b) \in Nat /\ Len(b) # 0 /\ Len(z) \in Nat
  BY LenProperties, EmptySeq
<1>2. y \in Seq(Token) /\ Len(y) = Len(b) + Len(z) BY Joined
<1>3. y[1] = b[1]
  <2>1. 1 \in 1..Len(b) BY <1>1
  <2> QED BY <2>1, JoinedAt
<1> HIDE DEF y
<1>j. Len(a \o y) = Len(a) + Len(y) BY <1>2, Joined
<1>4. n \in Nat /\ n <= Len(u) /\ Len(u) \in Nat BY LenProperties
<1>5. Len(SubSeq(u, 1, n)) = n /\ \A i \in 1..n : SubSeq(u, 1, n)[i] = u[i] BY <1>4
<1>6. n = Len(a) + Len(y) BY <1>j, <1>5 DEF y
<1>7. Len(a) + 1 \in 1..(Len(a) + Len(y)) /\ ~(Len(a) + 1 <= Len(a)) /\ (Len(a) + 1) - Len(a) = 1
  BY <1>1, <1>2
<1>8. (a \o y)[Len(a) + 1] = y[1] BY <1>2, <1>7, ConcatProperties
<1>9. (a \o y)[Len(a) + 1] = u[Len(a) + 1] BY <1>5, <1>6, <1>7 DEF y
<1>10. Head(b) = b[1] BY HeadTailProperties
<1> QED BY <1>3, <1>8, <1>9, <1>10

(* The far side reads the greeting as the greeting and the request as the  *)
(* request.                                                                *)
LEMMA ReadsHandshake ==
  ASSUME TypeInv, WhereInv, UpInv, far \in {"greeting", "request"}, Data("chanUp") # <<>>
  PROVE  /\ conn.kind = "socks5" /\ ~Started("far_up") /\ Data("targetUp") = <<>>
         /\ Eaten = (IF far = "greeting" THEN <<>> ELSE <<conn.greeting>>)
         /\ Eaten \in Seq(Token)
         /\ Eaten \o (Data("chanUp") \o Data("localUp")) = Sent
         /\ far = "greeting" => Head(Data("chanUp")) = conn.greeting
         /\ far = "request" => Head(Data("chanUp")) = conn.request
<1>1. conn.kind = "socks5" /\ ~Started("far_up") BY DEF WhereInv, Negotiating
<1>2. Data("targetUp") = <<>> BY <1>1 DEF UpInv
<1>3. Eaten = IF far = "greeting" THEN <<>> ELSE <<conn.greeting>> BY <1>1 DEF Eaten
<1>4. conn \in Conns BY DEF TypeInv
<1>5. Eaten \in Seq(Token) BY <1>3, <1>4, ScriptTokens, AnswerTokens
<1> DEFINE c == Data("chanUp")
           l == Data("localUp")
<1>6. c \in Seq(Token) /\ l \in Seq(Token) /\ c \o l \in Seq(Token) BY DataTypes, Joined
<1>7. <<>> \o (c \o l) = c \o l BY <1>6, ConcatEmptySeq
<1>8. Live BY DEF Live, Negotiating
<1>9. Eaten \o (c \o l) = Sent BY <1>2, <1>7, <1>8 DEF UpInv
<1>10. Script \in Seq(Token) /\ sent.app \in 0..Len(Script) BY SentTypes
<1>11. c # <<>> OBVIOUS
<1> HIDE DEF c, l
<1>a. Eaten \o (c \o l) = SubSeq(Script, 1, sent.app) BY <1>9 DEF Sent
<1>12. Head(c) = Script[Len(Eaten) + 1]
  <2> DEFINE e == Eaten
             u == Script
             n == sent.app
  <2>1. e \in Seq(Token) /\ u \in Seq(Token) /\ n \in 0..Len(u) /\ e \o (c \o l) = SubSeq(u, 1, n)
    BY <1>5, <1>a, <1>10
  <2> HIDE DEF e, u, n
  <2>2. Head(c) = u[Len(e) + 1] BY <1>6, <1>11, <2>1, NextRead
  <2> QED BY <2>2 DEF e, u
<1>13. Script[1] = conn.greeting /\ Script[2] = conn.request BY <1>1, <1>4, ScriptTokens
<1>14. far = "greeting" => Len(Eaten) + 1 = 1 BY <1>3, EmptySeq
<1>15. far = "request" => Len(Eaten) + 1 = 2 BY <1>3
<1>16. far = "greeting" => Head(c) = conn.greeting BY <1>12, <1>13, <1>14
<1>17. far = "request" => Head(c) = conn.request BY <1>12, <1>13, <1>15
<1> QED BY <1>1, <1>2, <1>3, <1>5, <1>9, <1>16, <1>17 DEF c, l

LEMMA Socks5StepUp ==
  ASSUME TypeInv, WhereInv, UpInv, far \in {"greeting", "request"},
         Data("chanUp") # <<>>, conn' = conn, sent' = sent, copier' = copier,
         pipe'["chanUp"].data = Tail(Data("chanUp")),
         \A r \in Pipes \ {"chanUp", "chanDown"} : pipe'[r].data = pipe[r].data,
         \/ far' = "done"
         \/ far = "greeting" /\ far' = "request"
         \/ far = "request" /\ far' = "connect"
  PROVE  UpInv'
<1> DEFINE c == Data("chanUp")
           l == Data("localUp")
<1>1. Data("localUp")' = l /\ Data("targetUp")' = Data("targetUp") /\ Data("chanUp")' = Tail(c)
  BY DEF Data, Pipes
<1>2. /\ conn.kind = "socks5" /\ ~Started("far_up") /\ Data("targetUp") = <<>>
      /\ Eaten = IF far = "greeting" THEN <<>> ELSE <<conn.greeting>>
      /\ Eaten \in Seq(Token) /\ Eaten \o (c \o l) = Sent
      /\ far = "greeting" => Head(c) = conn.greeting
      /\ far = "request" => Head(c) = conn.request
  BY ReadsHandshake
<1>3. c \in Seq(Token) /\ c # <<>> /\ l \in Seq(Token) BY DataTypes
<1>4. Handshake' = Handshake /\ Script' = Script BY ConnKept
<1>5. Sent' = Sent BY <1>4 DEF Sent
<1>6. (Started("near_up")' <=> Started("near_up")) /\ ~Started("far_up")' BY <1>2 DEF Started
<1>7. ~Started("near_up")' => Data("localUp")' = Sent' BY <1>1, <1>5, <1>6 DEF UpInv
<1>8. Data("targetUp")' = <<>> BY <1>1, <1>2
<1>9. far' \notin {"none", "decode"} OBVIOUS
<1>10. ASSUME Live' PROVE Eaten' = Eaten \o <<Head(c)>>
  <2>0. far' # "done" BY <1>6, <1>10 DEF Live, Negotiating
  <2>1. conn \in Conns BY DEF TypeInv
  <2>2. CASE far = "greeting" /\ far' = "request"
    <3>1. Eaten' = <<conn.greeting>> BY <1>6, <2>2 DEF Eaten
    <3>2. <<>> \o <<conn.greeting>> = <<conn.greeting>> BY <2>1, ScriptTokens, ConcatEmptySeq
    <3> QED BY <1>2, <2>2, <3>1, <3>2
  <2>3. CASE far = "request" /\ far' = "connect"
    <3>1. Eaten' = Handshake' BY <2>3 DEF Eaten
    <3>2. Handshake = <<conn.greeting>> \o <<conn.request>> BY <1>2, <2>1, ScriptTokens
    <3> QED BY <1>2, <1>4, <2>3, <3>1, <3>2
  <2> QED BY <2>0, <2>2, <2>3
<1>11. ASSUME Live' PROVE (Eaten \o (Data("targetUp") \o (Data("chanUp") \o Data("localUp"))))' = Sent'
  <2> HIDE DEF c, l
  <2>1. Tail(c) \in Seq(Token) BY <1>3, HeadAndTail
  <2>2. Tail(c) \o l \in Seq(Token) BY <1>3, <2>1, TokensJoined
  <2>3. <<>> \o (Tail(c) \o l) = Tail(c) \o l BY <2>2, ConcatEmptySeq
  <2>4. (Eaten \o <<Head(c)>>) \o (Tail(c) \o l) = Eaten \o (c \o l)
    BY ZenonT(30), <1>2, <1>3, TokensMove
  <2>5. Eaten' = Eaten \o <<Head(c)>> BY <1>10, <1>11
  <2> QED BY <1>1, <1>2, <1>5, <1>8, <2>3, <2>4, <2>5
<1> QED BY <1>7, <1>8, <1>9, <1>11 DEF UpInv

(* relay() carries a token on. *)
LEMMA CopyUp ==
  ASSUME TypeInv, WhereInv, UpInv, NEW k \in {"near_up", "far_up"}, Copy(k)
  PROVE  UpInv'
<1> DEFINE t == Data("targetUp")
           c == Data("chanUp")
           l == Data("localUp")
<1>0. k \in Copiers BY DEF Copiers
<1>1. far' = far /\ todo' = todo /\ conn' = conn /\ sent' = sent /\ copier' = copier /\ copier[k] = "copy"
  BY DEF Copy
<1>2. Handshake' = Handshake /\ Script' = Script BY <1>1, ConnKept
<1>3. Sent' = Sent /\ (Live' <=> Live) /\ Eaten' = Eaten
      /\ (Started("near_up")' <=> Started("near_up")) /\ (Started("far_up")' <=> Started("far_up"))
  BY <1>1, <1>2 DEF Sent, Live, Eaten, Started
<1>4. Started(k) /\ far \notin {"none", "decode"} BY <1>0, <1>1 DEF Started, WhereInv
<1>5. t \in Seq(Token) /\ c \in Seq(Token) /\ l \in Seq(Token) BY DataTypes
<1>6. /\ Data(Src(k)) # <<>>
      /\ pipe'[Src(k)].data = Tail(Data(Src(k)))
      /\ pipe'[Dst(k)].data = Data(Dst(k)) \o <<Head(Data(Src(k)))>>
      /\ \A r \in Pipes \ {Src(k), Dst(k)} : pipe'[r].data = pipe[r].data
  BY <1>0, CopyPipes
<1>7. CASE k = "near_up"
  <2>1. l # <<>> /\ Data("localUp")' = Tail(l) /\ Data("chanUp")' = c \o <<Head(l)>>
        /\ Data("targetUp")' = t
    BY <1>6, <1>7, Ways DEF Data, Pipes
  <2>2. t = Data("targetUp") OBVIOUS
  <2> HIDE DEF t, c, l
  <2>3. (c \o <<Head(l)>>) \o Tail(l) = c \o l BY <1>5, <2>1, TokensMove
  <2>4. (Eaten \o (Data("targetUp") \o (Data("chanUp") \o Data("localUp"))))' =
          Eaten \o (t \o (c \o l))
    BY <1>3, <2>1, <2>3
  <2>5. Live' => (Eaten \o (Data("targetUp") \o (Data("chanUp") \o Data("localUp"))))' = Sent'
    BY <1>3, <2>4 DEF UpInv, t, c, l
  <2>6. ~Started("far_up")' => Data("targetUp")' = <<>> BY <1>3, <2>1, <2>2 DEF UpInv
  <2> QED BY <1>1, <1>3, <1>4, <1>7, <2>5, <2>6 DEF UpInv
<1>8. CASE k = "far_up"
  <2>1. c # <<>> /\ Data("chanUp")' = Tail(c) /\ Data("targetUp")' = t \o <<Head(c)>>
        /\ Data("localUp")' = l
    BY <1>6, <1>8, Ways DEF Data, Pipes
  <2>2. ~Started("near_up")' => Data("localUp")' = Sent' BY <1>3, <2>1 DEF UpInv
  <2> HIDE DEF t, c, l
  <2>3. (t \o <<Head(c)>>) \o (Tail(c) \o l) = t \o (c \o l) BY ZenonT(30), <1>5, <2>1, TokensMove
  <2>4. (Eaten \o (Data("targetUp") \o (Data("chanUp") \o Data("localUp"))))' =
          Eaten \o (t \o (c \o l))
    BY <1>3, <2>1, <2>3
  <2>5. Live' => (Eaten \o (Data("targetUp") \o (Data("chanUp") \o Data("localUp"))))' = Sent'
    BY <1>3, <2>4 DEF UpInv, t, c, l
  <2> QED BY <1>1, <1>3, <1>4, <1>8, <2>2, <2>5 DEF UpInv
<1> QED BY <1>7, <1>8

LEMMA AppSendsUp ==
  ASSUME TypeInv, WhereInv, UpInv, AppSends
  PROVE  UpInv'
<1> DEFINE t == Data("targetUp")
           c == Data("chanUp")
           l == Data("localUp")
           x == <<Script[sent.app + 1]>>
<1>1. far' = far /\ todo' = todo /\ conn' = conn /\ copier' = copier BY DEF AppSends
<1>2. Handshake' = Handshake /\ Script' = Script BY <1>1, ConnKept
<1>3. (Live' <=> Live) /\ Eaten' = Eaten
      /\ (Started("near_up")' <=> Started("near_up")) /\ (Started("far_up")' <=> Started("far_up"))
  BY <1>1, <1>2 DEF Live, Eaten, Started
<1>4. t \in Seq(Token) /\ c \in Seq(Token) /\ l \in Seq(Token) BY DataTypes
<1>5. Script \in Seq(Token) /\ sent.app \in 0..Len(Script) /\ Sent \in Seq(Token) BY SentTypes
<1>6. sent.app < Len(Script) /\ sent'.app = sent.app + 1 BY DEF AppSends, TypeInv
<1>7. Script[sent.app + 1] \in Token /\ SubSeq(Script, 1, sent.app + 1) = Sent \o x
  BY SMTT(30), <1>5, <1>6, Firsts DEF Sent
<1>8. x \in Seq(Token) BY <1>7
<1>9. Sent' = Sent \o x BY <1>2, <1>6, <1>7 DEF Sent
<1>10. pipe' = Put(pipe, "localUp", x) BY DEF AppSends
<1> HIDE DEF x
<1>11. OnlyData(pipe, pipe', "localUp", l \o x) BY <1>8, <1>10, PutEffect, PipeNames
<1>12. Data("localUp")' = l \o x /\ Data("chanUp")' = c /\ Data("targetUp")' = t
  BY <1>11 DEF OnlyData, Data, Pipes
<1>13. ~Started("near_up")' => Data("localUp")' = Sent' BY <1>3, <1>9, <1>12 DEF UpInv
<1>14. far' = "none" => Data("chanUp")' = <<>> BY <1>1, <1>12 DEF UpInv
<1>15. far' = "decode" => Len(Data("chanUp"))' = Len(todo)' BY <1>1, <1>12 DEF UpInv
<1>16. ~Started("far_up")' => Data("targetUp")' = <<>> BY <1>3, <1>12 DEF UpInv
<1>17. Eaten \in Seq(Token)
  <2>1. conn \in Conns BY DEF TypeInv
  <2> QED BY <2>1, ScriptTokens, AnswerTokens DEF Eaten
<1>18. ASSUME Live' PROVE (Eaten \o (Data("targetUp") \o (Data("chanUp") \o Data("localUp"))))' = Sent'
  <2>1. Eaten \o (t \o (c \o l)) = Sent BY <1>3, <1>18 DEF UpInv
  <2> HIDE DEF t, c, l
  <2> DEFINE cl == c \o l
             tcl == t \o cl
  <2>2. c \o (l \o x) = cl \o x /\ cl \in Seq(Token) BY <1>4, <1>8, TokensJoined
  <2> HIDE DEF cl
  <2>3. t \o (cl \o x) = tcl \o x /\ tcl \in Seq(Token) BY <1>4, <1>8, <2>2, TokensJoined
  <2> HIDE DEF tcl
  <2>4. Eaten \o (tcl \o x) = (Eaten \o tcl) \o x BY <1>8, <1>17, <2>3, TokensJoined
  <2>5. Eaten \o tcl = Sent BY <2>1 DEF tcl, cl
  <2> QED BY <1>3, <1>9, <1>12, <2>2, <2>3, <2>4, <2>5
<1> QED BY <1>13, <1>14, <1>15, <1>16, <1>18 DEF UpInv

-----------------------------------------------------------------------------
(* The steps that move data downwards. *)

LEMMA NearOpenDown ==
  ASSUME TypeInv, WhereInv, DownInv, NearOpen
  PROVE  DownInv'
<1>1. far = "none" /\ ~Started("far_up") /\ ~Started("near_down")
  BY DEF NearOpen, WhereInv, Copiers
<1>2. far' = "decode" /\ conn' = conn /\ sent' = sent /\ copier' = copier BY DEF NearOpen
<1>3. OnlyData(pipe, pipe', "chanUp", Data("chanUp") \o OpenMessage) BY NearOpenPipes
<1>4. /\ Data("localDown")' = Data("localDown") /\ Data("chanDown")' = Data("chanDown")
      /\ Data("targetDown")' = Data("targetDown")
  BY <1>3 DEF OnlyData, Data, Pipes
<1>5. Got' = Got BY <1>2, <1>4, GotKept DEF Data
<1>6. Got = <<>> BY <1>1 DEF DownInv
<1>7. ~Started("far_up")' /\ ~Started("near_down")' /\ ~Live'
  BY <1>1, <1>2 DEF Started, Live, Negotiating
<1>8. Refusals' BY <1>5, <1>6 DEF Refusals
<1>9. Data("localDown")' = <<>> /\ Data("targetDown")' = <<>> /\ sent.target' = 0
  BY <1>1, <1>2, <1>4 DEF DownInv
<1> QED BY <1>5, <1>6, <1>7, <1>8, <1>9 DEF DownInv

(* The near side takes the confirmation, and nothing but it. *)
LEMMA NearConfirmedGot ==
  ASSUME TypeInv, WhereInv, DownInv, NearConfirmed
  PROVE  Got' = Got /\ far \notin {"none", "decode"} /\ Data("localDown") = <<>>
<1> DEFINE d == Data("chanDown")'
<1>1. ~Started("near_down") BY DEF NearConfirmed, WhereInv
<1>2. Data("localDown") = <<>> BY <1>1 DEF DownInv
<1>3. /\ pipe' \in PipeStates /\ Data("chanDown") = Confirmation \o d
      /\ OnlyData(pipe, pipe', "chanDown", SubSeq(Data("chanDown"), 3, Len(Data("chanDown"))))
  BY NearConfirmedPipes
<1>4. Data("localDown")' = <<>> BY <1>2, <1>3 DEF OnlyData, Data, Pipes
<1>5. d \in Seq(Token) BY <1>3, PipeFields, PipeNames DEF Data
<1>6. Got = Confirmation \o d BY <1>1, <1>3 DEF Got
<1>7. Started("near_down")' BY DEF NearConfirmed, Started, Copiers, NearCopiers
<1>8. Got' = Confirmation' \o (Data("localDown")' \o d) BY <1>7 DEF Got
<1>9. Confirmation' = Confirmation BY DEF Confirmation
<1> HIDE DEF d
<1>10. <<>> \o d = d BY <1>5, ConcatEmptySeq
<1>11. Got' = Got BY <1>4, <1>6, <1>8, <1>9, <1>10
<1>12. Len(Confirmation \o d) = Len(Confirmation) + Len(d) /\ Len(d) \in Nat
       /\ Len(Confirmation) = 2
  BY <1>5, AnswerTokens, Joined
<1>13. Len(Confirmation \o d) # 0 BY <1>12
<1>14. Got # <<>> BY <1>6, <1>13, EmptySeq
<1> QED BY <1>2, <1>11, <1>14 DEF DownInv

LEMMA NearConfirmedDown ==
  ASSUME TypeInv, WhereInv, DownInv, NearConfirmed
  PROVE  DownInv'
<1>1. Got' = Got /\ far \notin {"none", "decode"} BY NearConfirmedGot
<1>2. far' = far /\ conn' = conn /\ sent' = sent BY DEF NearConfirmed
<1>3. copier'["near_down"] = "copy" /\ copier'["far_up"] = copier["far_up"]
  BY DEF NearConfirmed, Copiers, NearCopiers
<1>4. Started("near_down")' /\ (Started("far_up")' <=> Started("far_up")) BY <1>3 DEF Started
<1>5. OnlyData(pipe, pipe', "chanDown", SubSeq(Data("chanDown"), 3, Len(Data("chanDown"))))
  BY NearConfirmedPipes
<1>6. Data("targetDown")' = Data("targetDown") BY <1>5 DEF OnlyData, Data, Pipes
<1>7. Socks5Answers' = Socks5Answers /\ Confirmation' = Confirmation /\ Failure' = Failure
  BY <1>2, ConnKept DEF Confirmation, Failure
<1>8. (Live' <=> Live) /\ Said' = Said /\ Fed' = Fed
  BY <1>2, <1>4 DEF Live, Said, Fed
<1>9. Refusals => Refusals' BY <1>1, <1>2, <1>7 DEF Refusals
<1>10. Live' => Got' \o Data("targetDown")' = Confirmation' \o (Said' \o Fed')
  BY <1>1, <1>6, <1>7, <1>8 DEF DownInv
<1>11. Live' => Len(Data("targetDown"))' <= sent.target' BY <1>2, <1>6, <1>8 DEF DownInv
<1>12. ~Started("far_up")' => sent.target' = 0 /\ Data("targetDown")' = <<>>
  BY <1>2, <1>4, <1>6 DEF DownInv
<1>13. ~Live' => Refusals' BY <1>8, <1>9 DEF DownInv
<1> QED BY <1>1, <1>2, <1>4, <1>10, <1>11, <1>12, <1>13 DEF DownInv

(* Before the far side answers, nothing has come down. *)
LEMMA NothingYet ==
  ASSUME TypeInv, WhereInv, DownInv, far = "decode"
  PROVE  /\ ~Started("far_up") /\ ~Started("near_up") /\ ~Started("near_down")
         /\ Data("chanDown") = <<>> /\ Data("localDown") = <<>>
         /\ Data("targetDown") = <<>> /\ sent.target = 0 /\ Fed = <<>>
<1>1. ~Started("far_up") /\ ~Started("near_up") /\ ~Started("near_down") BY DEF WhereInv, Copiers
<1>2. Got = <<>> /\ Got = Data("chanDown") BY <1>1 DEF DownInv, Got
<1>3. Data("targetDown") = <<>> /\ sent.target = 0 /\ Data("localDown") = <<>> BY <1>1 DEF DownInv
<1>4. Fed = <<>> BY <1>3, SentTypes
<1> QED BY <1>1, <1>2, <1>3, <1>4

LEMMA FarRejectDown ==
  ASSUME TypeInv, WhereInv, DownInv, far = "decode", FarReject
  PROVE  DownInv'
<1>1. /\ ~Started("far_up") /\ ~Started("near_down") /\ Data("chanDown") = <<>>
      /\ Data("localDown") = <<>> /\ Data("targetDown") = <<>> /\ sent.target = 0
  BY NothingYet
<1>2. far' = "done" /\ conn' = conn /\ sent' = sent /\ copier' = copier BY DEF FarReject
<1>3. SameData(pipe, pipe') \/ OnlyData(pipe, pipe', "chanDown", Data("chanDown") \o Failure)
  BY FarRejectPipes
<1>4. <<>> \o Failure = Failure BY AnswerTokens, ConcatEmptySeq
<1>5. Data("localDown")' = <<>> /\ Data("targetDown")' = <<>>
      /\ Data("chanDown")' \in {<<>>, Failure}
  BY <1>1, <1>3, <1>4 DEF OnlyData, SameData, Data, Pipes
<1>6. ~Started("far_up")' /\ ~Started("near_down")' /\ ~Live'
  BY <1>1, <1>2 DEF Started, Live, Negotiating
<1>7. Got' = Data("chanDown")' BY <1>6 DEF Got
<1>8. Failure' = Failure BY DEF Failure
<1>9. Refusals' BY <1>5, <1>7, <1>8 DEF Refusals
<1>10. sent.target' = 0 BY <1>1, <1>2
<1> QED BY <1>2, <1>5, <1>6, <1>9, <1>10 DEF DownInv

(* The far side confirms the channel. *)
LEMMA FarBeginsDown ==
  ASSUME TypeInv, WhereInv, DownInv, far = "decode", conn' = conn, sent' = sent,
         pipe' = Put(pipe, "chanDown", Confirmation),
         \/ far' = "greeting" /\ copier' = copier
         \/ far' = "relay" /\ conn.kind # "socks5" /\ StartFarCopiers
  PROVE  DownInv'
<1>1. /\ ~Started("far_up") /\ ~Started("near_down") /\ Data("chanDown") = <<>>
      /\ Data("localDown") = <<>> /\ Data("targetDown") = <<>> /\ sent.target = 0 /\ Fed = <<>>
  BY NothingYet
<1>2. Confirmation \in Seq(Token) BY AnswerTokens
<1>3. OnlyData(pipe, pipe', "chanDown", Data("chanDown") \o Confirmation)
  BY <1>2, PutEffect, PipeNames
<1>4. <<>> \o Confirmation = Confirmation /\ Confirmation \o <<>> = Confirmation
      /\ <<>> \o <<>> = <<>>
  BY <1>2, AnswerTokens, ConcatEmptySeq
<1>5. Data("localDown")' = <<>> /\ Data("targetDown")' = <<>> /\ Data("chanDown")' = Confirmation
  BY <1>1, <1>3, <1>4 DEF OnlyData, Data, Pipes
<1>6. copier'["near_down"] = copier["near_down"]
  BY DEF StartFarCopiers, FarCopiers, Copiers
<1>7. ~Started("near_down")' BY <1>1, <1>6 DEF Started
<1>8. Got' = Confirmation BY <1>5, <1>7 DEF Got
<1>9. Said' = <<>>
  <2>1. CASE far' = "greeting" /\ copier' = copier
    <3>1. ~Started("far_up")' BY <1>1, <2>1 DEF Started
    <3> QED BY <2>1, <3>1 DEF Said
  <2>2. CASE far' = "relay" /\ conn.kind # "socks5" /\ StartFarCopiers
    BY <2>2 DEF Said
  <2> QED BY <2>1, <2>2
<1>10. Fed' = <<>> /\ sent.target' = 0 BY <1>1 DEF Fed
<1>11. Confirmation' = Confirmation BY DEF Confirmation
<1>12. Got' \o Data("targetDown")' = Confirmation' \o (Said' \o Fed')
  BY <1>4, <1>5, <1>8, <1>9, <1>10, <1>11
<1>13. Len(Data("targetDown"))' <= sent.target' BY <1>5, <1>10, EmptySeq
<1>14. Live'
  <2>1. CASE far' = "greeting" BY <2>1 DEF Live, Negotiating
  <2>2. CASE StartFarCopiers BY <2>2 DEF Live, Started, StartFarCopiers, FarCopiers, Copiers
  <2> QED BY <2>1, <2>2
<1>15. far' \notin {"none", "decode"} OBVIOUS
<1> QED BY <1>5, <1>10, <1>12, <1>13, <1>14, <1>15 DEF DownInv

(* A step of the negotiation: it goes on with what is said so far and the  *)
(* reply, or it ends as one of the answers begins.                         *)
LEMMA NegotiationDown ==
  ASSUME TypeInv, ConnInv, WhereInv, DownInv, far \in Negotiating, conn' = conn, sent' = sent,
         copier'["near_down"] = copier["near_down"], far' \notin {"none", "decode"},
         pipe'["localDown"].data = Data("localDown"),
         pipe'["targetDown"].data = Data("targetDown"), NEW w \in Seq(Token),
         \/ pipe'["chanDown"].data = Data("chanDown") \o w /\ Live' /\ Said' = Said \o w
         \/ pipe'["chanDown"].data = Data("chanDown") /\ ~Live'
         \/ /\ pipe'["chanDown"].data = Data("chanDown") \o w /\ ~Live'
            /\ \E s \in Socks5Answers : IsPrefix(Said \o w, s)
  PROVE  DownInv'
<1>1. /\ conn.kind = "socks5" /\ sent.target = 0 /\ Data("targetDown") = <<>> /\ Fed = <<>>
      /\ Said \in Seq(Token) /\ Got = Confirmation \o Said
      /\ \E s \in Socks5Answers : IsPrefix(Got, Confirmation \o s)
  BY Negotiated
<1>2. Data("localDown")' = Data("localDown") /\ Data("targetDown")' = <<>> BY <1>1 DEF Data
<1>3. Socks5Answers' = Socks5Answers /\ Confirmation' = Confirmation
  BY ConnKept DEF Confirmation
<1>4. Fed' = <<>> /\ sent.target' = 0 BY <1>1 DEF Fed
<1>5. ~Started("near_down")' => Data("localDown")' = <<>> BY <1>2 DEF DownInv, Started
<1>6. Len(Data("targetDown"))' <= sent.target' BY <1>2, <1>4, EmptySeq
<1>7. Confirmation \in Seq(Token) BY AnswerTokens
<1>8. Got \o w = Confirmation \o (Said \o w) /\ Said \o w \in Seq(Token)
  BY <1>1, <1>7, TokensJoined
<1>9. CASE pipe'["chanDown"].data = Data("chanDown") \o w /\ Live' /\ Said' = Said \o w
  <2>1. Got' = Got \o w BY <1>9, GotGrows
  <2> DEFINE y == Said \o w
  <2>2. y \in Seq(Token) /\ Got' = Confirmation \o y /\ Said' = y BY <1>8, <1>9, <2>1
  <2> HIDE DEF y
  <2>3. Confirmation \o y \in Seq(Token) BY <1>7, <2>2, TokensJoined
  <2>4. (Confirmation \o y) \o <<>> = Confirmation \o y /\ y \o <<>> = y
    BY <2>2, <2>3, ConcatEmptySeq
  <2>5. Got' \o Data("targetDown")' = Confirmation' \o (Said' \o Fed')
    BY <1>2, <1>3, <1>4, <2>2, <2>4
  <2> QED BY <1>2, <1>4, <1>5, <1>6, <1>9, <2>5 DEF DownInv
<1>10. ASSUME Refusals', ~Live' PROVE DownInv'
  BY <1>2, <1>4, <1>5, <1>6, <1>10 DEF DownInv
<1>11. CASE pipe'["chanDown"].data = Data("chanDown") /\ ~Live'
  <2>1. Got' = Got BY <1>11, GotKept
  <2>2. Refusals' BY <1>1, <1>3, <2>1 DEF Refusals
  <2> QED BY <1>10, <1>11, <2>2
<1>12. CASE /\ pipe'["chanDown"].data = Data("chanDown") \o w /\ ~Live'
            /\ \E s \in Socks5Answers : IsPrefix(Said \o w, s)
  <2>1. Got' = Got \o w BY <1>12, GotGrows
  <2> DEFINE y == Said \o w
  <2>2. y \in Seq(Token) /\ Got' = Confirmation \o y BY <1>8, <2>1
  <2>3. PICK s \in Socks5Answers : IsPrefix(y, s) BY <1>12
  <2>4. s \in Seq(Token) BY Answers DEF TypeInv
  <2> HIDE DEF y
  <2>5. IsPrefix(Confirmation \o y, Confirmation \o s)
    BY <1>7, <2>2, <2>3, <2>4, PrefixBehind
  <2>6. Refusals' BY <1>1, <1>3, <2>2, <2>5 DEF Refusals
  <2> QED BY <1>10, <1>12, <2>6
<1> QED BY <1>9, <1>11, <1>12

LEMMA CopyDown ==
  ASSUME TypeInv, WhereInv, DownInv, NEW k \in {"far_down", "near_down"}, Copy(k)
  PROVE  DownInv'
<1> DEFINE t == Data("targetDown")
           c == Data("chanDown")
           l == Data("localDown")
<1>0. k \in Copiers BY DEF Copiers
<1>1. far' = far /\ conn' = conn /\ sent' = sent /\ copier' = copier /\ copier[k] = "copy"
  BY DEF Copy
<1>2. Socks5Answers' = Socks5Answers /\ Confirmation' = Confirmation /\ Failure' = Failure
  BY <1>1, ConnKept DEF Confirmation, Failure
<1>3. (Live' <=> Live) /\ Said' = Said /\ Fed' = Fed
      /\ (Started("near_down")' <=> Started("near_down")) /\ (Started("far_up")' <=> Started("far_up"))
  BY <1>1 DEF Live, Said, Fed, Started
<1>4. Started(k) /\ far \notin {"none", "decode"} BY <1>0, <1>1 DEF Started, WhereInv
<1>5. t \in Seq(Token) /\ c \in Seq(Token) /\ l \in Seq(Token) BY DataTypes
<1>6. /\ Data(Src(k)) # <<>>
      /\ pipe'[Src(k)].data = Tail(Data(Src(k)))
      /\ pipe'[Dst(k)].data = Data(Dst(k)) \o <<Head(Data(Src(k)))>>
      /\ \A r \in Pipes \ {Src(k), Dst(k)} : pipe'[r].data = pipe[r].data
  BY <1>0, CopyPipes
<1>7. CASE k = "far_down"
  <2>1. t # <<>> /\ Data("targetDown")' = Tail(t) /\ Data("localDown")' = l
        /\ pipe'["chanDown"].data = c \o <<Head(t)>> /\ pipe'["localDown"].data = l
    BY <1>6, <1>7, Ways DEF Data, Pipes
  <2>2. Started("far_up") BY <1>4, <1>7 DEF WhereInv
  <2>3. Live BY <2>2 DEF Live
  <2>4. <<Head(t)>> \in Seq(Token) /\ Len(Tail(t)) = Len(t) - 1 /\ Len(t) \in Nat
    <3> HIDE DEF t
    <3> QED BY <1>5, <2>1, HeadAndTail, LenProperties
  <2>5. copier'["near_down"] = "none" <=> copier["near_down"] = "none" BY <1>1
  <2>6. Got' = Got \o <<Head(t)>>
    <3> DEFINE x == <<Head(t)>>
    <3>1. x \in Seq(Token) /\ pipe'["chanDown"].data = Data("chanDown") \o x BY <2>1, <2>4
    <3> HIDE DEF x
    <3>2. Got' = Got \o x BY <2>1, <2>5, <3>1, GotGrows
    <3> QED BY <3>2 DEF x
  <2>7. Got \in Seq(Token) BY GotType
  <2>8. Got \o t = Confirmation \o (Said \o Fed) /\ Len(t) <= sent.target BY <2>3 DEF DownInv
  <2>9. sent.target \in Nat BY SentTypes
  <2>10. ~Started("near_down")' => Data("localDown")' = <<>> BY <1>3, <2>1 DEF DownInv
  <2> HIDE DEF t, c, l
  <2>11. (Got \o <<Head(t)>>) \o Tail(t) = Got \o t BY <1>5, <2>1, <2>7, TokensMove
  <2>12. Got' \o Data("targetDown")' = Confirmation' \o (Said' \o Fed')
    BY <1>2, <1>3, <2>1, <2>6, <2>8, <2>11
  <2>13. Len(Data("targetDown"))' <= sent.target' BY <1>1, <2>1, <2>4, <2>8, <2>9
  <2> QED BY <1>1, <1>3, <1>4, <2>2, <2>3, <2>10, <2>12, <2>13 DEF DownInv
<1>8. CASE k = "near_down"
  <2>1. c # <<>> /\ Data("chanDown")' = Tail(c) /\ Data("localDown")' = l \o <<Head(c)>>
        /\ Data("targetDown")' = t
    BY <1>6, <1>8, Ways DEF Data, Pipes
  <2>2. Got = Confirmation \o (l \o c) BY <1>4, <1>8 DEF Got
  <2>3. Got' = Confirmation' \o (Data("localDown")' \o Data("chanDown")') BY <1>3, <1>4, <1>8 DEF Got
  <2>4. ~Started("far_up")' => sent.target' = 0 /\ Data("targetDown")' = <<>>
    BY <1>1, <1>3, <2>1 DEF DownInv
  <2>5. Live' => Len(Data("targetDown"))' <= sent.target' BY <1>1, <1>3, <2>1 DEF DownInv
  <2>6. Live' => Got \o t = Confirmation \o (Said \o Fed) BY <1>3 DEF DownInv
  <2> HIDE DEF t, c, l
  <2>7. (l \o <<Head(c)>>) \o Tail(c) = l \o c BY <1>5, <2>1, TokensMove
  <2>8. Got' = Got BY <1>2, <2>1, <2>2, <2>3, <2>7
  <2>9. Live' => Got' \o Data("targetDown")' = Confirmation' \o (Said' \o Fed')
    BY <1>2, <1>3, <2>1, <2>6, <2>8
  <2>10. Refusals => Refusals' BY <1>1, <1>2, <2>8 DEF Refusals
  <2>11. ~Live' => Refusals' BY <1>3, <2>10 DEF DownInv
  <2> QED BY <1>1, <1>3, <1>4, <1>8, <2>4, <2>5, <2>9, <2>11 DEF DownInv
<1> QED BY <1>7, <1>8

LEMMA TargetSendsDown ==
  ASSUME TypeInv, WhereInv, DownInv, TargetSends
  PROVE  DownInv'
<1> DEFINE t == Data("targetDown")
           x == <<DownBytes[sent.target + 1]>>
<1>1. far' = far /\ conn' = conn /\ copier' = copier BY DEF TargetSends
<1>2. Confirmation' = Confirmation BY DEF Confirmation
<1>3. Started("far_up") BY DEF TargetSends, Started
<1>4. Live /\ far \notin {"none", "decode"} BY <1>3 DEF Live, WhereInv, Copiers
<1>5. Live' /\ Said' = Said /\ Started("far_up")' /\ (Started("near_down")' <=> Started("near_down"))
  BY <1>1, <1>3, <1>4 DEF Live, Said, Started
<1>6. DownBytes \in Seq(Token) /\ sent.target \in 0..Len(DownBytes) /\ Fed \in Seq(Token)
  BY SentTypes
<1>7. sent.target < Len(DownBytes) /\ sent'.target = sent.target + 1 BY DEF TargetSends, TypeInv
<1>8. DownBytes[sent.target + 1] \in Token /\ SubSeq(DownBytes, 1, sent.target + 1) = Fed \o x
  BY SMTT(30), <1>6, <1>7, Firsts DEF Fed
<1>9. x \in Seq(Token) /\ Len(x) = 1 BY <1>8
<1>10. Fed' = Fed \o x BY <1>7, <1>8 DEF Fed
<1>11. pipe' = Put(pipe, "targetDown", x) BY DEF TargetSends
<1> HIDE DEF x
<1>12. OnlyData(pipe, pipe', "targetDown", t \o x) BY <1>9, <1>11, PutEffect, PipeNames
<1>13. Data("targetDown")' = t \o x /\ Data("localDown")' = Data("localDown")
       /\ pipe'["localDown"].data = Data("localDown") /\ pipe'["chanDown"].data = Data("chanDown")
  BY <1>12 DEF OnlyData, Data, Pipes
<1>14. copier'["near_down"] = "none" <=> copier["near_down"] = "none" BY <1>1
<1>15. Got' = Got BY <1>13, <1>14, GotKept
<1>16. Got \in Seq(Token) /\ t \in Seq(Token) BY GotType, DataTypes
<1>17. Got \o t = Confirmation \o (Said \o Fed) /\ Len(t) <= sent.target BY <1>4 DEF DownInv
<1>18. Said \in Seq(Token) /\ Confirmation \in Seq(Token) BY AnswerTokens DEF Said
<1>19. ~Started("near_down")' => Data("localDown")' = <<>> BY <1>5, <1>13 DEF DownInv
<1> HIDE DEF t
<1>20. Got \o (t \o x) = (Got \o t) \o x BY <1>9, <1>16, TokensJoined
<1>21. Said \o (Fed \o x) = (Said \o Fed) \o x /\ Said \o Fed \in Seq(Token)
  BY ZenonT(30), <1>6, <1>9, <1>18, TokensJoined
<1>22. Confirmation \o ((Said \o Fed) \o x) = (Confirmation \o (Said \o Fed)) \o x
  <2> DEFINE y == Said \o Fed
  <2>1. y \in Seq(Token) BY <1>21
  <2> HIDE DEF y
  <2>2. Confirmation \o (y \o x) = (Confirmation \o y) \o x BY <1>9, <1>18, <2>1, TokensJoined
  <2> QED BY <2>2 DEF y
<1>23. Got' \o Data("targetDown")' = Confirmation' \o (Said' \o Fed')
  BY <1>2, <1>5, <1>10, <1>13, <1>15, <1>17, <1>20, <1>21, <1>22
<1>24. Len(t \o x) = Len(t) + Len(x) /\ Len(t) \in Nat BY <1>9, <1>16, Joined
<1>25. Len(Data("targetDown"))' <= sent.target'
  <2>1. sent.target \in Nat BY <1>6
  <2> QED BY <1>7, <1>9, <1>13, <1>17, <1>24, <2>1
<1> QED BY <1>1, <1>4, <1>5, <1>19, <1>23, <1>25 DEF DownInv

-----------------------------------------------------------------------------
(* Every action keeps the invariant. *)

LEMMA SteadyQuiet ==
  ASSUME conn' = conn, faults \subseteq faults', PipesSteady, copier' = copier,
         near' = near \/ near \notin {"done", "dropped"}, far' = far \/ far # "done"
  PROVE  Steady
BY DEF Steady, Started, FarGaveUp

LEMMA SteadyCopier ==
  ASSUME TypeInv, conn' = conn, faults' = faults, PipesSteady, near' = near, far' = far,
         NEW k \in Copiers, NEW v \in States, v # "none", copier[k] = "copy",
         copier' = [copier EXCEPT ![k] = v]
  PROVE  /\ Steady
         /\ copier' \in [Copiers -> States] /\ copier'[k] = v
         /\ \A c \in Copiers \ {k} : copier'[c] = copier[c]
         /\ \A c \in Copiers : copier'[c] = "none" <=> copier[c] = "none"
<1>1. copier \in [Copiers -> States] BY DEF TypeInv
<1>2. /\ copier' \in [Copiers -> States] /\ copier'[k] = v
      /\ \A c \in Copiers \ {k} : copier'[c] = copier[c]
  BY <1>1
<1>3. \A c \in Copiers : copier'[c] = "none" <=> copier[c] = "none" BY <1>2
<1>4. "near_up" \in Copiers /\ "far_up" \in Copiers BY DEF Copiers
<1>5. \A c \in Copiers : Over(c) => copier'[c] = copier[c] BY <1>2 DEF Over
<1>6. Steady BY <1>3, <1>4, <1>5 DEF Steady, Started, FarGaveUp
<1> QED BY <1>2, <1>3, <1>6

LEMMA NearOpenInv ==
  ASSUME IInv, NearOpen
  PROVE  IInv'
<1>1. TypeInv /\ ConnInv /\ WhereInv /\ UpInv /\ DownInv /\ EndInv BY DEF IInv
<1>2. /\ near = "open" /\ near' = "wait" /\ far' = "decode" /\ todo' = DecodedTypes
      /\ conn' = conn /\ copier' = copier /\ sent' = sent /\ faults' = faults
      /\ End("chanUp") = "open"
  BY DEF NearOpen, End
<1>3. /\ pipe' \in PipeStates /\ SameEnds(pipe, pipe', Pipes)
      /\ OnlyData(pipe, pipe', "chanUp", Data("chanUp") \o OpenMessage)
  BY <1>1, NearOpenPipes
<1>4. TypeInv'
  <2>1. DecodedTypes \in Seq({"varint", "string"}) BY <1>1, FieldsMatch DEF TypeInv
  <2>2. near' \in Nears /\ far' \in Fars BY <1>2 DEF Nears, Fars
  <2>3. copier' \in [Copiers -> States]
        /\ sent' \in [app : 0..Len(Script), target : 0..Len(DownBytes)]
    BY <1>1, <1>2 DEF TypeInv
  <2> QED BY <1>1, <1>2, <1>3, <2>1, <2>2, <2>3, TypeFrame
<1>5. ConnInv' BY <1>1, <1>2, ConnKept
<1>6. WhereInv'
  <2>1. far = "none" /\ \A c \in Copiers : ~Started(c) BY <1>1, <1>2 DEF WhereInv
  <2>2. \A c \in Copiers : copier[c] = "none" BY <2>1 DEF Started
  <2> QED BY <1>2, <2>2
       DEF WhereInv, Started, Negotiating, Copiers, NearCopiers, FarCopiers
<1>7. UpInv' BY <1>1, NearOpenUp
<1>8. DownInv' BY <1>1, NearOpenDown
<1>9. Steady
  <2>1. PipesSteady BY <1>2, <1>3, OnePipe, PipeNames
  <2>2. far # "done" BY <1>1, <1>2 DEF WhereInv
  <2> QED BY <1>2, <2>1, <2>2, SteadyQuiet
<1>10. EndInv'
  <2>1. NearGaveUp' => NearGaveUp BY <1>2 DEF NearGaveUp
  <2> QED BY <1>1, <1>2, <1>3, <1>9, <2>1, EndsKept
<1> QED BY <1>4, <1>5, <1>6, <1>7, <1>8, <1>10 DEF IInv

LEMMA NearConfirmedInv ==
  ASSUME IInv, NearConfirmed
  PROVE  IInv'
<1>1. TypeInv /\ ConnInv /\ WhereInv /\ UpInv /\ DownInv /\ EndInv BY DEF IInv
<1>2. /\ near = "wait" /\ near' = "relay" /\ far' = far /\ todo' = todo
      /\ conn' = conn /\ sent' = sent /\ faults' = faults
  BY DEF NearConfirmed
<1>3. /\ pipe' \in PipeStates /\ SameEnds(pipe, pipe', Pipes)
      /\ OnlyData(pipe, pipe', "chanDown", SubSeq(Data("chanDown"), 3, Len(Data("chanDown"))))
  BY <1>1, NearConfirmedPipes
<1>4. /\ copier' \in [Copiers -> States]
      /\ copier'["near_up"] = "copy" /\ copier'["near_down"] = "copy"
      /\ copier'["far_up"] = copier["far_up"] /\ copier'["far_down"] = copier["far_down"]
  BY <1>1 DEF NearConfirmed, TypeInv, Copiers, NearCopiers, States
<1>5. far \notin {"none", "decode"} /\ ~Started("near_up") /\ ~Started("near_down")
  BY <1>1, <1>2, NearConfirmedGot DEF WhereInv
<1>6. TypeInv'
  <2>1. near' \in Nears BY <1>2 DEF Nears
  <2>2. far' \in Fars /\ todo' \in Seq({"varint", "string"})
        /\ sent' \in [app : 0..Len(Script), target : 0..Len(DownBytes)]
    BY <1>1, <1>2 DEF TypeInv
  <2> QED BY <1>1, <1>2, <1>3, <1>4, <2>1, <2>2, TypeFrame
<1>7. ConnInv' BY <1>1, <1>2, ConnKept
<1>8. WhereInv'
  BY <1>1, <1>2, <1>4, <1>5
  DEF WhereInv, Started, Negotiating, Copiers, NearCopiers, FarCopiers
<1>9. UpInv' BY <1>1, NearConfirmedUp
<1>10. DownInv' BY <1>1, NearConfirmedDown
<1>11. Steady
  <2>1. Data("chanDown") # <<>>
    <3>1. Data("chanDown") = Confirmation \o Data("chanDown")' BY <1>1, NearConfirmedPipes
    <3>2. Data("chanDown")' \in Seq(Token) BY <1>3, PipeFields, PipeNames DEF Data
    <3> QED BY <3>1, <3>2, AnswerTokens, Joined, EmptySeq
  <2>2. PipesSteady BY <1>3, <2>1, OnePipe, PipeNames
  <2>3. \A c \in Copiers : Over(c) => copier'[c] = copier[c]
    BY <1>4, <1>5 DEF Over, Started, Copiers
  <2> QED BY <1>2, <1>4, <2>2, <2>3 DEF Steady, Started, FarGaveUp
<1>12. EndInv'
  <2>1. NearGaveUp' => NearGaveUp BY <1>2 DEF NearGaveUp
  <2> QED BY <1>1, <1>3, <1>4, <1>11, <2>1, EndsKept
<1> QED BY <1>6, <1>7, <1>8, <1>9, <1>10, <1>12 DEF IInv

(* Without a fault, the near side gives up only where the far side has. *)
LEMMA RefusedForAReason ==
  ASSUME IInv, NearRefused, faults = {}
  PROVE  ~Started("far_up")
<1>1. TypeInv /\ WhereInv /\ DownInv /\ EndInv BY DEF IInv
<1>2. near \in {"open", "wait"} /\ ~Started("near_up") /\ ~Started("near_down")
  BY <1>1 DEF NearRefused, WhereInv
<1>3. CASE near = "open" BY <1>1, <1>3 DEF WhereInv, Copiers
<1>4. CASE near = "wait"
  <2> SUFFICES ASSUME Started("far_up") PROVE FALSE OBVIOUS
  <2>1. Live BY DEF Live
  <2> DEFINE d == Data("chanDown")
             t == Data("targetDown")
             y == Said \o Fed
  <2>2. d \o t = Confirmation \o y BY <1>1, <1>2, <2>1 DEF DownInv, Got
  <2>3. d \in Seq(Token) /\ t \in Seq(Token) BY <1>1, DataTypes
  <2>4. y \in Seq(Token)
    <3>1. Said \in Seq(Token) BY AnswerTokens DEF Said
    <3> QED BY <1>1, <3>1, SentTypes, TokensJoined
  <2>5. Confirmation \in Seq(Token) /\ Len(Confirmation) = 2 /\ Confirmation[1] = "confirm"
    BY AnswerTokens
  <2>6. ~FarGaveUp /\ ~NearGaveUp /\ DownOnly BY <1>4 DEF FarGaveUp, NearGaveUp, DownOnly
  <2>7. CASE IsPrefix(Failure, d)
    <3> HIDE DEF d, t, y
    <3>1. Failure \in Seq(Token) /\ Len(Failure) = 3 /\ Failure[1] = "failure" BY AnswerTokens
    <3>2. Len(Failure) <= Len(d) /\ \A i \in 1..Len(Failure) : Failure[i] = d[i]
      BY <2>3, <2>7, <3>1, PrefixByIndex
    <3>3. Len(d) \in Nat BY <2>3, LenProperties
    <3>4. 1 \in 1..Len(d) /\ 1 \in 1..Len(Confirmation) /\ 1 \in 1..Len(Failure)
      BY <2>5, <3>1, <3>2, <3>3
    <3>5. d[1] = "failure" BY <3>1, <3>2, <3>4
    <3>6. (d \o t)[1] = d[1] BY <2>3, <3>4, JoinedAt
    <3>7. (Confirmation \o y)[1] = Confirmation[1] BY <2>4, <2>5, <3>4, JoinedAt
    <3> QED BY <2>2, <2>5, <3>5, <3>6, <3>7
  <2>8. CASE End("chanDown") = "reset"
    BY <1>1, <2>6, <2>8 DEF EndInv, ChanDownEnd
  <2>9. CASE d = <<>> /\ End("chanDown") = "fin"
    <3>1. Drained("far_down") BY <1>1, <2>6, <2>9 DEF EndInv, ChanDownEnd
    <3>2. t = <<>> BY <3>1, Ways DEF Drained
    <3> HIDE DEF d, t, y
    <3>3. d \o t = <<>> BY <2>9, <3>2, AnswerTokens, ConcatEmptySeq
    <3>4. Len(Confirmation \o y) = Len(Confirmation) + Len(y) /\ Len(y) \in Nat
      BY <2>4, <2>5, Joined
    <3>5. Len(Confirmation \o y) # 0 BY <2>5, <3>4
    <3> QED BY <2>2, <3>3, <3>5, EmptySeq
  <2> QED BY <1>4, <2>7, <2>8, <2>9 DEF NearRefused, Data, End
<1> QED BY <1>2, <1>3, <1>4

LEMMA NearRefusedInv ==
  ASSUME IInv, NearRefused
  PROVE  IInv'
<1>1. TypeInv /\ ConnInv /\ WhereInv /\ UpInv /\ DownInv /\ EndInv BY DEF IInv
<1>2. /\ near \in {"open", "wait"} /\ near' = "done" /\ far' = far /\ todo' = todo
      /\ conn' = conn /\ copier' = copier /\ sent' = sent /\ faults' = faults
      /\ pipe' \in NearLetsGo(pipe)
  BY DEF NearRefused
<1>3. pipe' \in PipeStates /\ SameData(pipe, pipe') /\ NearClosed
  BY <1>1, <1>2, NearLetsGoEffect
<1>4. TypeInv'
  <2>1. near' \in Nears BY <1>2 DEF Nears
  <2>2. far' \in Fars /\ todo' \in Seq({"varint", "string"}) /\ copier' \in [Copiers -> States]
        /\ sent' \in [app : 0..Len(Script), target : 0..Len(DownBytes)]
    BY <1>1, <1>2 DEF TypeInv
  <2> QED BY <1>1, <1>2, <1>3, <2>1, <2>2, TypeFrame
<1>5. ConnInv' BY <1>1, <1>2, ConnKept
<1>6. WhereInv' BY <1>1, <1>2 DEF WhereInv, Started
<1>7. SameRoles /\ SameUp /\ SameDown BY <1>2, <1>3, SameBoth DEF SameRoles
<1>8. UpInv' /\ DownInv' BY <1>1, <1>2, <1>7, QuietUp, QuietDown
<1>9. Steady
  <2>1. PipesSteady BY <1>1, <1>3, NearClosedPipes, QuietPipes
  <2> QED BY <1>2, <2>1, SteadyQuiet
<1>10. EndInv'
  <2>1. ~Started("near_up") /\ ~Started("near_down") BY <1>1, <1>2 DEF WhereInv
  <2>2. NearGaveUp' /\ ~Started("near_up")' BY <1>2, <2>1 DEF NearGaveUp, Started
  <2>3. /\ pipe'["localUp"].end = pipe["localUp"].end
        /\ pipe'["targetUp"].end = pipe["targetUp"].end
        /\ pipe'["targetDown"].end = pipe["targetDown"].end
        /\ Closes(pipe, pipe', "chanDown", {"reset"})
    BY <1>3 DEF NearClosed, SameEnds
  <2>4. LocalUpEnd' /\ TargetUpEnd' /\ TargetDownEnd'
    BY <1>1, <1>9, <2>3, LocalUpKept, TargetUpKept, TargetDownKept
  <2>5. ChanUpEnd' BY <2>2 DEF ChanUpEnd
  <2>6. ChanDownEnd'
    <3>1. CASE pipe'["chanDown"].end = pipe["chanDown"].end
      BY <1>1, <1>9, <3>1, ChanDownKept
    <3>2. CASE pipe'["chanDown"].end = "reset" BY <2>2, <3>2 DEF ChanDownEnd, End
    <3> QED BY <2>3, <3>1, <3>2 DEF Closes
  <2>7. LocalDownEnd'
    <3>1. copier'["near_down"] # "done" BY <1>2, <2>1 DEF Started
    <3> QED BY <1>2, <2>2, <3>1 DEF LocalDownEnd
  <2>8. NearDownFails' BY <1>1, <1>2, <1>9, NearDownKept
  <2>9. GivenUp'
    <3>1. End("chanDown")' # "open" BY <2>3 DEF Closes, End
    <3>2. faults' = {} => ~Started("far_up")' BY <1>2, RefusedForAReason DEF Started
    <3> QED BY <3>1, <3>2 DEF GivenUp
  <2> QED BY <2>4, <2>5, <2>6, <2>7, <2>8, <2>9 DEF EndInv
<1> QED BY <1>4, <1>5, <1>6, <1>8, <1>10 DEF IInv

LEMMA NearReturnsInv ==
  ASSUME IInv, NearReturns \/ NearCancelled \/ (NearDropped /\ near = "relay")
  PROVE  IInv'
<1>1. TypeInv /\ ConnInv /\ WhereInv /\ UpInv /\ DownInv /\ EndInv BY DEF IInv
<1>2. /\ near \in {"relay", "cancelling"} /\ near' \in {"cancelling", "done", "dropped"}
      /\ near' = "cancelling" => "cancel" \in faults'
      /\ far' = far /\ todo' = todo /\ conn' = conn /\ copier' = copier /\ sent' = sent
      /\ pipe' = pipe /\ faults \subseteq faults'
  BY DEF NearReturns, NearCancelled, NearDropped, Fault
<1>3. pipe' \in PipeStates /\ SameData(pipe, pipe') /\ SameEnds(pipe, pipe', Pipes)
  BY <1>1, <1>2 DEF TypeInv, SameData, SameEnds
<1>4. TypeInv'
  <2>1. near' \in Nears BY <1>2 DEF Nears
  <2>2. far' \in Fars /\ todo' \in Seq({"varint", "string"}) /\ copier' \in [Copiers -> States]
        /\ sent' \in [app : 0..Len(Script), target : 0..Len(DownBytes)]
    BY <1>1, <1>2 DEF TypeInv
  <2> QED BY <1>1, <1>2, <1>3, <2>1, <2>2, TypeFrame
<1>5. ConnInv' BY <1>1, <1>2, ConnKept
<1>6. Started("near_up") BY <1>1, <1>2 DEF WhereInv
<1>7. WhereInv'
  <2>1. far # "none" BY <1>1, <1>2 DEF WhereInv
  <2> QED BY <1>1, <1>2, <1>6, <2>1 DEF WhereInv, Started
<1>8. SameRoles /\ SameUp /\ SameDown BY <1>2, <1>3, SameBoth DEF SameRoles
<1>9. UpInv' /\ DownInv' BY <1>1, <1>2, <1>8, QuietUp, QuietDown
<1>10. Steady
  <2>1. PipesSteady BY <1>2 DEF PipesSteady, End, Data
  <2> QED BY <1>2, <2>1, SteadyQuiet
<1>11. EndInv'
  <2>1. ~NearGaveUp' BY <1>2, <1>6 DEF NearGaveUp, Started
  <2> QED BY <1>1, <1>2, <1>3, <1>10, <2>1, EndsKept
<1> QED BY <1>4, <1>5, <1>7, <1>9, <1>11 DEF IInv

LEMMA NearDroppedInv ==
  ASSUME IInv, NearDropped, near # "relay"
  PROVE  IInv'
<1>1. TypeInv /\ ConnInv /\ WhereInv /\ UpInv /\ DownInv /\ EndInv BY DEF IInv
<1>2. /\ near \in {"open", "wait"} /\ near' = "dropped" /\ far' = far /\ todo' = todo
      /\ conn' = conn /\ copier' = copier /\ sent' = sent /\ faults' = faults \cup {"near"}
      /\ pipe' \in NearLetsGo(pipe)
  BY DEF NearDropped, Fault
<1>3. pipe' \in PipeStates /\ SameData(pipe, pipe') /\ NearClosed
  BY <1>1, <1>2, NearLetsGoEffect
<1>4. TypeInv'
  <2>1. near' \in Nears BY <1>2 DEF Nears
  <2>2. far' \in Fars /\ todo' \in Seq({"varint", "string"}) /\ copier' \in [Copiers -> States]
        /\ sent' \in [app : 0..Len(Script), target : 0..Len(DownBytes)]
    BY <1>1, <1>2 DEF TypeInv
  <2> QED BY <1>1, <1>2, <1>3, <2>1, <2>2, TypeFrame
<1>5. ConnInv' BY <1>1, <1>2, ConnKept
<1>6. WhereInv' BY <1>1, <1>2 DEF WhereInv, Started
<1>7. SameRoles /\ SameUp /\ SameDown BY <1>2, <1>3, SameBoth DEF SameRoles
<1>8. UpInv' /\ DownInv' BY <1>1, <1>2, <1>7, QuietUp, QuietDown
<1>9. Steady
  <2>1. PipesSteady BY <1>1, <1>3, NearClosedPipes, QuietPipes
  <2> QED BY <1>2, <2>1, SteadyQuiet
<1>10. EndInv'
  <2>1. ~Started("near_up") /\ ~Started("near_down") BY <1>1, <1>2 DEF WhereInv
  <2>2. ~UpOnly' /\ ~DownOnly' BY <1>2 DEF UpOnly, DownOnly
  <2>3. /\ pipe'["localUp"].end = pipe["localUp"].end
        /\ pipe'["targetUp"].end = pipe["targetUp"].end
        /\ pipe'["targetDown"].end = pipe["targetDown"].end
    BY <1>3 DEF NearClosed, SameEnds
  <2>4. LocalUpEnd' /\ TargetUpEnd' /\ TargetDownEnd'
    BY <1>1, <1>9, <2>3, LocalUpKept, TargetUpKept, TargetDownKept
  <2>5. ChanUpEnd' /\ ChanDownEnd' /\ NearDownFails'
    BY <2>2 DEF ChanUpEnd, ChanDownEnd, NearDownFails
  <2>6. LocalDownEnd'
    <3>1. copier'["near_down"] # "done" /\ ~Started("near_up")' BY <1>2, <2>1 DEF Started
    <3> QED BY <1>2, <2>2, <3>1 DEF LocalDownEnd
  <2>7. GivenUp' BY <1>2 DEF GivenUp, NearGaveUp
  <2> QED BY <2>4, <2>5, <2>6, <2>7 DEF EndInv
<1> QED BY <1>4, <1>5, <1>6, <1>8, <1>10 DEF IInv

(* The far handler lets the channel go before it relays. *)
LEMMA FarLetsGoEnds ==
  ASSUME TypeInv, WhereInv, EndInv, FarClosed, Steady, ~Started("far_up"), copier' = copier,
         near' = near, faults' = faults, far' = "done"
  PROVE  EndInv'
<1>1. FarGaveUp' BY DEF FarGaveUp, Started
<1>2. /\ pipe'["localUp"].end = pipe["localUp"].end
      /\ pipe'["targetUp"].end = pipe["targetUp"].end
      /\ pipe'["targetDown"].end = pipe["targetDown"].end
      /\ pipe'["localDown"].end = pipe["localDown"].end
      /\ Closes(pipe, pipe', "chanUp", {"reset"})
  BY DEF FarClosed, SameEnds
<1>3. LocalUpEnd' /\ TargetUpEnd' /\ TargetDownEnd' /\ LocalDownEnd'
  BY <1>2, LocalUpKept, TargetUpKept, TargetDownKept, LocalDownKept
<1>4. ChanUpEnd'
  <2>1. CASE pipe'["chanUp"].end = pipe["chanUp"].end BY <2>1, ChanUpKept
  <2>2. CASE pipe'["chanUp"].end = "reset" BY <1>1, <2>2 DEF ChanUpEnd, End
  <2> QED BY <1>2, <2>1, <2>2 DEF Closes
<1>5. ChanDownEnd' BY <1>1 DEF ChanDownEnd
<1>6. NearDownFails' BY <1>1 DEF NearDownFails
<1>7. GivenUp'
  <2>1. NearGaveUp' => NearGaveUp BY DEF NearGaveUp, Started
  <2> QED BY <2>1, GivenUpKept
<1> QED BY <1>3, <1>4, <1>5, <1>6, <1>7 DEF EndInv

(* What all such steps keep, whatever they do with the data. *)
LEMMA FarLetsGoFrame ==
  ASSUME TypeInv, ConnInv, WhereInv, EndInv, FarClosed, PipesSteady, pipe' \in PipeStates,
         far \in {"decode"} \cup Negotiating, far' = "done",
         conn' = conn, near' = near, todo' = todo, copier' = copier, sent' = sent,
         faults' = faults
  PROVE  TypeInv' /\ ConnInv' /\ WhereInv' /\ EndInv'
<1>1. far' \in Fars BY DEF Fars
<1>2. near' \in Nears /\ todo' \in Seq({"varint", "string"}) /\ copier' \in [Copiers -> States]
      /\ sent' \in [app : 0..Len(Script), target : 0..Len(DownBytes)]
  BY DEF TypeInv
<1>3. TypeInv' BY <1>1, <1>2, TypeFrame
<1>4. ConnInv' BY ConnKept
<1>5. near # "open" /\ ~Started("far_up") BY DEF WhereInv, Negotiating, Copiers
<1>6. WhereInv' BY <1>5 DEF WhereInv, Started, Negotiating
<1>7. far # "done" BY DEF Negotiating
<1>8. Steady BY <1>7, SteadyQuiet
<1>9. EndInv' BY <1>5, <1>8, FarLetsGoEnds
<1> QED BY <1>3, <1>4, <1>6, <1>9

(* A far handler that gives up without a word. *)
LEMMA FarSilentInv ==
  ASSUME IInv, far \in {"decode"} \cup Negotiating, far' = "done", pipe' \in FarLetsGo(pipe),
         conn' = conn, near' = near, todo' = todo, copier' = copier, sent' = sent,
         faults' = faults
  PROVE  IInv'
<1>1. TypeInv /\ ConnInv /\ WhereInv /\ UpInv /\ DownInv /\ EndInv BY DEF IInv
<1>2. pipe' \in PipeStates /\ SameData(pipe, pipe') /\ FarClosed BY <1>1, FarLetsGoEffect
<1>3. PipesSteady BY <1>1, <1>2, FarClosedPipes, QuietPipes
<1>4. TypeInv' /\ ConnInv' /\ WhereInv' /\ EndInv' BY <1>1, <1>2, <1>3, FarLetsGoFrame
<1>5. SameRoles /\ SameUp /\ SameDown BY <1>2, SameBoth DEF SameRoles
<1>6. UpInv' /\ DownInv' BY <1>1, <1>5, QuietUp, QuietDown
<1> QED BY <1>4, <1>6 DEF IInv

LEMMA FarReadFailsInv ==
  ASSUME IInv, FarReadFails
  PROVE  IInv'
<1>1. /\ far \in {"decode"} \cup Negotiating /\ far' = "done" /\ pipe' \in FarLetsGo(pipe)
      /\ conn' = conn /\ near' = near /\ todo' = todo /\ copier' = copier /\ sent' = sent
      /\ faults' = faults
  BY DEF FarReadFails, Negotiating
<1> QED BY <1>1, FarSilentInv

LEMMA FarDecodeInv ==
  ASSUME IInv, FarDecode
  PROVE  IInv'
<1>1. TypeInv /\ ConnInv /\ WhereInv /\ UpInv /\ DownInv /\ EndInv BY DEF IInv
<1>2. /\ far' = far /\ near' = near /\ todo' = Tail(todo) /\ todo # <<>>
      /\ conn' = conn /\ copier' = copier /\ sent' = sent /\ faults' = faults
      /\ Data("chanUp") # <<>>
  BY DEF FarDecode, Data
<1>3. /\ pipe' \in PipeStates /\ SameEnds(pipe, pipe', Pipes)
      /\ OnlyData(pipe, pipe', "chanUp", Tail(Data("chanUp")))
  BY <1>1, FarDecodePipes
<1>4. TypeInv'
  <2>1. Tail(todo) \in Seq({"varint", "string"}) BY <1>1, <1>2, HeadAndTail DEF TypeInv
  <2>2. near' \in Nears /\ far' \in Fars /\ copier' \in [Copiers -> States]
        /\ sent' \in [app : 0..Len(Script), target : 0..Len(DownBytes)]
    BY <1>1, <1>2 DEF TypeInv
  <2> QED BY <1>1, <1>2, <1>3, <2>1, <2>2, TypeFrame
<1>5. ConnInv' BY <1>1, <1>2, ConnKept
<1>6. WhereInv' BY <1>1, <1>2 DEF WhereInv, Started
<1>7. UpInv' BY <1>1, FarDecodeUp
<1>8. DownInv'
  <2>1. SameRoles BY <1>2 DEF SameRoles
  <2>2. SameDown BY <1>3 DEF SameDown, OnlyData, Pipes
  <2> QED BY <1>1, <1>2, <2>1, <2>2, QuietDown
<1>9. Steady
  <2>1. PipesSteady BY <1>2, <1>3, OnePipe, PipeNames
  <2> QED BY <1>2, <2>1, SteadyQuiet
<1>10. EndInv'
  <2>1. NearGaveUp' => NearGaveUp BY <1>2 DEF NearGaveUp, Started
  <2> QED BY <1>1, <1>2, <1>3, <1>9, <2>1, EndsKept
<1> QED BY <1>4, <1>5, <1>6, <1>7, <1>8, <1>10 DEF IInv

LEMMA ClosedOnePipe ==
  ASSUME NEW p \in Pipes, NEW w, OnlyData(pipe, pipe', p, w), End(p) = "open",
         \A r \in Pipes : pipe'[r].end = pipe[r].end \/ pipe[r].end = "open"
  PROVE  PipesSteady
BY DEF PipesSteady, OnlyData, End, Data

LEMMA FarRejectInv ==
  ASSUME IInv, far = "decode", FarReject
  PROVE  IInv'
<1>1. TypeInv /\ ConnInv /\ WhereInv /\ UpInv /\ DownInv /\ EndInv BY DEF IInv
<1>2. /\ far' = "done" /\ conn' = conn /\ near' = near /\ todo' = todo /\ copier' = copier
      /\ sent' = sent /\ faults' = faults
  BY DEF FarReject
<1>3. /\ pipe' \in PipeStates /\ FarClosed
      /\ \/ SameData(pipe, pipe')
         \/ /\ End("chanDown") = "open"
            /\ OnlyData(pipe, pipe', "chanDown", Data("chanDown") \o Failure)
  BY <1>1, FarRejectPipes
<1>4. PipesSteady
  BY <1>1, <1>3, FarClosedPipes, QuietPipes, ClosedOnePipe, PipeNames
<1>5. TypeInv' /\ ConnInv' /\ WhereInv' /\ EndInv' BY <1>1, <1>2, <1>3, <1>4, FarLetsGoFrame
<1>6. SameRoles /\ SameUp
  BY <1>2, <1>3 DEF SameRoles, SameUp, SameData, OnlyData, Pipes
<1>7. UpInv' BY <1>1, <1>2, <1>6, QuietUp
<1>8. DownInv' BY <1>1, FarRejectDown
<1> QED BY <1>5, <1>7, <1>8 DEF IInv

(* The open message is decoded and the channel confirmed. *)
LEMMA FarBeginsInv ==
  ASSUME IInv, far = "decode", todo = <<>>, End("chanDown") = "open",
         pipe' = Put(pipe, "chanDown", Confirmation),
         conn' = conn, near' = near, todo' = todo, sent' = sent, faults' = faults,
         \/ far' = "greeting" /\ copier' = copier /\ conn.kind = "socks5"
         \/ far' = "relay" /\ conn.kind # "socks5" /\ conn.port = "port" /\ StartFarCopiers
  PROVE  IInv'
<1>1. TypeInv /\ ConnInv /\ WhereInv /\ UpInv /\ DownInv /\ EndInv BY DEF IInv
<1>2. /\ pipe' \in PipeStates /\ SameEnds(pipe, pipe', Pipes)
      /\ OnlyData(pipe, pipe', "chanDown", Data("chanDown") \o Confirmation)
  BY <1>1, PutEffect, AnswerTokens, PipeNames
<1>3. \A c \in Copiers : copier[c] = "none" BY <1>1 DEF WhereInv, Started
<1>4. /\ copier' \in [Copiers -> States]
      /\ copier'["near_up"] = "none" /\ copier'["near_down"] = "none"
      /\ copier'["far_up"] = copier'["far_down"] /\ copier'["far_up"] \in {"none", "copy"}
      /\ far' = "greeting" => copier'["far_up"] = "none"
      /\ far' = "relay" => copier'["far_up"] = "copy"
  <2>1. CASE copier' = copier /\ far' = "greeting"
    <3>1. copier' \in [Copiers -> States] BY <1>1, <2>1 DEF TypeInv
    <3> QED BY <1>3, <2>1, <3>1 DEF Copiers
  <2>2. CASE StartFarCopiers /\ far' = "relay"
    <3>1. copier' \in [Copiers -> States]
      BY <1>1, <2>2 DEF TypeInv, StartFarCopiers, States
    <3> QED BY <1>3, <2>2, <3>1 DEF StartFarCopiers, Copiers, FarCopiers
  <2> QED BY <2>1, <2>2
<1>5. TypeInv'
  <2>1. far' \in Fars BY DEF Fars
  <2>2. near' \in Nears /\ todo' \in Seq({"varint", "string"})
        /\ sent' \in [app : 0..Len(Script), target : 0..Len(DownBytes)]
    BY <1>1 DEF TypeInv
  <2> QED BY <1>1, <1>2, <1>4, <2>1, <2>2, TypeFrame
<1>6. ConnInv' BY <1>1, ConnKept
<1>7. WhereInv'
  <2>1. near \notin {"open", "relay", "cancelling"}
    BY <1>1, <1>3 DEF WhereInv, Started, Copiers
  <2>2. conn.kind # "socks5" => conn.greeting = "noauth" /\ conn.request = "connect"
    BY <1>1 DEF ConnInv
  <2> QED BY <1>4, <2>1, <2>2
       DEF WhereInv, Started, Negotiating, Copiers, NearCopiers, FarCopiers
<1>8. SameUp BY <1>2 DEF SameUp, OnlyData, Pipes
<1>9. UpInv' BY <1>1, <1>8, FarBeginsUp
<1>10. DownInv' BY <1>1, FarBeginsDown
<1>11. Steady
  <2>1. PipesSteady BY <1>2, OnePipe, PipeNames
  <2>2. \A c \in Copiers : Over(c) => copier'[c] = copier[c] BY <1>3 DEF Over
  <2> QED BY <1>4, <2>1, <2>2 DEF Steady, FarGaveUp
<1>12. EndInv'
  <2>1. NearGaveUp' => NearGaveUp BY <1>3 DEF NearGaveUp, Started, Copiers
  <2>2. copier'["near_down"] = copier["near_down"] BY <1>3, <1>4 DEF Copiers
  <2>3. pipe["chanDown"].end = "open" BY DEF End
  <2> QED BY <1>1, <1>2, <1>11, <2>1, <2>2, <2>3, EndsKept
<1> QED BY <1>5, <1>6, <1>7, <1>9, <1>10, <1>12 DEF IInv

LEMMA FarConnectsInv ==
  ASSUME IInv, FarConnects \/ FarAcceptsSocks5
  PROVE  IInv'
<1>1. /\ far = "decode" /\ todo = <<>> /\ conn' = conn /\ near' = near /\ todo' = todo
      /\ sent' = sent /\ faults' = faults
  BY DEF FarConnects, FarAcceptsSocks5
<1>2. CASE End("chanDown") = "open"
  <2>1. /\ pipe' = Put(pipe, "chanDown", Confirmation)
        /\ \/ far' = "greeting" /\ copier' = copier /\ conn.kind = "socks5"
           \/ far' = "relay" /\ conn.kind # "socks5" /\ conn.port = "port" /\ StartFarCopiers
    BY <1>2 DEF FarConnects, FarAcceptsSocks5, End
  <2> QED BY <1>1, <1>2, <2>1, FarBeginsInv
<1>3. CASE End("chanDown") # "open"
  <2>1. pipe' \in FarLetsGo(pipe) /\ far' = "done" /\ copier' = copier
    BY <1>3 DEF FarConnects, FarAcceptsSocks5, End
  <2> QED BY <1>1, <2>1, FarSilentInv
<1> QED BY <1>2, <1>3

(* The negotiation, by what the client asked. *)
LEMMA Socks5GreetingCases ==
  ASSUME IInv, Socks5Greeting
  PROVE  \/ conn.greeting = "badversion" /\ Socks5Step("greeting", <<>>, "done")
         \/ conn.greeting = "otherauth" /\ Socks5Step("greeting", <<"method_none">>, "done")
         \/ conn.greeting = "noauth" /\ Socks5Step("greeting", <<"method_ok">>, "request")
<1>1. TypeInv /\ WhereInv /\ UpInv BY DEF IInv
<1>2. far = "greeting" /\ Data("chanUp") # <<>> BY DEF Socks5Greeting, Data
<1>3. Head(pipe["chanUp"].data) = conn.greeting BY <1>1, <1>2, ReadsHandshake DEF Data
<1>4. conn.greeting \in {"noauth", "otherauth", "badversion"} BY <1>1 DEF TypeInv, Conns
<1>5. CASE conn.greeting = "badversion" BY <1>3, <1>5 DEF Socks5Greeting
<1>6. CASE conn.greeting = "otherauth" BY <1>3, <1>6 DEF Socks5Greeting
<1>7. CASE conn.greeting = "noauth" BY <1>3, <1>7 DEF Socks5Greeting
<1> QED BY <1>4, <1>5, <1>6, <1>7

LEMMA Socks5RequestCases ==
  ASSUME IInv, Socks5Request
  PROVE  \/ conn.request \in {"badversion", "badatyp"} /\ Socks5Step("request", <<>>, "done")
         \/ conn.request = "bind" /\ Socks5Step("request", <<"unsupported">>, "done")
         \/ conn.request = "connect" /\ Socks5Step("request", <<>>, "connect")
<1>1. TypeInv /\ WhereInv /\ UpInv BY DEF IInv
<1>2. far = "request" /\ Data("chanUp") # <<>> BY DEF Socks5Request, Data
<1>3. Head(pipe["chanUp"].data) = conn.request BY <1>1, <1>2, ReadsHandshake DEF Data
<1>4. conn.request \in {"connect", "bind", "badversion", "badatyp"} BY <1>1 DEF TypeInv, Conns
<1>5. CASE conn.request \in {"badversion", "badatyp"} BY <1>3, <1>5 DEF Socks5Request
<1>6. CASE conn.request = "bind" BY <1>3, <1>6 DEF Socks5Request
<1>7. CASE conn.request = "connect" BY <1>3, <1>7 DEF Socks5Request
<1> QED BY <1>4, <1>5, <1>6, <1>7

LEMMA Socks5StepInv ==
  ASSUME IInv, NEW from \in {"greeting", "request"}, NEW w \in Seq(Token), NEW to,
         Socks5Step(from, w, to),
         \/ to = "done" /\ \E s \in Socks5Answers : IsPrefix(Said \o w, s)
         \/ from = "greeting" /\ to = "request" /\ conn.greeting = "noauth" /\ w = <<"method_ok">>
         \/ from = "request" /\ to = "connect" /\ conn.request = "connect" /\ w = <<>>
  PROVE  IInv'
<1>1. TypeInv /\ ConnInv /\ WhereInv /\ UpInv /\ DownInv /\ EndInv BY DEF IInv
<1>2. /\ far = from /\ conn' = conn /\ near' = near /\ todo' = todo /\ copier' = copier
      /\ sent' = sent /\ faults' = faults
  BY DEF Socks5Step
<1>3. /\ pipe' \in PipeStates /\ Data("chanUp") # <<>>
      /\ pipe'["chanUp"].data = Tail(Data("chanUp"))
      /\ \A r \in Pipes \ {"chanUp", "chanDown"} : pipe'[r].data = pipe[r].data
      /\ \/ /\ to # "done" /\ far' = to /\ End("chanDown") = "open"
            /\ pipe'["chanDown"].data = Data("chanDown") \o w
            /\ SameEnds(pipe, pipe', Pipes)
         \/ /\ far' = "done" /\ FarClosed
            /\ \/ pipe'["chanDown"].data = Data("chanDown")
               \/ /\ to = "done" /\ End("chanDown") = "open"
                  /\ pipe'["chanDown"].data = Data("chanDown") \o w
  BY <1>1, Socks5StepPipes
<1>4. far \in Negotiating /\ far \in {"greeting", "request"} BY <1>2 DEF Negotiating
<1>5. conn.kind = "socks5" /\ ~Started("far_up") /\ Said \in Seq(Token)
  BY <1>1, <1>4, Negotiated
<1>6. \/ far' = "done"
      \/ far = "greeting" /\ far' = "request"
      \/ far = "request" /\ far' = "connect"
  BY <1>2, <1>3
<1>7. UpInv' BY <1>1, <1>2, <1>3, <1>4, <1>6, Socks5StepUp
<1>8. /\ pipe'["localDown"].data = Data("localDown")
      /\ pipe'["targetDown"].data = Data("targetDown")
  BY <1>3 DEF Data, Pipes
<1>9. far' \notin {"none", "decode"} BY <1>6
<1>10. ~Started("far_up")' /\ (Live' <=> far' # "done")
  BY <1>2, <1>5, <1>6 DEF Started, Live, Negotiating
<1>11. CASE /\ to # "done" /\ far' = to /\ End("chanDown") = "open"
            /\ pipe'["chanDown"].data = Data("chanDown") \o w
            /\ SameEnds(pipe, pipe', Pipes)
  <2>1. TypeInv'
    <3>1. far' \in Fars BY <1>6 DEF Fars
    <3>2. near' \in Nears /\ todo' \in Seq({"varint", "string"}) /\ copier' \in [Copiers -> States]
          /\ sent' \in [app : 0..Len(Script), target : 0..Len(DownBytes)]
      BY <1>1, <1>2 DEF TypeInv
    <3> QED BY <1>1, <1>2, <1>3, <3>1, <3>2, TypeFrame
  <2>2. ConnInv' BY <1>1, <1>2, ConnKept
  <2>3. WhereInv'
    <3>1. near # "open" BY <1>1, <1>4 DEF WhereInv
    <3>2. \/ far = "greeting" /\ far' = "request" /\ conn.greeting = "noauth"
          \/ far = "request" /\ far' = "connect" /\ conn.request = "connect"
      BY <1>2, <1>11
    <3>3. far = "request" => conn.greeting = "noauth" BY <1>1 DEF WhereInv
    <3> QED BY <1>1, <1>2, <1>5, <3>1, <3>2, <3>3 DEF WhereInv, Started, Negotiating
  <2>4. Said' = Said \o w
    <3>1. CASE far = "greeting" /\ far' = "request" /\ w = <<"method_ok">>
      <4>1. Said = <<>> /\ Said' = <<"method_ok">>
        BY <1>2, <1>5, <1>10, <3>1 DEF Said
      <4> QED BY <3>1, <4>1, ConcatEmptySeq
    <3>2. CASE far = "request" /\ far' = "connect" /\ w = <<>>
      <4>1. Said' = Said BY <1>2, <1>5, <1>10, <3>2 DEF Said
      <4>2. Said \o <<>> = Said BY <1>5, ConcatEmptySeq
      <4> QED BY <3>2, <4>1, <4>2
    <3> QED BY <1>2, <1>11, <3>1, <3>2
  <2>5. Live' BY <1>10, <1>11
  <2>6. DownInv' BY <1>1, <1>2, <1>4, <1>8, <1>9, <1>11, <2>4, <2>5, NegotiationDown
  <2>7. Steady
    <3>1. PipesSteady BY <1>3, <1>11 DEF PipesSteady, SameEnds, End, Data, Pipes
    <3>2. far # "done" BY <1>4
    <3> QED BY <1>2, <3>1, <3>2, SteadyQuiet
  <2>8. EndInv'
    <3>1. NearGaveUp' => NearGaveUp BY <1>2 DEF NearGaveUp, Started
    <3> QED BY <1>1, <1>2, <1>11, <2>7, <3>1, EndsKept
  <2> QED BY <1>7, <2>1, <2>2, <2>3, <2>6, <2>8 DEF IInv
<1>12. CASE /\ far' = "done" /\ FarClosed
            /\ \/ pipe'["chanDown"].data = Data("chanDown")
               \/ /\ to = "done" /\ End("chanDown") = "open"
                  /\ pipe'["chanDown"].data = Data("chanDown") \o w
  <2>1. \A p \in Pipes : pipe'[p].end = pipe[p].end \/ pipe[p].end = "open"
    BY <1>1, <1>12, FarClosedPipes
  <2>2. PipesSteady BY <1>3, <1>12, <2>1 DEF PipesSteady, End, Data, Pipes
  <2>3. TypeInv' /\ ConnInv' /\ WhereInv' /\ EndInv'
    BY <1>1, <1>2, <1>3, <1>4, <1>12, <2>2, FarLetsGoFrame
  <2>4. ~Live' BY <1>10, <1>12
  <2>5. \/ pipe'["chanDown"].data = Data("chanDown")
        \/ /\ pipe'["chanDown"].data = Data("chanDown") \o w
           /\ \E s \in Socks5Answers : IsPrefix(Said \o w, s)
    BY <1>12
  <2>6. copier'["near_down"] = copier["near_down"] BY <1>2
  <2>7. DownInv' BY <1>1, <1>2, <1>4, <1>8, <1>9, <2>4, <2>5, <2>6, NegotiationDown
  <2> QED BY <1>7, <2>3, <2>7 DEF IInv
<1> QED BY <1>3, <1>11, <1>12

LEMMA Socks5GreetingInv ==
  ASSUME IInv, Socks5Greeting
  PROVE  IInv'
<1>1. TypeInv /\ ConnInv /\ WhereInv /\ DownInv BY DEF IInv
<1>2. far = "greeting" BY DEF Socks5Greeting
<1>3. conn.kind = "socks5" /\ ~Started("far_up") BY <1>1, <1>2 DEF WhereInv, Negotiating
<1>4. Said = <<>> BY <1>2, <1>3 DEF Said
<1>5. "greeting" \in {"greeting", "request"} OBVIOUS
<1>6. CASE conn.greeting = "badversion" /\ Socks5Step("greeting", <<>>, "done")
  <2>1. <<>> \in Socks5Answers /\ <<>> \in Seq(Token) BY <1>1, <1>6, Answers, AnswerTokens DEF TypeInv
  <2>2. IsPrefix(Said \o <<>>, <<>>) BY <1>4, <2>1, PrefixSelf, ConcatEmptySeq
  <2> QED BY <1>5, <1>6, <2>1, <2>2, Socks5StepInv
<1>7. CASE conn.greeting = "otherauth" /\ Socks5Step("greeting", <<"method_none">>, "done")
  <2> DEFINE w == <<"method_none">>
  <2>1. w \in Socks5Answers /\ w \in Seq(Token) BY <1>1, <1>7, Answers, AnswerTokens DEF TypeInv
  <2>2. Socks5Step("greeting", w, "done") BY <1>7
  <2> HIDE DEF w
  <2>3. IsPrefix(w, w) /\ <<>> \o w = w BY <2>1, PrefixSelf, ConcatEmptySeq
  <2>4. IsPrefix(Said \o w, w) BY <1>4, <2>3
  <2> QED BY <1>5, <2>1, <2>2, <2>4, Socks5StepInv
<1>8. CASE conn.greeting = "noauth" /\ Socks5Step("greeting", <<"method_ok">>, "request")
  <2>1. <<"method_ok">> \in Seq(Token) BY AnswerTokens
  <2> QED BY <1>5, <1>8, <2>1, Socks5StepInv
<1> QED BY <1>6, <1>7, <1>8, Socks5GreetingCases

LEMMA Socks5RequestInv ==
  ASSUME IInv, Socks5Request
  PROVE  IInv'
<1>1. TypeInv /\ ConnInv /\ WhereInv /\ DownInv BY DEF IInv
<1>2. far = "request" BY DEF Socks5Request
<1>3. conn.kind = "socks5" /\ ~Started("far_up") /\ conn.greeting = "noauth"
  BY <1>1, <1>2 DEF WhereInv, Negotiating
<1>4. Said = <<"method_ok">> BY <1>2, <1>3 DEF Said
<1>5. "request" \in {"greeting", "request"} OBVIOUS
<1>6. <<>> \in Seq(Token) /\ <<"method_ok">> \in Seq(Token) BY AnswerTokens
<1>7. CASE conn.request \in {"badversion", "badatyp"} /\ Socks5Step("request", <<>>, "done")
  <2>1. PICK s \in Socks5Answers : IsPrefix(<<"method_ok">>, s)
    BY <1>1, <1>3, Answers DEF TypeInv
  <2>2. Said \o <<>> = Said BY <1>4, <1>6, ConcatEmptySeq
  <2>3. IsPrefix(Said \o <<>>, s) BY <1>4, <2>1, <2>2
  <2> QED BY <1>5, <1>6, <1>7, <2>3, Socks5StepInv
<1>8. CASE conn.request = "bind" /\ Socks5Step("request", <<"unsupported">>, "done")
  <2> DEFINE w == <<"unsupported">>
             y == <<"method_ok", "unsupported">>
  <2>1. /\ y \in Socks5Answers /\ y \in Seq(Token) /\ w \in Seq(Token)
        /\ <<"method_ok">> \o w = y
    BY <1>1, <1>3, <1>8, Answers, AnswerTokens DEF TypeInv
  <2>2. Socks5Step("request", w, "done") BY <1>8
  <2> HIDE DEF w, y
  <2>3. IsPrefix(y, y) BY <2>1, PrefixSelf
  <2>4. IsPrefix(Said \o w, y) BY <1>4, <2>1, <2>3
  <2> QED BY <1>5, <2>1, <2>2, <2>4, Socks5StepInv
<1>9. CASE conn.request = "connect" /\ Socks5Step("request", <<>>, "connect")
  BY <1>5, <1>6, <1>9, Socks5StepInv
<1> QED BY <1>7, <1>8, <1>9, Socks5RequestCases

LEMMA Socks5ConnectsInv ==
  ASSUME IInv, Socks5Connects
  PROVE  IInv'
<1>1. TypeInv /\ ConnInv /\ WhereInv /\ UpInv /\ DownInv /\ EndInv BY DEF IInv
<1>2. /\ far = "connect" /\ conn' = conn /\ near' = near /\ todo' = todo
      /\ sent' = sent /\ faults' = faults
  BY DEF Socks5Connects
<1>3. far \in Negotiating BY <1>2 DEF Negotiating
<1>4. CASE End("chanDown") # "open"
  <2>1. pipe' \in FarLetsGo(pipe) /\ far' = "done" /\ copier' = copier
    BY <1>4 DEF Socks5Connects, End
  <2> QED BY <1>2, <1>3, <2>1, FarSilentInv
<1>5. CASE End("chanDown") = "open"
  <2> DEFINE w == <<"granted">>
  <2>1. pipe' = Put(pipe, "chanDown", w) /\ StartFarCopiers /\ far' = "relay"
    BY <1>5 DEF Socks5Connects, End
  <2>2. w \in Seq(Token) /\ <<"method_ok">> \o w = <<"method_ok", "granted">>
    BY AnswerTokens
  <2> HIDE DEF w
  <2>3. /\ pipe' \in PipeStates /\ SameEnds(pipe, pipe', Pipes)
        /\ OnlyData(pipe, pipe', "chanDown", Data("chanDown") \o w)
    BY <1>1, <2>1, <2>2, PutEffect, PipeNames
  <2>4. /\ conn.kind = "socks5" /\ conn.port = "port" /\ conn.greeting = "noauth"
        /\ conn.request = "connect" /\ copier["far_up"] = "none" /\ copier["far_down"] = "none"
        /\ near # "open"
    BY <1>1, <1>2, <1>3 DEF WhereInv, ConnInv, Started
  <2>5. /\ copier' \in [Copiers -> States]
        /\ copier'["near_up"] = copier["near_up"] /\ copier'["near_down"] = copier["near_down"]
        /\ copier'["far_up"] = "copy" /\ copier'["far_down"] = "copy"
    <3>1. copier' \in [Copiers -> States]
      BY <1>1, <2>1 DEF TypeInv, StartFarCopiers, States
    <3> QED BY <2>1, <3>1 DEF StartFarCopiers, Copiers, FarCopiers
  <2>6. TypeInv'
    <3>1. far' \in Fars BY <2>1 DEF Fars
    <3>2. near' \in Nears /\ todo' \in Seq({"varint", "string"})
          /\ sent' \in [app : 0..Len(Script), target : 0..Len(DownBytes)]
      BY <1>1, <1>2 DEF TypeInv
    <3> QED BY <1>1, <1>2, <2>3, <2>5, <3>1, <3>2, TypeFrame
  <2>7. ConnInv' BY <1>1, <1>2, ConnKept
  <2>8. WhereInv'
    BY <1>1, <1>2, <2>1, <2>4, <2>5
    DEF WhereInv, Started, Negotiating, NearCopiers, FarCopiers
  <2>9. SameUp BY <2>3 DEF SameUp, OnlyData, Pipes
  <2>10. UpInv' BY <1>1, <1>2, <2>1, <2>9, Socks5ConnectsUp
  <2>11. DownInv'
    <3>1. Live' BY <2>5 DEF Live, Started
    <3>2. Said = <<"method_ok">> /\ Said' = <<"method_ok", "granted">>
      BY <1>2, <2>4, <2>5 DEF Said, Started
    <3>3. Said' = Said \o w BY <2>2, <3>2
    <3>4. /\ pipe'["localDown"].data = Data("localDown")
          /\ pipe'["targetDown"].data = Data("targetDown")
          /\ pipe'["chanDown"].data = Data("chanDown") \o w
      BY <2>3 DEF OnlyData, Data, Pipes
    <3>5. far' \notin {"none", "decode"} BY <2>1
    <3> QED BY <1>1, <1>2, <1>3, <2>2, <2>5, <3>1, <3>3, <3>4, <3>5, NegotiationDown
  <2>12. Steady
    <3>1. PipesSteady BY <1>5, <2>3, OnePipe, PipeNames
    <3>2. \A c \in Copiers : Over(c) => copier'[c] = copier[c]
      BY <2>4, <2>5 DEF Over, Copiers
    <3> QED BY <1>2, <2>5, <3>1, <3>2 DEF Steady, FarGaveUp, Started
  <2>13. EndInv'
    <3>1. NearGaveUp' => NearGaveUp BY <1>2, <2>5 DEF NearGaveUp, Started
    <3>2. pipe["chanDown"].end = "open" BY <1>5 DEF End
    <3> QED BY <1>1, <2>3, <2>5, <2>12, <3>1, <3>2, EndsKept
  <2> QED BY <2>6, <2>7, <2>8, <2>10, <2>11, <2>13 DEF IInv
<1> QED BY <1>4, <1>5

LEMMA Socks5ConnectFailsInv ==
  ASSUME IInv, Socks5ConnectFails
  PROVE  IInv'
<1>1. TypeInv /\ ConnInv /\ WhereInv /\ UpInv /\ DownInv /\ EndInv BY DEF IInv
<1>2. /\ far = "connect" /\ far' = "done" /\ conn' = conn /\ near' = near /\ todo' = todo
      /\ copier' = copier /\ sent' = sent /\ faults' = faults
  BY DEF Socks5ConnectFails
<1>3. far \in Negotiating BY <1>2 DEF Negotiating
<1> DEFINE w == <<"refused">>
           y == <<"method_ok", "refused">>
<1>4. /\ pipe' \in PipeStates /\ FarClosed
      /\ \/ SameData(pipe, pipe')
         \/ End("chanDown") = "open" /\ OnlyData(pipe, pipe', "chanDown", Data("chanDown") \o w)
  BY <1>1, Socks5ConnectFailsPipes
<1>5. conn.kind = "socks5" /\ ~Started("far_up") /\ conn.greeting = "noauth"
      /\ conn.request = "connect"
  BY <1>1, <1>2, <1>3 DEF WhereInv
<1>6. /\ w \in Seq(Token) /\ y \in Seq(Token) /\ <<"method_ok">> \o w = y /\ y \in Socks5Answers
  BY <1>1, <1>5, AnswerTokens, Answers DEF TypeInv
<1> HIDE DEF w, y
<1>7. \A p \in Pipes : pipe'[p].end = pipe[p].end \/ pipe[p].end = "open"
  BY <1>1, <1>4, FarClosedPipes
<1>8. PipesSteady BY <1>4, <1>7, QuietPipes, ClosedOnePipe, PipeNames
<1>9. TypeInv' /\ ConnInv' /\ WhereInv' /\ EndInv'
  BY <1>1, <1>2, <1>3, <1>4, <1>8, FarLetsGoFrame
<1>10. SameRoles /\ SameUp
  <2>1. SameRoles BY <1>2 DEF SameRoles
  <2>2. SameUp BY <1>4 DEF SameUp, SameData, OnlyData, Pipes
  <2> QED BY <2>1, <2>2
<1>11. UpInv' BY <1>1, <1>2, <1>10, QuietUp
<1>12. DownInv'
  <2>1. ~Live' BY <1>2, <1>5 DEF Live, Started, Negotiating
  <2>2. Said = <<"method_ok">> BY <1>2, <1>5 DEF Said
  <2>3. IsPrefix(Said \o w, y) BY <1>6, <2>2, PrefixSelf
  <2>4. /\ pipe'["localDown"].data = Data("localDown")
        /\ pipe'["targetDown"].data = Data("targetDown")
        /\ \/ pipe'["chanDown"].data = Data("chanDown") \o w
           \/ pipe'["chanDown"].data = Data("chanDown")
    BY <1>4 DEF SameData, OnlyData, Data, Pipes
  <2>5. far' \notin {"none", "decode"} BY <1>2
  <2>6. \E s \in Socks5Answers : IsPrefix(Said \o w, s) BY <1>6, <2>3
  <2>7. copier'["near_down"] = copier["near_down"] BY <1>2
  <2> QED BY <1>1, <1>2, <1>3, <1>6, <2>1, <2>4, <2>5, <2>6, <2>7, NegotiationDown
<1> QED BY <1>9, <1>11, <1>12 DEF IInv

(* The far handler returns, or is gone and leaves its relays behind. *)
LEMMA FarReturnsInv ==
  ASSUME IInv, FarReturns \/ (FarDropped /\ far = "relay")
  PROVE  IInv'
<1>1. TypeInv /\ ConnInv /\ WhereInv /\ UpInv /\ DownInv /\ EndInv BY DEF IInv
<1>2. /\ far = "relay" /\ far' \in {"done", "dropped"}
      /\ near' = near /\ todo' = todo /\ conn' = conn /\ copier' = copier /\ sent' = sent
      /\ pipe' = pipe /\ faults' = faults
  BY DEF FarReturns, FarDropped
<1>3. pipe' \in PipeStates /\ SameData(pipe, pipe') /\ SameEnds(pipe, pipe', Pipes)
  BY <1>1, <1>2 DEF TypeInv, SameData, SameEnds
<1>4. TypeInv'
  <2>1. far' \in Fars BY <1>2 DEF Fars
  <2>2. near' \in Nears /\ todo' \in Seq({"varint", "string"}) /\ copier' \in [Copiers -> States]
        /\ sent' \in [app : 0..Len(Script), target : 0..Len(DownBytes)]
    BY <1>1, <1>2 DEF TypeInv
  <2> QED BY <1>1, <1>2, <1>3, <2>1, <2>2, TypeFrame
<1>5. ConnInv' BY <1>1, <1>2, ConnKept
<1>6. WhereInv'
  <2>1. near # "open" BY <1>1, <1>2 DEF WhereInv
  <2> QED BY <1>1, <1>2, <2>1 DEF WhereInv, Started, Negotiating
<1>7. SameRoles /\ SameUp /\ SameDown BY <1>2, <1>3, SameBoth DEF SameRoles
<1>8. UpInv' /\ DownInv' BY <1>1, <1>2, <1>7, QuietUp, QuietDown
<1>9. Steady
  <2>1. PipesSteady BY <1>2 DEF PipesSteady, End, Data
  <2> QED BY <1>2, <2>1, SteadyQuiet
<1>10. EndInv'
  <2>1. NearGaveUp' => NearGaveUp BY <1>2 DEF NearGaveUp, Started
  <2> QED BY <1>1, <1>2, <1>3, <1>9, <2>1, EndsKept
<1> QED BY <1>4, <1>5, <1>6, <1>8, <1>10 DEF IInv

LEMMA FarDroppedInv ==
  ASSUME IInv, FarDropped, far # "relay"
  PROVE  IInv'
<1>1. TypeInv /\ ConnInv /\ WhereInv /\ UpInv /\ DownInv /\ EndInv BY DEF IInv
<1>2. /\ far \in {"decode", "greeting", "request", "connect"} /\ far' = "dropped"
      /\ near' = near /\ todo' = todo /\ conn' = conn /\ copier' = copier /\ sent' = sent
      /\ pipe' \in FarLetsGo(pipe) /\ faults' = faults \cup {"far"}
  BY DEF FarDropped, Fault
<1>3. pipe' \in PipeStates /\ SameData(pipe, pipe') /\ FarClosed
  BY <1>1, <1>2, FarLetsGoEffect
<1>4. TypeInv'
  <2>1. far' \in Fars BY <1>2 DEF Fars
  <2>2. near' \in Nears /\ todo' \in Seq({"varint", "string"}) /\ copier' \in [Copiers -> States]
        /\ sent' \in [app : 0..Len(Script), target : 0..Len(DownBytes)]
    BY <1>1, <1>2 DEF TypeInv
  <2> QED BY <1>1, <1>2, <1>3, <2>1, <2>2, TypeFrame
<1>5. ConnInv' BY <1>1, <1>2, ConnKept
<1>6. WhereInv'
  <2>1. near # "open" BY <1>1, <1>2 DEF WhereInv
  <2> QED BY <1>1, <1>2, <2>1 DEF WhereInv, Started, Negotiating
<1>7. SameRoles /\ SameUp /\ SameDown BY <1>2, <1>3, SameBoth DEF SameRoles
<1>8. UpInv' /\ DownInv' BY <1>1, <1>2, <1>7, QuietUp, QuietDown
<1>9. Steady
  <2>1. PipesSteady BY <1>1, <1>3, FarClosedPipes, QuietPipes
  <2> QED BY <1>2, <2>1, SteadyQuiet
<1>10. EndInv'
  <2>1. ~UpOnly' /\ ~DownOnly' BY <1>2 DEF UpOnly, DownOnly
  <2>2. /\ pipe'["localUp"].end = pipe["localUp"].end
        /\ pipe'["targetUp"].end = pipe["targetUp"].end
        /\ pipe'["targetDown"].end = pipe["targetDown"].end
        /\ pipe'["localDown"].end = pipe["localDown"].end
    BY <1>3 DEF FarClosed, SameEnds
  <2>3. LocalUpEnd' /\ TargetUpEnd' /\ TargetDownEnd' /\ LocalDownEnd'
    BY <1>1, <1>2, <1>9, <2>2, LocalUpKept, TargetUpKept, TargetDownKept, LocalDownKept
  <2>4. ChanUpEnd' /\ ChanDownEnd' /\ NearDownFails'
    BY <2>1 DEF ChanUpEnd, ChanDownEnd, NearDownFails
  <2>5. GivenUp'
    <3>1. NearGaveUp' => NearGaveUp BY <1>2 DEF NearGaveUp, Started
    <3> QED BY <1>1, <1>2, <1>9, <3>1, GivenUpKept
  <2> QED BY <2>3, <2>4, <2>5 DEF EndInv
<1> QED BY <1>4, <1>5, <1>6, <1>8, <1>10 DEF IInv

-----------------------------------------------------------------------------
(* The relays. *)

LEMMA CopyInv ==
  ASSUME IInv, NEW c \in Copiers, Copy(c)
  PROVE  IInv'
<1>1. TypeInv /\ ConnInv /\ WhereInv /\ UpInv /\ DownInv /\ EndInv BY DEF IInv
<1>2. /\ conn' = conn /\ near' = near /\ far' = far /\ todo' = todo /\ copier' = copier
      /\ sent' = sent /\ faults' = faults
  BY DEF Copy
<1>3. /\ pipe' \in PipeStates /\ SameEnds(pipe, pipe', Pipes)
      /\ Data(Src(c)) # <<>> /\ End(Dst(c)) = "open"
      /\ \A r \in Pipes \ {Src(c), Dst(c)} : pipe'[r].data = pipe[r].data
  BY <1>1, CopyPipes
<1>4. TypeInv'
  <2>1. near' \in Nears /\ far' \in Fars /\ todo' \in Seq({"varint", "string"})
        /\ copier' \in [Copiers -> States]
        /\ sent' \in [app : 0..Len(Script), target : 0..Len(DownBytes)]
    BY <1>1, <1>2 DEF TypeInv
  <2> QED BY <1>1, <1>2, <1>3, <2>1, TypeFrame
<1>5. ConnInv' BY <1>1, <1>2, ConnKept
<1>6. WhereInv' BY <1>1, <1>2 DEF WhereInv, Started
<1>7. SameRoles BY <1>2 DEF SameRoles
<1>8. UpInv' /\ DownInv'
  <2>1. CASE c \in {"near_up", "far_up"}
    <3>1. SameDown BY <1>3, <2>1, Ways DEF SameDown, Pipes
    <3> QED BY <1>1, <1>2, <1>7, <2>1, <3>1, CopyUp, QuietDown
  <2>2. CASE c \in {"far_down", "near_down"}
    <3>1. SameUp BY <1>3, <2>2, Ways DEF SameUp, Pipes
    <3> QED BY <1>1, <1>2, <1>7, <2>2, <3>1, CopyDown, QuietUp
  <2> QED BY <2>1, <2>2 DEF Copiers
<1>9. Steady
  <2>1. PipesSteady BY <1>3 DEF PipesSteady, SameEnds, Data, End
  <2> QED BY <1>2, <2>1, SteadyQuiet
<1>10. EndInv'
  <2>1. NearGaveUp' => NearGaveUp BY <1>2 DEF NearGaveUp, Started
  <2> QED BY <1>1, <1>2, <1>3, <1>9, <2>1, EndsKept
<1> QED BY <1>4, <1>5, <1>6, <1>8, <1>10 DEF IInv

(* What every end of a relay keeps, whatever it closes. *)
LEMMA CopierFrame ==
  ASSUME IInv, NEW c \in Copiers, NEW v \in {"done", "failed", "aborted"},
         copier[c] = "copy", copier' = [copier EXCEPT ![c] = v],
         v = "aborted" => c \in NearCopiers /\ "cancel" \in faults,
         pipe' \in PipeStates, SameData(pipe, pipe'),
         \A p \in Pipes : pipe'[p].end = pipe[p].end \/ pipe[p].end = "open",
         conn' = conn, near' = near, far' = far, todo' = todo, sent' = sent, faults' = faults
  PROVE  /\ TypeInv' /\ ConnInv' /\ WhereInv' /\ UpInv' /\ DownInv'
         /\ Steady /\ GivenUp'
         /\ copier'[c] = v /\ \A d \in Copiers \ {c} : copier'[d] = copier[d]
<1>1. TypeInv /\ ConnInv /\ WhereInv /\ UpInv /\ DownInv /\ EndInv BY DEF IInv
<1>2. PipesSteady BY QuietPipes
<1>3. v \in States /\ v # "none" BY DEF States
<1>4. /\ Steady
      /\ copier' \in [Copiers -> States] /\ copier'[c] = v
      /\ \A d \in Copiers \ {c} : copier'[d] = copier[d]
      /\ \A d \in Copiers : copier'[d] = "none" <=> copier[d] = "none"
  BY <1>1, <1>2, <1>3, SteadyCopier
<1>5. TypeInv'
  <2>1. near' \in Nears /\ far' \in Fars /\ todo' \in Seq({"varint", "string"})
        /\ sent' \in [app : 0..Len(Script), target : 0..Len(DownBytes)]
    BY <1>1 DEF TypeInv
  <2> QED BY <1>1, <1>4, <2>1, TypeFrame
<1>6. ConnInv' BY <1>1, ConnKept
<1>7. \A d \in Copiers : Started(d)' <=> Started(d) BY <1>4 DEF Started
<1>8. WhereInv'
  <2>1. \A d \in FarCopiers : copier'[d] # "aborted"
    BY <1>1, <1>4 DEF WhereInv, FarCopiers, NearCopiers, Copiers
  <2>2. \A d \in NearCopiers : copier'[d] = "aborted" => "cancel" \in faults
    BY <1>1, <1>4 DEF WhereInv, NearCopiers, Copiers
  <2>3. /\ Started("near_up")' <=> Started("near_up")
        /\ Started("near_down")' <=> Started("near_down")
        /\ Started("far_up")' <=> Started("far_up")
        /\ Started("far_down")' <=> Started("far_down")
    BY <1>7 DEF Copiers
  <2> QED BY <1>1, <1>7, <2>1, <2>2, <2>3 DEF WhereInv
<1>9. SameRoles BY <1>4 DEF SameRoles
<1>10. SameUp /\ SameDown BY SameBoth
<1>11. UpInv' /\ DownInv' BY <1>1, <1>9, <1>10, QuietUp, QuietDown
<1>12. GivenUp'
  <2>1. NearGaveUp' => NearGaveUp BY <1>7 DEF NearGaveUp, Copiers
  <2>2. End("chanDown") # "open" => End("chanDown")' # "open"
    BY <1>2 DEF PipesSteady, End, Pipes
  <2>3. Started("far_up")' <=> Started("far_up") BY <1>7 DEF Copiers
  <2> QED BY <1>1, <2>1, <2>2, <2>3 DEF EndInv, GivenUp
<1> QED BY <1>4, <1>5, <1>6, <1>8, <1>11, <1>12

(* The socket of a forwarded connection that the last of its two relays    *)
(* closes: the relay to it was not done.                                   *)
LEMMA SocketCloses ==
  ASSUME EndInv, Steady, copier'["near_down"] = copier["near_down"],
         MayClose(pipe, pipe', "localDown", {"fin"}),
         pipe'["localDown"].end # pipe["localDown"].end => Over("near_down")
  PROVE  LocalDownEnd'
<1>1. CASE pipe'["localDown"].end = pipe["localDown"].end BY <1>1, LocalDownKept
<1>2. CASE pipe'["localDown"].end # pipe["localDown"].end
  <2>1. End("localDown") = "open" /\ End("localDown")' = "fin" BY <1>2 DEF MayClose, End
  <2>2. Over("near_down") /\ Over("near_down")' BY <1>2 DEF Over
  <2>3. copier["near_down"] \in {"failed", "aborted"}
    BY <2>1, <2>2 DEF EndInv, LocalDownEnd, Over
  <2>4. DownOnly' => FarGaveUp' BY <2>3, SteadyGivesUp DEF EndInv, NearDownFails
  <2> QED BY <2>1, <2>2, <2>4 DEF LocalDownEnd
<1> QED BY <1>1, <1>2

LEMMA CopyEndsInv ==
  ASSUME IInv, NEW c \in Copiers, CopyEnds(c)
  PROVE  IInv'
<1>1. TypeInv /\ WhereInv /\ EndInv BY DEF IInv
<1>2. /\ copier[c] = "copy" /\ copier' = [copier EXCEPT ![c] = "done"]
      /\ conn' = conn /\ near' = near /\ far' = far /\ todo' = todo
      /\ sent' = sent /\ faults' = faults
  BY DEF CopyEnds
<1>3. /\ pipe' \in PipeStates /\ SameData(pipe, pipe')
      /\ Data(Src(c)) = <<>> /\ End(Src(c)) = "fin" /\ End(Dst(c)) = "open"
      /\ pipe'[Dst(c)].end = "fin"
      /\ SameEnds(pipe, pipe', Pipes \ {Dst(c), "localDown"})
      /\ Dst(c) # "localDown" => MayClose(pipe, pipe', "localDown", {"fin"})
      /\ ~LastHalf(c) => SameEnds(pipe, pipe', Pipes \ {Dst(c)})
  BY <1>1, CopyEndsPipes
<1>4. \A p \in Pipes : pipe'[p].end = pipe[p].end \/ pipe[p].end = "open"
  <2>1. ASSUME NEW p \in Pipes PROVE pipe'[p].end = pipe[p].end \/ pipe[p].end = "open"
    <3>1. CASE p = Dst(c) BY <1>3, <3>1 DEF End
    <3>2. CASE p = "localDown" /\ p # Dst(c) BY <1>3, <3>2 DEF MayClose
    <3>3. CASE p \notin {Dst(c), "localDown"} BY <1>3, <3>3 DEF SameEnds
    <3> QED BY <3>1, <3>2, <3>3
  <2> QED BY <2>1
<1>5. /\ TypeInv' /\ ConnInv' /\ WhereInv' /\ UpInv' /\ DownInv' /\ Steady /\ GivenUp'
      /\ copier'[c] = "done" /\ \A d \in Copiers \ {c} : copier'[d] = copier[d]
  BY <1>2, <1>3, <1>4, CopierFrame
<1>6. Drained(c)'
  <2>1. Src(c) \in Pipes /\ Src(c) # Dst(c) /\ Src(c) # "localDown"
    BY Ways DEF Copiers, Pipes
  <2>2. pipe'[Src(c)].data = <<>> /\ pipe'[Src(c)].end = "fin"
    BY <1>3, <2>1 DEF SameData, SameEnds, Data, End
  <2> QED BY <1>5, <2>2 DEF Drained, Data, End
<1>7. copier'["near_down"] = copier["near_down"] \/ copier'["near_down"] = "done"
  BY <1>5 DEF Copiers
<1>8. NearDownFails' BY <1>1, <1>5, <1>7, NearDownKept
<1>9. CASE c = "near_up"
  <2>1. /\ pipe'["localUp"].end = pipe["localUp"].end
        /\ pipe'["targetUp"].end = pipe["targetUp"].end
        /\ pipe'["targetDown"].end = pipe["targetDown"].end
        /\ pipe'["chanDown"].end = pipe["chanDown"].end
        /\ End("chanUp")' = "fin"
        /\ MayClose(pipe, pipe', "localDown", {"fin"})
        /\ pipe'["localDown"].end # pipe["localDown"].end => LastHalf(c)
    BY <1>3, <1>9, Ways DEF SameEnds, Pipes, End
  <2>2. LocalUpEnd' /\ TargetUpEnd' /\ TargetDownEnd' /\ ChanDownEnd'
    BY <1>1, <1>5, <2>1, LocalUpKept, TargetUpKept, TargetDownKept, ChanDownKept
  <2>3. ChanUpEnd' BY <1>6, <1>9, <2>1 DEF ChanUpEnd
  <2>4. LocalDownEnd'
    <3>1. LastHalf(c) => Over("near_down") BY <1>9 DEF LastHalf, NearCopiers
    <3>2. copier'["near_down"] = copier["near_down"] BY <1>5, <1>9 DEF Copiers
    <3> QED BY <1>1, <1>5, <2>1, <3>1, <3>2, SocketCloses
  <2>5. EndInv' BY <1>5, <1>8, <2>2, <2>3, <2>4 DEF EndInv
  <2> QED BY <1>5, <2>5 DEF IInv
<1>10. CASE c # "near_up"
  <2>1. ~LastHalf(c) \/ c = "near_down" BY <1>10 DEF LastHalf, Split, NearCopiers, Copiers
  <2>2. SameEnds(pipe, pipe', Pipes \ {Dst(c)}) BY <1>3, <2>1, Ways DEF SameEnds
  <2>3. CASE c = "far_up"
    <3>1. /\ pipe'["localUp"].end = pipe["localUp"].end
          /\ pipe'["chanUp"].end = pipe["chanUp"].end
          /\ pipe'["targetDown"].end = pipe["targetDown"].end
          /\ pipe'["chanDown"].end = pipe["chanDown"].end
          /\ pipe'["localDown"].end = pipe["localDown"].end
      BY <2>2, <2>3, Ways DEF SameEnds, Pipes
    <3>2. copier'["near_down"] = copier["near_down"] BY <1>5, <2>3 DEF Copiers
    <3>3. LocalUpEnd' /\ ChanUpEnd' /\ TargetDownEnd' /\ ChanDownEnd' /\ LocalDownEnd'
      BY <1>1, <1>5, <3>1, <3>2, LocalUpKept, ChanUpKept, TargetDownKept, ChanDownKept,
         LocalDownKept
    <3>4. TargetUpEnd' BY <1>5, <1>6, <2>3 DEF TargetUpEnd
    <3>5. EndInv' BY <1>5, <1>8, <3>3, <3>4 DEF EndInv
    <3> QED BY <1>5, <3>5 DEF IInv
  <2>4. CASE c = "far_down"
    <3>1. /\ pipe'["localUp"].end = pipe["localUp"].end
          /\ pipe'["chanUp"].end = pipe["chanUp"].end
          /\ pipe'["targetUp"].end = pipe["targetUp"].end
          /\ pipe'["targetDown"].end = pipe["targetDown"].end
          /\ pipe'["localDown"].end = pipe["localDown"].end
          /\ End("chanDown")' = "fin"
      BY <1>3, <2>2, <2>4, Ways DEF SameEnds, Pipes, End
    <3>2. copier'["near_down"] = copier["near_down"] BY <1>5, <2>4 DEF Copiers
    <3>3. LocalUpEnd' /\ ChanUpEnd' /\ TargetUpEnd' /\ TargetDownEnd' /\ LocalDownEnd'
      BY <1>1, <1>5, <3>1, <3>2, LocalUpKept, ChanUpKept, TargetUpKept, TargetDownKept,
         LocalDownKept
    <3>4. ChanDownEnd' BY <1>6, <2>4, <3>1 DEF ChanDownEnd
    <3>5. EndInv' BY <1>5, <1>8, <3>3, <3>4 DEF EndInv
    <3> QED BY <1>5, <3>5 DEF IInv
  <2>5. CASE c = "near_down"
    <3>1. /\ pipe'["localUp"].end = pipe["localUp"].end
          /\ pipe'["chanUp"].end = pipe["chanUp"].end
          /\ pipe'["targetUp"].end = pipe["targetUp"].end
          /\ pipe'["targetDown"].end = pipe["targetDown"].end
          /\ pipe'["chanDown"].end = pipe["chanDown"].end
          /\ End("localDown")' = "fin"
      BY <1>3, <2>2, <2>5, Ways DEF SameEnds, Pipes, End
    <3>2. LocalUpEnd' /\ ChanUpEnd' /\ TargetUpEnd' /\ TargetDownEnd' /\ ChanDownEnd'
      BY <1>1, <1>5, <3>1, LocalUpKept, ChanUpKept, TargetUpKept, TargetDownKept,
         ChanDownKept
    <3>3. Over("near_down")' BY <1>5, <2>5 DEF Over
    <3>4. LocalDownEnd' BY <1>6, <2>5, <3>1, <3>3 DEF LocalDownEnd
    <3>5. EndInv' BY <1>5, <1>8, <3>2, <3>4 DEF EndInv
    <3> QED BY <1>5, <3>5 DEF IInv
  <2> QED BY <1>10, <2>3, <2>4, <2>5 DEF Copiers
<1> QED BY <1>9, <1>10

(* A relay that is left by an error, or aborted: who is to blame. *)
LEMMA BlameForDown ==
  ASSUME WhereInv, EndInv, copier["near_down"] = "copy", DownOnly,
         End("chanDown") = "reset" \/ End("localDown") # "open"
  PROVE  FarGaveUp
<1>1. Started("near_up") /\ ~Over("near_down") BY DEF WhereInv, Started, Over
<1>2. "app" \notin faults BY DEF DownOnly
<1>3. End("localDown") = "open" BY <1>1, <1>2 DEF EndInv, LocalDownEnd
<1> QED BY <1>1, <1>3 DEF EndInv, ChanDownEnd, NearGaveUp

LEMMA BlameForUp ==
  ASSUME WhereInv, EndInv, copier["far_up"] = "copy", UpOnly,
         End("chanUp") = "reset" \/ End("targetUp") # "open"
  PROVE  NearGaveUp /\ End("chanUp") = "reset"
<1>1. Started("far_up") BY DEF Started
<1>2. "target" \notin faults BY DEF UpOnly
<1>3. End("targetUp") = "open" BY <1>2 DEF EndInv, TargetUpEnd
<1> QED BY <1>1, <1>3 DEF EndInv, ChanUpEnd, FarGaveUp

LEMMA CopyLeftInv ==
  ASSUME IInv, NEW c \in Copiers, NEW v \in {"failed", "aborted"},
         copier[c] = "copy", copier' = [copier EXCEPT ![c] = v], pipe' \in Dropped(c),
         End(Src(c)) = "reset" \/ End(Dst(c)) # "open" \/ "cancel" \in faults,
         v = "aborted" => c \in NearCopiers /\ "cancel" \in faults,
         conn' = conn, near' = near, far' = far, todo' = todo, sent' = sent, faults' = faults
  PROVE  IInv'
<1>1. TypeInv /\ WhereInv /\ EndInv BY DEF IInv
<1>2. /\ pipe' \in PipeStates /\ SameData(pipe, pipe')
      /\ c = "near_up" => /\ SameEnds(pipe, pipe', Pipes \ {"chanUp", "localDown"})
                          /\ MayClose(pipe, pipe', "chanUp", {"fin", "reset"})
                          /\ MayClose(pipe, pipe', "localDown", {"fin"})
                          /\ ~LastHalf(c) => pipe'["localDown"].end = pipe["localDown"].end
      /\ c = "near_down" => /\ SameEnds(pipe, pipe', Pipes \ {"chanDown", "localDown"})
                            /\ MayClose(pipe, pipe', "chanDown", {"reset"})
                            /\ MayClose(pipe, pipe', "localDown", {"fin"})
      /\ c = "far_up" => /\ SameEnds(pipe, pipe', Pipes \ {"chanUp", "targetUp"})
                         /\ MayClose(pipe, pipe', "chanUp", {"reset"})
                         /\ MayClose(pipe, pipe', "targetUp", {"fin"})
      /\ c = "far_down" => /\ SameEnds(pipe, pipe', Pipes \ {"chanDown"})
                           /\ MayClose(pipe, pipe', "chanDown", {"fin", "reset"})
  BY <1>1, DroppedPipes
<1>3. \A p \in Pipes : pipe'[p].end = pipe[p].end \/ pipe[p].end = "open"
  <2>1. CASE c = "near_up" BY <1>2, <2>1 DEF SameEnds, MayClose, Pipes
  <2>2. CASE c = "near_down" BY <1>2, <2>2 DEF SameEnds, MayClose, Pipes
  <2>3. CASE c = "far_up" BY <1>2, <2>3 DEF SameEnds, MayClose, Pipes
  <2>4. CASE c = "far_down" BY <1>2, <2>4 DEF SameEnds, MayClose, Pipes
  <2> QED BY <2>1, <2>2, <2>3, <2>4 DEF Copiers
<1>4. /\ TypeInv' /\ ConnInv' /\ WhereInv' /\ UpInv' /\ DownInv' /\ Steady /\ GivenUp'
      /\ copier'[c] = v /\ \A d \in Copiers \ {c} : copier'[d] = copier[d]
  BY <1>2, <1>3, CopierFrame
<1>5. /\ UpOnly' => UpOnly /\ "cancel" \notin faults /\ "app" \notin faults
      /\ DownOnly' => DownOnly /\ "cancel" \notin faults /\ "target" \notin faults
  BY DEF UpOnly, DownOnly
<1>6. CASE c = "near_up"
  <2>1. /\ pipe'["localUp"].end = pipe["localUp"].end
        /\ pipe'["targetUp"].end = pipe["targetUp"].end
        /\ pipe'["targetDown"].end = pipe["targetDown"].end
        /\ pipe'["chanDown"].end = pipe["chanDown"].end
        /\ copier'["near_down"] = copier["near_down"]
    BY <1>2, <1>4, <1>6 DEF SameEnds, Pipes, Copiers
  <2>2. LocalUpEnd' /\ TargetUpEnd' /\ TargetDownEnd' /\ ChanDownEnd' /\ NearDownFails'
    BY <1>1, <1>4, <2>1, LocalUpKept, TargetUpKept, TargetDownKept, ChanDownKept, NearDownKept
  <2>3. ChanUpEnd'
    <3>1. CASE pipe'["chanUp"].end = pipe["chanUp"].end BY <1>1, <1>4, <3>1, ChanUpKept
    <3>2. CASE End("chanUp") = "open"
      <4>1. End("localUp") = "reset" \/ "cancel" \in faults BY <1>6, <3>2, Ways
      <4>2. ~UpOnly' BY <1>1, <1>5, <4>1 DEF EndInv, LocalUpEnd
      <4> QED BY <4>2 DEF ChanUpEnd
    <3> QED BY <1>3, <3>1, <3>2 DEF End, Pipes
  <2>4. LocalDownEnd'
    <3>1. LastHalf(c) => Over("near_down") BY <1>6 DEF LastHalf, NearCopiers
    <3> QED BY <1>1, <1>2, <1>4, <1>6, <2>1, <3>1, SocketCloses
  <2>5. EndInv' BY <1>4, <2>2, <2>3, <2>4 DEF EndInv
  <2> QED BY <1>4, <2>5 DEF IInv
<1>7. CASE c = "near_down"
  <2>1. /\ pipe'["localUp"].end = pipe["localUp"].end
        /\ pipe'["chanUp"].end = pipe["chanUp"].end
        /\ pipe'["targetUp"].end = pipe["targetUp"].end
        /\ pipe'["targetDown"].end = pipe["targetDown"].end
    BY <1>2, <1>7 DEF SameEnds, Pipes
  <2>2. LocalUpEnd' /\ ChanUpEnd' /\ TargetUpEnd' /\ TargetDownEnd'
    BY <1>1, <1>4, <2>1, LocalUpKept, ChanUpKept, TargetUpKept, TargetDownKept
  <2>3. DownOnly' => FarGaveUp'
    <3>1. ASSUME DownOnly' PROVE FarGaveUp
      <4>1. End("chanDown") = "reset" \/ End("localDown") # "open"
        BY <1>5, <1>7, <3>1, Ways
      <4> QED BY <1>1, <1>5, <1>7, <3>1, <4>1, BlameForDown
    <3> QED BY <1>4, <3>1, SteadyGivesUp
  <2>4. ChanDownEnd'
    <3>1. CASE pipe'["chanDown"].end = pipe["chanDown"].end BY <1>1, <1>4, <3>1, ChanDownKept
    <3>2. CASE pipe'["chanDown"].end = "reset" BY <2>3, <3>2 DEF ChanDownEnd, End
    <3> QED BY <1>2, <1>7, <3>1, <3>2 DEF MayClose
  <2>5. Over("near_down")' /\ copier'["near_down"] # "done" BY <1>4, <1>7 DEF Over
  <2>6. LocalDownEnd' BY <2>3, <2>5 DEF LocalDownEnd
  <2>7. NearDownFails' BY <2>3 DEF NearDownFails
  <2>8. EndInv' BY <1>4, <2>2, <2>4, <2>6, <2>7 DEF EndInv
  <2> QED BY <1>4, <2>8 DEF IInv
<1>8. CASE c = "far_up"
  <2>1. /\ pipe'["localUp"].end = pipe["localUp"].end
        /\ pipe'["targetDown"].end = pipe["targetDown"].end
        /\ pipe'["chanDown"].end = pipe["chanDown"].end
        /\ pipe'["localDown"].end = pipe["localDown"].end
        /\ copier'["near_down"] = copier["near_down"]
    BY <1>2, <1>4, <1>8 DEF SameEnds, Pipes, Copiers
  <2>2. LocalUpEnd' /\ TargetDownEnd' /\ ChanDownEnd' /\ LocalDownEnd' /\ NearDownFails'
    BY <1>1, <1>4, <2>1, LocalUpKept, TargetDownKept, ChanDownKept, LocalDownKept, NearDownKept
  <2>3. UpOnly' => NearGaveUp' /\ End("chanUp") = "reset"
    <3>1. ASSUME UpOnly' PROVE NearGaveUp /\ End("chanUp") = "reset"
      <4>1. End("chanUp") = "reset" \/ End("targetUp") # "open" BY <1>5, <1>8, <3>1, Ways
      <4> QED BY <1>1, <1>5, <1>8, <3>1, <4>1, BlameForUp
    <3> QED BY <1>4, <3>1, SteadyGivesUp
  <2>4. ChanUpEnd' BY <2>3 DEF ChanUpEnd
  <2>5. TargetUpEnd'
    <3>1. copier'["far_up"] = "failed" BY <1>4, <1>8 DEF NearCopiers
    <3> QED BY <2>3, <3>1 DEF TargetUpEnd
  <2>6. EndInv' BY <1>4, <2>2, <2>4, <2>5 DEF EndInv
  <2> QED BY <1>4, <2>6 DEF IInv
<1>9. CASE c = "far_down"
  <2>1. /\ pipe'["localUp"].end = pipe["localUp"].end
        /\ pipe'["chanUp"].end = pipe["chanUp"].end
        /\ pipe'["targetUp"].end = pipe["targetUp"].end
        /\ pipe'["targetDown"].end = pipe["targetDown"].end
        /\ pipe'["localDown"].end = pipe["localDown"].end
        /\ copier'["near_down"] = copier["near_down"]
    BY <1>2, <1>4, <1>9 DEF SameEnds, Pipes, Copiers
  <2>2. /\ LocalUpEnd' /\ ChanUpEnd' /\ TargetUpEnd' /\ TargetDownEnd' /\ LocalDownEnd'
        /\ NearDownFails'
    BY <1>1, <1>4, <2>1, LocalUpKept, ChanUpKept, TargetUpKept, TargetDownKept,
       LocalDownKept, NearDownKept
  <2>3. ChanDownEnd'
    <3>1. CASE pipe'["chanDown"].end = pipe["chanDown"].end BY <1>1, <1>4, <3>1, ChanDownKept
    <3>2. CASE End("chanDown") = "open"
      <4>1. End("targetDown") = "reset" \/ "cancel" \in faults BY <1>9, <3>2, Ways
      <4>2. ~DownOnly' BY <1>1, <1>5, <4>1 DEF EndInv, TargetDownEnd
      <4> QED BY <4>2 DEF ChanDownEnd
    <3> QED BY <1>3, <3>1, <3>2 DEF End, Pipes
  <2>4. EndInv' BY <1>4, <2>2, <2>3 DEF EndInv
  <2> QED BY <1>4, <2>4 DEF IInv
<1> QED BY <1>6, <1>7, <1>8, <1>9 DEF Copiers

LEMMA CopyFailsInv ==
  ASSUME IInv, NEW c \in Copiers, CopyFails(c) \/ CopyAborted(c)
  PROVE  IInv'
<1>1. /\ copier[c] = "copy" /\ pipe' \in Dropped(c)
      /\ conn' = conn /\ near' = near /\ far' = far /\ todo' = todo
      /\ sent' = sent /\ faults' = faults
  BY DEF CopyFails, CopyAborted
<1>2. CASE CopyFails(c)
  <2>1. copier' = [copier EXCEPT ![c] = "failed"]
        /\ (End(Src(c)) = "reset" \/ End(Dst(c)) # "open")
    BY <1>2 DEF CopyFails, End
  <2> QED BY <1>1, <2>1, CopyLeftInv
<1>3. CASE CopyAborted(c)
  <2>1. copier' = [copier EXCEPT ![c] = "aborted"] /\ c \in NearCopiers /\ "cancel" \in faults
    BY <1>3 DEF CopyAborted, IInv, WhereInv
  <2> QED BY <1>1, <2>1, CopyLeftInv
<1> QED BY <1>2, <1>3

-----------------------------------------------------------------------------
(* The application, the target, and what breaks. *)

(* What all of these keep: they leave the handlers and the relays alone. *)
LEMMA OutsideFrame ==
  ASSUME IInv, conn' = conn, near' = near, far' = far, todo' = todo, copier' = copier,
         faults \subseteq faults', pipe' \in PipeStates, PipesSteady,
         sent' \in [app : 0..Len(Script), target : 0..Len(DownBytes)]
  PROVE  /\ TypeInv' /\ ConnInv' /\ WhereInv' /\ SameRoles /\ Steady
         /\ NearDownFails' /\ GivenUp' /\ (NearGaveUp' => NearGaveUp)
<1>1. TypeInv /\ ConnInv /\ WhereInv /\ EndInv BY DEF IInv
<1>2. TypeInv'
  <2>1. near' \in Nears /\ far' \in Fars /\ todo' \in Seq({"varint", "string"})
        /\ copier' \in [Copiers -> States]
    BY <1>1 DEF TypeInv
  <2> QED BY <1>1, <2>1, TypeFrame
<1>3. ConnInv' BY <1>1, ConnKept
<1>4. WhereInv' BY <1>1 DEF WhereInv, Started
<1>5. SameRoles BY DEF SameRoles
<1>6. Steady BY SteadyQuiet
<1>7. NearGaveUp' => NearGaveUp BY DEF NearGaveUp, Started
<1>8. NearDownFails' /\ GivenUp' BY <1>1, <1>6, <1>7, NearDownKept, GivenUpKept
<1> QED BY <1>2, <1>3, <1>4, <1>5, <1>6, <1>7, <1>8

LEMMA AppSendsInv ==
  ASSUME IInv, AppSends
  PROVE  IInv'
<1>1. TypeInv /\ ConnInv /\ WhereInv /\ UpInv /\ DownInv /\ EndInv BY DEF IInv
<1>2. /\ conn' = conn /\ near' = near /\ far' = far /\ todo' = todo /\ copier' = copier
      /\ faults' = faults /\ sent' = [sent EXCEPT !.app = @ + 1] /\ sent.app < Len(Script)
      /\ End("localUp") = "open"
  BY DEF AppSends, End
<1> DEFINE w == <<Script[sent.app + 1]>>
<1>3. pipe' = Put(pipe, "localUp", w) BY DEF AppSends
<1>4. sent.app + 1 \in 0..Len(Script) /\ Script[sent.app + 1] \in Token
  <2>1. Script \in Seq(Token) /\ sent.app \in 0..Len(Script) BY <1>1, SentTypes
  <2> QED BY <1>2, <2>1, Firsts
<1>5. w \in Seq(Token) BY <1>4
<1> HIDE DEF w
<1>6. /\ pipe' \in PipeStates /\ SameEnds(pipe, pipe', Pipes)
      /\ OnlyData(pipe, pipe', "localUp", Data("localUp") \o w)
  BY <1>1, <1>3, <1>5, PutEffect, PipeNames
<1>7. PipesSteady BY <1>2, <1>6, OnePipe, PipeNames
<1>8. sent' \in [app : 0..Len(Script), target : 0..Len(DownBytes)] /\ sent'.target = sent.target
  BY <1>1, <1>2, <1>4 DEF TypeInv
<1>9. /\ TypeInv' /\ ConnInv' /\ WhereInv' /\ SameRoles /\ Steady
      /\ (NearGaveUp' => NearGaveUp)
  BY <1>2, <1>6, <1>7, <1>8, OutsideFrame
<1>10. UpInv' BY <1>1, AppSendsUp
<1>11. DownInv'
  <2>1. SameDown BY <1>6 DEF SameDown, OnlyData, Pipes
  <2> QED BY <1>1, <1>8, <1>9, <2>1, QuietDown
<1>12. EndInv' BY <1>1, <1>2, <1>6, <1>9, EndsKept
<1> QED BY <1>9, <1>10, <1>11, <1>12 DEF IInv

LEMMA TargetSendsInv ==
  ASSUME IInv, TargetSends
  PROVE  IInv'
<1>1. TypeInv /\ ConnInv /\ WhereInv /\ UpInv /\ DownInv /\ EndInv BY DEF IInv
<1>2. /\ conn' = conn /\ near' = near /\ far' = far /\ todo' = todo /\ copier' = copier
      /\ faults' = faults /\ sent' = [sent EXCEPT !.target = @ + 1]
      /\ sent.target < Len(DownBytes) /\ End("targetDown") = "open"
  BY DEF TargetSends, End
<1> DEFINE w == <<DownBytes[sent.target + 1]>>
<1>3. pipe' = Put(pipe, "targetDown", w) BY DEF TargetSends
<1>4. sent.target + 1 \in 0..Len(DownBytes) /\ DownBytes[sent.target + 1] \in Token
  <2>1. DownBytes \in Seq(Token) /\ sent.target \in 0..Len(DownBytes) BY <1>1, SentTypes
  <2> QED BY <1>2, <2>1, Firsts
<1>5. w \in Seq(Token) BY <1>4
<1> HIDE DEF w
<1>6. /\ pipe' \in PipeStates /\ SameEnds(pipe, pipe', Pipes)
      /\ OnlyData(pipe, pipe', "targetDown", Data("targetDown") \o w)
  BY <1>1, <1>3, <1>5, PutEffect, PipeNames
<1>7. PipesSteady BY <1>2, <1>6, OnePipe, PipeNames
<1>8. sent' \in [app : 0..Len(Script), target : 0..Len(DownBytes)] /\ sent'.app = sent.app
  BY <1>1, <1>2, <1>4 DEF TypeInv
<1>9. /\ TypeInv' /\ ConnInv' /\ WhereInv' /\ SameRoles /\ Steady
      /\ (NearGaveUp' => NearGaveUp)
  BY <1>2, <1>6, <1>7, <1>8, OutsideFrame
<1>10. DownInv' BY <1>1, TargetSendsDown
<1>11. UpInv'
  <2>1. SameUp BY <1>6 DEF SameUp, OnlyData, Pipes
  <2> QED BY <1>1, <1>2, <1>8, <1>9, <2>1, QuietUp
<1>12. EndInv' BY <1>1, <1>2, <1>6, <1>9, EndsKept
<1> QED BY <1>9, <1>10, <1>11, <1>12 DEF IInv

LEMMA FinishesInv ==
  ASSUME IInv, AppFinishes \/ TargetFinishes
  PROVE  IInv'
<1>1. TypeInv /\ ConnInv /\ WhereInv /\ UpInv /\ DownInv /\ EndInv BY DEF IInv
<1>2. /\ conn' = conn /\ near' = near /\ far' = far /\ todo' = todo /\ copier' = copier
      /\ faults' = faults /\ sent' = sent
  BY DEF AppFinishes, TargetFinishes
<1>3. PICK p \in {"localUp", "targetDown"} : End(p) = "open" /\ pipe' = Close(pipe, p, "fin")
  BY DEF AppFinishes, TargetFinishes, End
<1>4. /\ pipe' \in PipeStates /\ SameData(pipe, pipe')
      /\ SameEnds(pipe, pipe', Pipes \ {p}) /\ pipe'[p].end = "fin"
  BY <1>1, <1>3, FinishPipes, PipeNames
<1>5. PipesSteady
  <2>1. \A r \in Pipes : pipe'[r].end = pipe[r].end \/ pipe[r].end = "open"
    BY <1>3, <1>4 DEF SameEnds, End
  <2> QED BY <1>4, <2>1, QuietPipes
<1>6. sent' \in [app : 0..Len(Script), target : 0..Len(DownBytes)] BY <1>1, <1>2 DEF TypeInv
<1>7. /\ TypeInv' /\ ConnInv' /\ WhereInv' /\ SameRoles /\ Steady /\ NearDownFails' /\ GivenUp'
  BY <1>2, <1>4, <1>5, <1>6, OutsideFrame
<1>8. SameUp /\ SameDown BY <1>4, SameBoth
<1>9. UpInv' /\ DownInv' BY <1>1, <1>2, <1>7, <1>8, QuietUp, QuietDown
<1>10. EndInv'
  <2>1. /\ pipe'["chanUp"].end = pipe["chanUp"].end
        /\ pipe'["targetUp"].end = pipe["targetUp"].end
        /\ pipe'["chanDown"].end = pipe["chanDown"].end
        /\ pipe'["localDown"].end = pipe["localDown"].end
    BY <1>3, <1>4 DEF SameEnds, Pipes
  <2>2. ChanUpEnd' /\ TargetUpEnd' /\ ChanDownEnd' /\ LocalDownEnd'
    BY <1>1, <1>2, <1>7, <2>1, ChanUpKept, TargetUpKept, ChanDownKept, LocalDownKept
  <2>3. LocalUpEnd'
    <3>1. CASE p = "localUp" BY <1>4, <3>1 DEF LocalUpEnd, End
    <3>2. CASE p # "localUp"
      <4>1. pipe'["localUp"].end = pipe["localUp"].end BY <1>4, <3>2 DEF SameEnds, Pipes
      <4> QED BY <1>1, <1>7, <4>1, LocalUpKept
    <3> QED BY <3>1, <3>2
  <2>4. TargetDownEnd'
    <3>1. CASE p = "targetDown" BY <1>4, <3>1 DEF TargetDownEnd, End
    <3>2. CASE p # "targetDown"
      <4>1. pipe'["targetDown"].end = pipe["targetDown"].end BY <1>4, <3>2 DEF SameEnds, Pipes
      <4> QED BY <1>1, <1>7, <4>1, TargetDownKept
    <3> QED BY <3>1, <3>2
  <2> QED BY <1>7, <2>2, <2>3, <2>4 DEF EndInv
<1> QED BY <1>7, <1>9, <1>10 DEF IInv

(* What breaks is on record as a fault of the directions it concerns. *)
LEMMA BreakInv ==
  ASSUME IInv, NEW what, NEW ps \in SUBSET Pipes, Break(what, ps),
         "localUp" \in ps \/ "localDown" \in ps => what = "app",
         "targetUp" \in ps \/ "targetDown" \in ps => what = "target",
         "chanUp" \in ps => what \in {"chanUp", "connection"},
         "chanDown" \in ps => what \in {"chanDown", "connection"}
  PROVE  IInv'
<1>1. TypeInv /\ ConnInv /\ WhereInv /\ UpInv /\ DownInv /\ EndInv BY DEF IInv
<1>2. /\ conn' = conn /\ near' = near /\ far' = far /\ todo' = todo /\ copier' = copier
      /\ sent' = sent
  BY DEF Break
<1>3. /\ pipe' \in PipeStates /\ SameData(pipe, pipe')
      /\ SameEnds(pipe, pipe', Pipes \ ps)
      /\ \A p \in ps : Closes(pipe, pipe', p, {"reset"})
      /\ faults' = faults \cup {what}
  BY <1>1, BreakPipes
<1>4. \A p \in Pipes : \/ pipe'[p].end = pipe[p].end
                       \/ p \in ps /\ pipe[p].end = "open" /\ pipe'[p].end = "reset"
  BY <1>3 DEF SameEnds, Closes
<1>5. PipesSteady BY <1>3, <1>4, QuietPipes
<1>6. sent' \in [app : 0..Len(Script), target : 0..Len(DownBytes)] BY <1>1, <1>2 DEF TypeInv
<1>7. faults \subseteq faults' /\ what \in faults' BY <1>3
<1>8. /\ TypeInv' /\ ConnInv' /\ WhereInv' /\ SameRoles /\ Steady /\ NearDownFails' /\ GivenUp'
  BY <1>2, <1>3, <1>5, <1>6, <1>7, OutsideFrame
<1>9. SameUp /\ SameDown BY <1>3, SameBoth
<1>10. UpInv' /\ DownInv' BY <1>1, <1>2, <1>8, <1>9, QuietUp, QuietDown
<1>11. /\ what \in {"app", "target", "chanUp", "connection"} => ~UpOnly'
       /\ what \in {"app", "target", "chanDown", "connection"} => ~DownOnly'
  BY <1>7 DEF UpOnly, DownOnly
<1>12. LocalUpEnd'
  <2>1. CASE "localUp" \in ps BY <1>7, <2>1 DEF LocalUpEnd
  <2>2. CASE "localUp" \notin ps
    <3>1. pipe'["localUp"].end = pipe["localUp"].end BY <1>4, <2>2 DEF Pipes
    <3> QED BY <1>1, <1>8, <3>1, LocalUpKept
  <2> QED BY <2>1, <2>2
<1>13. ChanUpEnd'
  <2>1. CASE "chanUp" \in ps BY <1>11, <2>1 DEF ChanUpEnd
  <2>2. CASE "chanUp" \notin ps
    <3>1. pipe'["chanUp"].end = pipe["chanUp"].end BY <1>4, <2>2 DEF Pipes
    <3> QED BY <1>1, <1>8, <3>1, ChanUpKept
  <2> QED BY <2>1, <2>2
<1>14. TargetUpEnd'
  <2>1. CASE "targetUp" \in ps BY <1>7, <1>11, <2>1 DEF TargetUpEnd
  <2>2. CASE "targetUp" \notin ps
    <3>1. pipe'["targetUp"].end = pipe["targetUp"].end BY <1>4, <2>2 DEF Pipes
    <3> QED BY <1>1, <1>8, <3>1, TargetUpKept
  <2> QED BY <2>1, <2>2
<1>15. TargetDownEnd'
  <2>1. CASE "targetDown" \in ps BY <1>7, <2>1 DEF TargetDownEnd
  <2>2. CASE "targetDown" \notin ps
    <3>1. pipe'["targetDown"].end = pipe["targetDown"].end BY <1>4, <2>2 DEF Pipes
    <3> QED BY <1>1, <1>8, <3>1, TargetDownKept
  <2> QED BY <2>1, <2>2
<1>16. ChanDownEnd'
  <2>1. CASE "chanDown" \in ps BY <1>11, <2>1 DEF ChanDownEnd
  <2>2. CASE "chanDown" \notin ps
    <3>1. pipe'["chanDown"].end = pipe["chanDown"].end BY <1>4, <2>2 DEF Pipes
    <3> QED BY <1>1, <1>8, <3>1, ChanDownKept
  <2> QED BY <2>1, <2>2
<1>17. LocalDownEnd'
  <2>1. CASE "localDown" \in ps
    <3>1. what = "app" BY <2>1
    <3>2. copier'["near_down"] = "done" => End("localDown")' # "open"
      <4>1. copier["near_down"] = "done" => End("localDown") # "open"
        BY <1>1 DEF EndInv, LocalDownEnd
      <4>2. End("localDown") # "open" => End("localDown")' # "open"
        BY <1>5 DEF PipesSteady, End, Pipes
      <4> QED BY <1>2, <4>1, <4>2
    <3> QED BY <1>7, <1>11, <3>1, <3>2 DEF LocalDownEnd
  <2>2. CASE "localDown" \notin ps
    <3>1. pipe'["localDown"].end = pipe["localDown"].end BY <1>4, <2>2 DEF Pipes
    <3> QED BY <1>1, <1>2, <1>8, <3>1, LocalDownKept
  <2> QED BY <2>1, <2>2
<1>18. EndInv' BY <1>8, <1>12, <1>13, <1>14, <1>15, <1>16, <1>17 DEF EndInv
<1> QED BY <1>8, <1>10, <1>18 DEF IInv

LEMMA BreaksInv ==
  ASSUME IInv, AppResets \/ TargetResets \/ StreamBreaks \/ ConnectionLost
  PROVE  IInv'
<1>1. CASE AppResets
  <2>1. {"localUp", "localDown"} \in SUBSET Pipes BY DEF Pipes
  <2>2. Break("app", {"localUp", "localDown"}) BY <1>1 DEF AppResets
  <2> QED BY <2>1, <2>2, BreakInv
<1>2. CASE TargetResets
  <2>1. {"targetUp", "targetDown"} \in SUBSET Pipes BY DEF Pipes
  <2>2. Break("target", {"targetUp", "targetDown"}) BY <1>2 DEF TargetResets
  <2> QED BY <2>1, <2>2, BreakInv
<1>3. CASE StreamBreaks
  <2>1. PICK p \in ChannelPipes : Break(p, {p}) BY <1>3 DEF StreamBreaks
  <2>2. CASE p = "chanUp"
    <3>1. {"chanUp"} \in SUBSET Pipes BY DEF Pipes
    <3>2. Break("chanUp", {"chanUp"}) BY <2>1, <2>2
    <3> QED BY <3>1, <3>2, BreakInv
  <2>3. CASE p = "chanDown"
    <3>1. {"chanDown"} \in SUBSET Pipes BY DEF Pipes
    <3>2. Break("chanDown", {"chanDown"}) BY <2>1, <2>3
    <3> QED BY <3>1, <3>2, BreakInv
  <2> QED BY <2>1, <2>2, <2>3 DEF ChannelPipes
<1>4. CASE ConnectionLost
  <2>1. {"chanUp", "chanDown"} \in SUBSET Pipes BY DEF Pipes
  <2>2. Break("connection", {"chanUp", "chanDown"}) BY <1>4 DEF ConnectionLost, ChannelPipes
  <2> QED BY <2>1, <2>2, BreakInv
<1> QED BY <1>1, <1>2, <1>3, <1>4

-----------------------------------------------------------------------------
(* Every step, and the first state. *)

LEMMA InitInv ==
  ASSUME Init
  PROVE  IInv
<1>1. /\ near = "open" /\ far = "none" /\ todo = <<>> /\ faults = {}
      /\ pipe = [p \in Pipes |-> [data |-> <<>>, end |-> "open"]]
      /\ copier = [c \in Copiers |-> "none"]
      /\ sent = [app |-> 0, target |-> 0]
      /\ conn \in Conns
  BY DEF Init, Conns
<1>2. /\ \A c \in Copiers : copier[c] = "none"
      /\ \A p \in Pipes : Data(p) = <<>> /\ End(p) = "open"
      /\ sent.app = 0 /\ sent.target = 0
  BY <1>1 DEF Data, End
<1>3. TypeInv
  <2>1. pipe \in PipeStates BY <1>1, AnswerTokens DEF PipeStates, Ends
  <2>2. copier \in [Copiers -> States] BY <1>1 DEF States
  <2>3. sent \in [app : 0..Len(Script), target : 0..Len(DownBytes)]
    <3>1. 0 \in 0..Len(Script) BY <1>1, ScriptTokens
    <3>2. 0 \in 0..Len(DownBytes) BY Payloads, LenProperties
    <3> QED BY <1>1, <3>1, <3>2
  <2>4. near \in Nears /\ far \in Fars BY <1>1 DEF Nears, Fars
  <2>5. todo \in Seq({"varint", "string"}) BY <1>1, EmptySeq
  <2> QED BY <1>1, <2>1, <2>2, <2>3, <2>4, <2>5 DEF TypeInv
<1>4. ConnInv BY DEF Init, ConnInv
<1>5. WhereInv
  BY <1>1, <1>2
  DEF WhereInv, Started, Negotiating, Copiers, NearCopiers, FarCopiers
<1>6. ~Live /\ \A c \in Copiers : ~Started(c)
  BY <1>1, <1>2 DEF Live, Started, Negotiating, Copiers
<1>7. Sent = <<>>
  <2>1. Script \in Seq(Token) /\ 0 \in 0..Len(Script) BY <1>1, ScriptTokens
  <2> QED BY <1>2, <2>1, Firsts DEF Sent
<1>8. UpInv
  <2>1. Data("localUp") = <<>> /\ Data("chanUp") = <<>> /\ Data("targetUp") = <<>>
    BY <1>2 DEF Pipes
  <2> QED BY <1>1, <1>6, <1>7, <2>1 DEF UpInv
<1>9. DownInv
  <2>1. Data("localDown") = <<>> /\ Data("chanDown") = <<>> /\ Data("targetDown") = <<>>
    BY <1>2 DEF Pipes
  <2>2. Got = <<>> BY <1>6, <2>1 DEF Got, Copiers
  <2> QED BY <1>2, <1>6, <2>1, <2>2 DEF DownInv, Refusals
<1>10. EndInv
  <2>1. /\ End("localUp") = "open" /\ End("chanUp") = "open" /\ End("targetUp") = "open"
        /\ End("targetDown") = "open" /\ End("chanDown") = "open" /\ End("localDown") = "open"
    BY <1>2 DEF Pipes
  <2>2. copier["near_down"] = "none" BY <1>2 DEF Copiers
  <2>3. ~NearGaveUp BY <1>1 DEF NearGaveUp
  <2> QED BY <2>1, <2>2, <2>3
       DEF EndInv, LocalUpEnd, ChanUpEnd, TargetUpEnd, TargetDownEnd, ChanDownEnd,
           LocalDownEnd, NearDownFails, GivenUp
<1> QED BY <1>3, <1>4, <1>5, <1>8, <1>9, <1>10 DEF IInv

LEMMA NextInv ==
  ASSUME IInv, Next
  PROVE  IInv'
<1>1. CASE NearNext
  BY <1>1, NearOpenInv, NearConfirmedInv, NearRefusedInv, NearReturnsInv DEF NearNext
<1>2. CASE FarNext
  <2>1. CASE FarPortOverflows \/ FarConnectFails
    <3>1. far = "decode" /\ FarReject BY <2>1 DEF FarPortOverflows, FarConnectFails
    <3> QED BY <3>1, FarRejectInv
  <2>2. CASE FarDecode \/ FarReadFails BY <2>2, FarDecodeInv, FarReadFailsInv
  <2>3. CASE FarConnects \/ FarAcceptsSocks5 BY <2>3, FarConnectsInv
  <2>4. CASE Socks5Greeting \/ Socks5Request BY <2>4, Socks5GreetingInv, Socks5RequestInv
  <2>5. CASE Socks5Connects \/ Socks5ConnectFails
    BY <2>5, Socks5ConnectsInv, Socks5ConnectFailsInv
  <2>6. CASE FarReturns BY <2>6, FarReturnsInv
  <2> QED BY <1>2, <2>1, <2>2, <2>3, <2>4, <2>5, <2>6 DEF FarNext
<1>3. ASSUME NEW c \in Copiers, CopierNext(c) \/ CopyAborted(c) PROVE IInv'
  BY <1>3, CopyInv, CopyEndsInv, CopyFailsInv DEF CopierNext
<1>4. CASE Drops
  <2>1. CASE NearCancelled BY <2>1, NearReturnsInv
  <2>2. CASE NearDropped BY <2>2, NearReturnsInv, NearDroppedInv
  <2>3. CASE FarDropped BY <2>3, FarReturnsInv, FarDroppedInv
  <2> QED BY <1>4, <2>1, <2>2, <2>3 DEF Drops
<1>5. CASE AppSends \/ TargetSends BY <1>5, AppSendsInv, TargetSendsInv
<1>6. CASE AppFinishes \/ TargetFinishes BY <1>6, FinishesInv
<1>7. CASE AppResets \/ TargetResets \/ StreamBreaks \/ ConnectionLost BY <1>7, BreaksInv
<1> QED BY <1>1, <1>2, <1>3, <1>4, <1>5, <1>6, <1>7 DEF Next

LEMMA StutterInv ==
  ASSUME IInv, UNCHANGED vars
  PROVE  IInv'
<1>1. TypeInv /\ ConnInv /\ WhereInv /\ UpInv /\ DownInv /\ EndInv BY DEF IInv
<1>2. /\ conn' = conn /\ near' = near /\ far' = far /\ todo' = todo /\ pipe' = pipe
      /\ copier' = copier /\ sent' = sent /\ faults' = faults
  BY DEF vars
<1>3. pipe' \in PipeStates /\ SameData(pipe, pipe') /\ SameEnds(pipe, pipe', Pipes)
  BY <1>1, <1>2 DEF TypeInv, SameData, SameEnds
<1>4. PipesSteady BY <1>2 DEF PipesSteady, End, Data
<1>5. sent' \in [app : 0..Len(Script), target : 0..Len(DownBytes)] BY <1>1, <1>2 DEF TypeInv
<1>6. /\ TypeInv' /\ ConnInv' /\ WhereInv' /\ SameRoles /\ Steady /\ (NearGaveUp' => NearGaveUp)
  BY <1>2, <1>3, <1>4, <1>5, OutsideFrame
<1>7. SameUp /\ SameDown BY <1>3, SameBoth
<1>8. UpInv' /\ DownInv' BY <1>1, <1>2, <1>6, <1>7, QuietUp, QuietDown
<1>9. EndInv' BY <1>1, <1>2, <1>3, <1>6, EndsKept
<1> QED BY <1>6, <1>8, <1>9 DEF IInv

(* The invariant of all that follows: where every token is, and who ended  *)
(* every pipe, in all reachable states.                                    *)
THEOREM Invariance == Spec => []IInv
<1>1. Init => IInv BY InitInv
<1>2. IInv /\ [Next]_vars => IInv' BY NextInv, StutterInv
<1> QED BY <1>1, <1>2, PTL DEF Spec

-----------------------------------------------------------------------------
(* What follows from the invariant. *)

LEMMA SaidTokens ==
  ASSUME TypeInv, WhereInv
  PROVE  /\ Said \in Seq(Token)
         /\ Started("far_up") => Len(Said) = IF conn.kind = "socks5" THEN 2 ELSE 0
<1>1. <<"method_ok", "granted">> \in Seq(Token) /\ Len(<<"method_ok", "granted">>) = 2
  BY AnswerTokens
<1>2. <<"method_ok">> \in Seq(Token) /\ <<>> \in Seq(Token) /\ Len(<<>>) = 0
  BY AnswerTokens, EmptySeq
<1>3. Said \in Seq(Token) BY <1>1, <1>2 DEF Said
<1>4. Started("far_up") => Len(Said) = IF conn.kind = "socks5" THEN 2 ELSE 0
  BY <1>1, <1>2 DEF Said
<1> QED BY <1>3, <1>4

(* Once the near handler relays, it has had a confirmation. *)
LEMMA Confirmed ==
  ASSUME TypeInv, Started("near_down")
  PROVE  Got \notin {<<>>, Failure}
<1> DEFINE y == Data("localDown") \o Data("chanDown")
<1>1. y \in Seq(Token) BY DataTypes, TokensJoined
<1>2. Got = Confirmation \o y BY DEF Got
<1> HIDE DEF y
<1>3. /\ Confirmation \in Seq(Token) /\ Len(Confirmation) = 2 /\ Confirmation[1] = "confirm"
      /\ Failure[1] = "failure"
  BY AnswerTokens
<1>4. Len(Confirmation \o y) = Len(Confirmation) + Len(y) /\ Len(y) \in Nat BY <1>1, <1>3, Joined
<1>5. Len(Confirmation \o y) # 0 BY <1>3, <1>4
<1>6. 1 \in 1..Len(Confirmation) BY <1>3
<1>7. (Confirmation \o y)[1] = "confirm" BY <1>1, <1>3, <1>6, JoinedAt
<1> QED BY <1>2, <1>3, <1>5, <1>7, EmptySeq

(* What the application has read, the channel and the far side hold: the   *)
(* replies of the negotiation and what the target has sent.                *)
LEMMA CameDown ==
  ASSUME TypeInv, WhereInv, DownInv, Started("near_down"), Live
  PROVE  Data("localDown") \o (Data("chanDown") \o Data("targetDown")) = Said \o Fed
<1> DEFINE l == Data("localDown")
           d == Data("chanDown")
           t == Data("targetDown")
           y == Said \o Fed
           k == Confirmation
<1>1. l \in Seq(Token) /\ d \in Seq(Token) /\ t \in Seq(Token) BY DataTypes
<1>2. k \in Seq(Token) BY AnswerTokens
<1>3. y \in Seq(Token) BY SaidTokens, SentTypes, TokensJoined
<1>4. (k \o (l \o d)) \o t = k \o y BY DEF DownInv, Got
<1>5. l \o (d \o t) = y
  <2> HIDE DEF l, d, t, y, k
  <2>1. l \o d \in Seq(Token) /\ d \o t \in Seq(Token) BY <1>1, TokensJoined
  <2>2. l \o (d \o t) = (l \o d) \o t BY <1>1, TokensJoined
  <2>3. k \o ((l \o d) \o t) = (k \o (l \o d)) \o t BY SMTT(30), <1>1, <1>2, <2>1, TokensJoined
  <2>4. l \o (d \o t) \in Seq(Token) BY <1>1, <2>1, TokensJoined
  <2>5. k \o (l \o (d \o t)) = k \o y BY <1>4, <2>2, <2>3
  <2> QED BY <1>2, <1>3, <2>4, <2>5, FrontCancels
<1> QED BY <1>5

LEMMA PayloadUp ==
  ASSUME IInv
  PROVE  IsPrefix(pipe["targetUp"].data, UpBytes)
<1>1. TypeInv /\ UpInv BY DEF IInv
<1> DEFINE t == Data("targetUp")
           z == Data("chanUp") \o Data("localUp")
           h == Handshake
           n == sent.app
<1>2. t \in Seq(Token) /\ z \in Seq(Token) BY <1>1, DataTypes, TokensJoined
<1>3. h \in Seq(Token) /\ UpBytes \in Seq(Token) BY <1>1, SentTypes, Payloads
<1>4. CASE ~Started("far_up")
  BY <1>1, <1>3, <1>4, PrefixEmpty DEF UpInv, Data
<1>5. CASE Started("far_up")
  <2>1. h \o (t \o z) = SubSeq(Script, 1, n) BY <1>1, <1>5 DEF UpInv, Live, Eaten, Sent
  <2>2. IsPrefix(SubSeq(Script, 1, n), Script) BY <1>1, SentTypes, Firsts
  <2>3. IsPrefix(h \o (t \o z), h \o UpBytes) BY <2>1, <2>2 DEF Script
  <2>4. IsPrefix(t, UpBytes)
    <3> HIDE DEF t, z, h, n
    <3>1. t \o z \in Seq(Token) BY <1>2, TokensJoined
    <3>2. IsPrefix(t \o z, UpBytes) BY <1>3, <2>3, <3>1, PrefixBehind
    <3> QED BY <1>2, <1>3, <3>2, FirstPart
  <2> QED BY <2>4 DEF Data
<1> QED BY <1>4, <1>5

LEMMA PayloadDown ==
  ASSUME IInv
  PROVE  IF conn.kind = "socks5"
           THEN \E s \in Socks5Answers : IsPrefix(pipe["localDown"].data, s)
           ELSE IsPrefix(pipe["localDown"].data, DownBytes)
<1>1. TypeInv /\ ConnInv /\ WhereInv /\ DownInv BY DEF IInv
<1>2. conn \in Conns BY <1>1 DEF TypeInv
<1>3. /\ \A s \in Socks5Answers : s \in Seq(Token)
      /\ \E s \in Socks5Answers : TRUE
      /\ conn.greeting = "noauth" /\ conn.request = "connect" =>
           <<"method_ok", "granted">> \o DownBytes \in Socks5Answers
  BY <1>1, <1>2, Answers
<1> DEFINE l == Data("localDown")
           d == Data("chanDown")
           k == Confirmation
<1>4. l \in Seq(Token) /\ d \in Seq(Token) /\ k \in Seq(Token) /\ DownBytes \in Seq(Token)
  BY <1>1, DataTypes, AnswerTokens, Payloads
<1>5. l \o d \in Seq(Token) BY <1>4, TokensJoined
<1>6. CASE ~Started("near_down")
  <2>1. pipe["localDown"].data = <<>> BY <1>1, <1>6 DEF DownInv, Data
  <2>2. PICK s \in Socks5Answers : TRUE BY <1>3
  <2>3. IsPrefix(<<>>, s) /\ IsPrefix(<<>>, DownBytes) BY <1>3, <1>4, PrefixEmpty
  <2> QED BY <2>1, <2>2, <2>3
<1>7. CASE Started("near_down") /\ Started("far_up")
  <2> DEFINE z == d \o Data("targetDown")
             a == Said
  <2>1. z \in Seq(Token) BY <1>1, <1>4, DataTypes, TokensJoined
  <2>2. a \in Seq(Token) BY <1>1, SaidTokens
  <2>3. l \o z = a \o Fed BY <1>1, <1>7, CameDown DEF Live
  <2>4. IsPrefix(Fed, DownBytes) /\ Fed \in Seq(Token) BY <1>1, SentTypes, Firsts DEF Fed
  <2>5. IsPrefix(l, a \o DownBytes)
    <3> HIDE DEF l, d, k, z, a
    <3>1. IsPrefix(l \o z, a \o DownBytes) BY <1>4, <2>2, <2>3, <2>4, PrefixBehind
    <3> DEFINE u == a \o DownBytes
    <3>2. u \in Seq(Token) BY <1>4, <2>2, TokensJoined
    <3>3. IsPrefix(l \o z, u) BY <3>1
    <3> HIDE DEF u
    <3>4. IsPrefix(l, u) BY <1>4, <2>1, <3>2, <3>3, FirstPart
    <3> QED BY <3>4 DEF u
  <2>6. CASE conn.kind = "socks5"
    <3>1. conn.greeting = "noauth" /\ conn.request = "connect" BY <1>1, <1>7 DEF WhereInv
    <3>2. a = <<"method_ok", "granted">> BY <1>7, <2>6 DEF Said
    <3>3. a \o DownBytes \in Socks5Answers BY <1>3, <3>1, <3>2
    <3> QED BY <2>5, <2>6, <3>3 DEF Data
  <2>7. CASE conn.kind # "socks5"
    <3>1. a = <<>> BY <2>7 DEF Said
    <3>2. a \o DownBytes = DownBytes BY <1>4, <3>1, ConcatEmptySeq
    <3> QED BY <2>5, <2>7, <3>2 DEF Data
  <2> QED BY <2>6, <2>7
<1>8. CASE Started("near_down") /\ ~Started("far_up")
  <2>1. conn.kind = "socks5" /\ \E s \in Socks5Answers : IsPrefix(Got, Confirmation \o s)
    <3>1. CASE far \in Negotiating BY <1>1, <3>1, Negotiated
    <3>2. CASE far \notin Negotiating
      <4>1. ~Live BY <1>8, <3>2 DEF Live
      <4>2. Refusals BY <1>1, <4>1 DEF DownInv
      <4>3. Got \notin {<<>>, Failure} BY <1>1, <1>8, Confirmed
      <4> QED BY <4>2, <4>3 DEF Refusals
    <3> QED BY <3>1, <3>2
  <2>2. PICK s \in Socks5Answers : IsPrefix(Got, Confirmation \o s) BY <2>1
  <2>3. IsPrefix(k \o (l \o d), k \o s) BY <1>8, <2>2 DEF Got
  <2>4. s \in Seq(Token) BY <1>3
  <2>5. IsPrefix(l, s)
    <3> HIDE DEF l, d, k
    <3>1. IsPrefix(l \o d, s) BY <1>4, <1>5, <2>3, <2>4, PrefixBehind
    <3> QED BY <1>4, <2>4, <3>1, FirstPart
  <2> QED BY <2>1, <2>5 DEF Data
<1> QED BY <1>6, <1>7, <1>8

(* "After confirmation, the QUIC stream carries raw bytes" (direct.rs):    *)
(* whatever breaks and whoever is dropped, the target is given what the    *)
(* application sent, in order, and nothing of the open message or of the   *)
(* negotiation, and the application reads what the target sent, on a       *)
(* socks5 channel behind the replies that fit its greeting and request.    *)
THEOREM PayloadArrivesAlone == Spec => []OnlyPayloadArrives
<1>1. ASSUME IInv PROVE OnlyPayloadArrives
  <2>1. TypeInv /\ WhereInv BY <1>1 DEF IInv
  <2>2. TypeOK
    <3>1. /\ near \in {"open", "wait", "relay", "cancelling", "done", "dropped"}
          /\ far \in {"none", "decode", "greeting", "request", "connect", "relay", "done",
                      "dropped"}
          /\ copier \in [Copiers -> {"none", "copy", "done", "failed", "aborted"}]
      BY <2>1 DEF TypeInv, Nears, Fars, States
    <3>2. near \in {"relay", "cancelling"} => \A c \in NearCopiers : copier[c] # "none"
      BY <2>1 DEF WhereInv, Started, NearCopiers
    <3>3. \A p \in Pipes : pipe[p].end \in {"open", "fin", "reset"}
      BY <2>1, PipeFields DEF TypeInv, Ends
    <3>4. sent.app \in 0..Len(Script) /\ sent.target \in 0..Len(DownBytes)
      BY <2>1, SentTypes
    <3> QED BY <3>1, <3>2, <3>3, <3>4 DEF TypeOK
  <2> QED BY <1>1, <2>2, PayloadUp, PayloadDown DEF OnlyPayloadArrives
<1> QED BY <1>1, Invariance, PTL

LEMMA CleanEndUp ==
  ASSUME IInv, pipe["targetUp"].end = "fin", UpFaults = {}
  PROVE  /\ pipe["localUp"].end = "fin"
         /\ Handshake \o pipe["targetUp"].data = SubSeq(Script, 1, sent.app)
<1>1. TypeInv /\ UpInv /\ EndInv BY DEF IInv
<1>2. UpOnly /\ "target" \notin faults BY DEF UpFaults, UpOnly
<1>3. Started("far_up") BY <1>1, <1>2 DEF EndInv, TargetUpEnd, End, Started
<1>4. ~NearGaveUp
  <2>1. ASSUME NearGaveUp PROVE FALSE
    <3>1. ~Relayed BY <2>1 DEF NearGaveUp, Relayed, Started
    <3>2. faults = {} BY <3>1 DEF UpFaults
    <3> QED BY <1>1, <1>3, <2>1, <3>2 DEF EndInv, GivenUp
  <2> QED BY <2>1
<1>5. ~FarGaveUp BY <1>3 DEF FarGaveUp
<1>6. Drained("far_up") BY <1>1, <1>2, <1>4 DEF EndInv, TargetUpEnd, End
<1>7. Data("chanUp") = <<>> /\ End("chanUp") = "fin" BY <1>6, Ways DEF Drained
<1>8. Drained("near_up") BY <1>1, <1>2, <1>4, <1>7 DEF EndInv, ChanUpEnd
<1>9. Data("localUp") = <<>> /\ End("localUp") = "fin" BY <1>8, Ways DEF Drained
<1>10. Handshake \o (Data("targetUp") \o (Data("chanUp") \o Data("localUp"))) = Sent
  BY <1>1, <1>3 DEF UpInv, Live, Eaten
<1>11. Data("targetUp") \o (<<>> \o <<>>) = Data("targetUp")
  BY <1>1, DataTypes, AnswerTokens, ConcatEmptySeq
<1>12. Handshake \o Data("targetUp") = Sent BY <1>7, <1>9, <1>10, <1>11
<1> QED BY <1>9, <1>12 DEF Sent, Data, End

LEMMA CleanEndDown ==
  ASSUME IInv, pipe["localDown"].end = "fin", DownFaults = {}, Started("far_up")
  PROVE  /\ pipe["targetDown"].end = "fin"
         /\ Len(pipe["localDown"].data) = sent.target + IF conn.kind = "socks5" THEN 2 ELSE 0
<1>1. TypeInv /\ WhereInv /\ DownInv /\ EndInv BY DEF IInv
<1>2. DownOnly BY DEF DownFaults, DownOnly
<1>3. ~NearGaveUp
  <2>1. ASSUME NearGaveUp PROVE FALSE
    <3>1. ~Relayed BY <2>1 DEF NearGaveUp, Relayed, Started
    <3>2. faults = {} BY <3>1 DEF DownFaults
    <3> QED BY <1>1, <2>1, <3>2 DEF EndInv, GivenUp
  <2> QED BY <2>1
<1>4. ~FarGaveUp BY DEF FarGaveUp
<1>5. Drained("near_down") BY <1>1, <1>2, <1>3, <1>4 DEF EndInv, LocalDownEnd, End
<1>6. Data("chanDown") = <<>> /\ End("chanDown") = "fin" /\ Started("near_down")
  BY <1>5, Ways DEF Drained, Started
<1>7. Drained("far_down") BY <1>1, <1>2, <1>4, <1>6 DEF EndInv, ChanDownEnd
<1>8. Data("targetDown") = <<>> /\ End("targetDown") = "fin" BY <1>7, Ways DEF Drained
<1>9. Data("localDown") \o (Data("chanDown") \o Data("targetDown")) = Said \o Fed
  BY <1>1, <1>6, CameDown DEF Live
<1>10. Data("localDown") \o (<<>> \o <<>>) = Data("localDown")
  BY <1>1, DataTypes, AnswerTokens, ConcatEmptySeq
<1>11. Data("localDown") = Said \o Fed BY <1>6, <1>8, <1>9, <1>10
<1>12. Said \in Seq(Token) /\ Len(Said) = IF conn.kind = "socks5" THEN 2 ELSE 0
  BY <1>1, SaidTokens
<1>13. Fed \in Seq(Token) /\ Len(Fed) = sent.target /\ sent.target \in Nat
  BY <1>1, SentTypes, Joined
<1>14. Len(Said \o Fed) = Len(Said) + Len(Fed) BY <1>12, <1>13, Joined
<1> DEFINE m == IF conn.kind = "socks5" THEN 2 ELSE 0
<1>15. m \in Nat /\ Len(Said) = m BY <1>12
<1> HIDE DEF m
<1>16. Len(Data("localDown")) = sent.target + m BY <1>11, <1>13, <1>14, <1>15
<1> QED BY <1>8, <1>16 DEF m, Data, End

(* A clean end is never invented: if nothing broke in its direction and    *)
(* the target, or the application, sees one, the other side has ended and  *)
(* all it sent has arrived - for every payload, and whatever became of the *)
(* handlers behind relay().                                                *)
THEOREM CleanEndsAreComplete == Spec => []CleanEndIsComplete
<1>1. ASSUME IInv PROVE CleanEndIsComplete
  BY <1>1, CleanEndUp, CleanEndDown DEF CleanEndIsComplete, Started
<1> QED BY <1>1, Invariance, PTL

(* A channel of a kind other than socks5 is open at the near side only     *)
(* when the far side has connected its target and relays (direct.rs:       *)
(* "connects to the target, sends ChannelOpenConfirmation or               *)
(* ChannelOpenFailure").                                                   *)
THEOREM OpenMeansTargetReached ==
  Spec => [](conn.kind # "socks5" /\ copier["near_up"] # "none" => copier["far_up"] # "none")
<1>1. ASSUME IInv
      PROVE  conn.kind # "socks5" /\ copier["near_up"] # "none" => copier["far_up"] # "none"
  <2>1. TypeInv /\ WhereInv /\ DownInv BY <1>1 DEF IInv
  <2> SUFFICES ASSUME conn.kind # "socks5", Started("near_up"), ~Started("far_up") PROVE FALSE
    BY DEF Started
  <2>2. Started("near_down") /\ far \notin Negotiating BY <2>1 DEF WhereInv
  <2>3. ~Live BY <2>2 DEF Live
  <2>4. Refusals BY <2>1, <2>3 DEF DownInv
  <2>5. Got \notin {<<>>, Failure} BY <2>1, <2>2, Confirmed
  <2> QED BY <2>4, <2>5 DEF Refusals
<1> QED BY <1>1, Invariance, PTL

=============================================================================
