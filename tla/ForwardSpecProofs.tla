------------------------- MODULE ForwardSpecProofs -------------------------
(***************************************************************************)
(* The rules of ForwardSpec read every argument, of any length, as the     *)
(* forms of the doc comments do.                                           *)
(*                                                                         *)
(* Each rule is shown to be a condition on the first fields together with  *)
(* the one match it makes of them; the ordered choices then are nested     *)
(* conditions, and no more than four fields matter to any of them.         *)
(***************************************************************************)
EXTENDS ForwardSpec, FiniteSetTheorems, TLAPS

(* No match, or one with a value and the fields behind it. *)
Match(cond, val, rest) == IF cond THEN {[val |-> val, rest |-> rest]} ELSE {}
-----------------------------------------------------------------------------
LEMMA EmptyFacts ==
  ASSUME NEW S, NEW s \in Seq(S)
  PROVE  s = <<>> <=> Len(s) = 0
  OBVIOUS

LEMMA NatCases ==
  ASSUME NEW n \in Nat
  PROVE  n = 0 \/ n = 1 \/ n >= 2
  OBVIOUS

LEMMA TailFacts ==
  ASSUME NEW S, NEW s \in Seq(S), s # <<>>
  PROVE  /\ Tail(s) \in Seq(S) /\ Len(Tail(s)) = Len(s) - 1
         /\ Head(s) = s[1] /\ s[1] \in S /\ Len(s) \in Nat /\ Len(s) >= 1
         /\ \A k \in 1..(Len(s) - 1) : Tail(s)[k] = s[k + 1]
<1>1. Tail(s) \in Seq(S) /\ Len(Tail(s)) = Len(s) - 1
  OBVIOUS
<1>2. Head(s) = s[1] /\ Len(s) \in Nat /\ Len(s) >= 1
  OBVIOUS
<1>3. s[1] \in S
  BY <1>2
<1>4. \A k \in 1..(Len(s) - 1) : Tail(s)[k] = s[k + 1]
  BY <1>1
<1> QED BY <1>1, <1>2, <1>3, <1>4

(* One field. *)
LEMMA FieldIs ==
  ASSUME NEW s \in Seq(FieldValues), NEW K
  PROVE  Field(s, K) = Match(s # <<>> /\ s[1].kind \in K, s[1], Tail(s))
  BY DEF Field, Match

LEMMA UnixPathIs ==
  ASSUME NEW s \in Seq(FieldValues)
  PROVE  UnixPath(s)
           = Match(s # <<>> /\ s[1].kind = "path", Unix(s[1].text), Tail(s))
<1>1. Field(s, {"path"}) = Match(s # <<>> /\ s[1].kind = "path", s[1], Tail(s))
  BY FieldIs DEF Match
<1>2. CASE s # <<>> /\ s[1].kind = "path"
  <2> DEFINE x == [val |-> s[1], rest |-> Tail(s)]
  <2>1. Field(s, {"path"}) = {x}
    BY <1>1, <1>2 DEF Match
  <2>2. x.val = s[1] /\ x.rest = Tail(s)
    OBVIOUS
  <2> HIDE DEF x
  <2>3. UnixPath(s) = {[val |-> Unix(x.val.text), rest |-> x.rest]}
    BY <2>1 DEF UnixPath
  <2> QED BY <1>2, <2>2, <2>3 DEF Match
<1>3. CASE ~(s # <<>> /\ s[1].kind = "path")
  <2>1. Field(s, {"path"}) = {}
    BY <1>1, <1>3 DEF Match
  <2> QED BY <2>1, <1>3 DEF UnixPath, Match
<1> QED BY <1>2, <1>3

LEMMA PortIs ==
  ASSUME NEW s \in Seq(FieldValues)
  PROVE  Port(s)
           = Match(s # <<>> /\ IsPort(s[1]), s[1].num, Tail(s))
<1>0. Field(s, {"digits"}) = Match(s # <<>> /\ s[1].kind = "digits", s[1], Tail(s))
  BY FieldIs DEF Match
<1>1. {d \in Field(s, {"digits"}) : d.val.num < PortLimit}
        = Match(s # <<>> /\ IsPort(s[1]), s[1], Tail(s))
  BY <1>0 DEF Match, IsPort
<1>2. CASE s # <<>> /\ IsPort(s[1])
  <2> DEFINE x == [val |-> s[1], rest |-> Tail(s)]
  <2>1. {d \in Field(s, {"digits"}) : d.val.num < PortLimit} = {x}
    BY <1>1, <1>2 DEF Match
  <2>2. x.val = s[1] /\ x.rest = Tail(s)
    OBVIOUS
  <2> HIDE DEF x
  <2>3. Port(s) = {[val |-> x.val.num, rest |-> x.rest]}
    BY <2>1 DEF Port
  <2> QED BY <1>2, <2>2, <2>3 DEF Match
<1>3. CASE ~(s # <<>> /\ IsPort(s[1]))
  <2>1. {d \in Field(s, {"digits"}) : d.val.num < PortLimit} = {}
    BY <1>1, <1>3 DEF Match
  <2> QED BY <2>1, <1>3 DEF Port, Match
<1> QED BY <1>2, <1>3

LEMMA TextIs ==
  ASSUME NEW s \in Seq(FieldValues), NEW K
  PROVE  Text(Field(s, K))
           = Match(s # <<>> /\ s[1].kind \in K, s[1].text, Tail(s))
<1>2. CASE s # <<>> /\ s[1].kind \in K
  <2> DEFINE x == [val |-> s[1], rest |-> Tail(s)]
  <2>1. Field(s, K) = {x}
    BY FieldIs, <1>2 DEF Match
  <2>2. x.val = s[1] /\ x.rest = Tail(s)
    OBVIOUS
  <2> HIDE DEF x
  <2>3. Text(Field(s, K)) = {[val |-> x.val.text, rest |-> x.rest]}
    BY <2>1 DEF Text
  <2> QED BY <1>2, <2>2, <2>3 DEF Match
<1>3. CASE ~(s # <<>> /\ s[1].kind \in K)
  <2>1. Field(s, K) = {}
    BY FieldIs, <1>3 DEF Match
  <2> QED BY <2>1, <1>3 DEF Text, Match
<1> QED BY <1>2, <1>3

LEMMA StarIs ==
  ASSUME NEW s \in Seq(FieldValues)
  PROVE  Star(s)
           = Match(s # <<>> /\ s[1].kind = "star", "", Tail(s))
<1>1. Field(s, {"star"}) = Match(s # <<>> /\ s[1].kind = "star", s[1], Tail(s))
  BY FieldIs DEF Match
<1>2. CASE s # <<>> /\ s[1].kind = "star"
  <2> DEFINE x == [val |-> s[1], rest |-> Tail(s)]
  <2>1. Field(s, {"star"}) = {x}
    BY <1>1, <1>2 DEF Match
  <2>2. x.val = s[1] /\ x.rest = Tail(s)
    OBVIOUS
  <2> HIDE DEF x
  <2>3. Star(s) = {[val |-> "", rest |-> x.rest]}
    BY <2>1 DEF Star
  <2> QED BY <1>2, <2>2, <2>3 DEF Match
<1>3. CASE ~(s # <<>> /\ s[1].kind = "star")
  <2>1. Field(s, {"star"}) = {}
    BY <1>1, <1>3 DEF Match
  <2> QED BY <2>1, <1>3 DEF Star, Match
<1> QED BY <1>2, <1>3

LEMMA PortAloneIs ==
  ASSUME NEW s \in Seq(FieldValues), NEW d
  PROVE  PortAlone(d, s)
           = Match(s # <<>> /\ IsPort(s[1]), Tcp(d, s[1].num), Tail(s))
<1>2. CASE s # <<>> /\ IsPort(s[1])
  <2> DEFINE x == [val |-> s[1].num, rest |-> Tail(s)]
  <2>1. Port(s) = {x}
    BY PortIs, <1>2 DEF Match
  <2>2. x.val = s[1].num /\ x.rest = Tail(s)
    OBVIOUS
  <2> HIDE DEF x
  <2>3. PortAlone(d, s) = {[val |-> Tcp(d, x.val), rest |-> x.rest]}
    BY <2>1 DEF PortAlone
  <2> QED BY <1>2, <2>2, <2>3 DEF Match
<1>3. CASE ~(s # <<>> /\ IsPort(s[1]))
  <2>1. Port(s) = {}
    BY PortIs, <1>3 DEF Match
  <2> QED BY <2>1, <1>3 DEF PortAlone, Match
<1> QED BY <1>2, <1>3

(* A host, whatever rule read it, and a port. *)
LEMMA HostPortIs ==
  ASSUME NEW c \in BOOLEAN, NEW h, NEW t \in Seq(FieldValues)
  PROVE  HostPort(Match(c, h, t))
           = Match(c /\ t # <<>> /\ IsPort(t[1]), Tcp(h, t[1].num), Tail(t))
<1>1. CASE c
  <2> DEFINE x == [val |-> h, rest |-> t]
             ports == {[val |-> Tcp(x.val, p.val), rest |-> p.rest] : p \in Port(x.rest)}
  <2>1. Match(c, h, t) = {x} /\ x.val = h /\ x.rest = t
    BY <1>1 DEF Match
  <2>2. HostPort({x}) = ports
    BY DEF HostPort
  <2>3. ports = PortAlone(h, t)
    BY <2>1 DEF PortAlone
  <2> QED BY <1>1, <2>1, <2>2, <2>3, PortAloneIs
<1>2. CASE ~c
  BY <1>2 DEF Match, HostPort
<1> QED BY <1>1, <1>2
-----------------------------------------------------------------------------
(* The ordered choice. *)
LEMMA FirstIs ==
  ASSUME NEW f, DOMAIN f \subseteq Nat, NEW i \in DOMAIN f, f[i] # {},
         \A j \in DOMAIN f : f[j] # {} => i <= j
  PROVE  FirstOf(f) = f[i]
<1> DEFINE matching == {k \in DOMAIN f : f[k] # {}}
           first == CHOOSE k \in matching : \A j \in matching : k <= j
<1>1. i \in matching /\ \A j \in matching : i <= j
  OBVIOUS
<1>2. first \in matching /\ \A j \in matching : first <= j
  BY <1>1
<1>3. first \in Nat /\ i \in Nat /\ first <= i /\ i <= first
  BY <1>1, <1>2
<1>4. first = i
  BY <1>3
<1>5. FirstOf(f) = f[first]
  BY <1>1 DEF FirstOf
<1> QED BY <1>4, <1>5

LEMMA NoneIs ==
  ASSUME NEW f, \A j \in DOMAIN f : f[j] = {}
  PROVE  FirstOf(f) = {}
  BY DEF FirstOf

LEMMA FirstOf3 ==
  ASSUME NEW A1, NEW A2, NEW A3
  PROVE  FirstOf(<<A1, A2, A3>>)
           = IF A1 # {} THEN A1 ELSE IF A2 # {} THEN A2 ELSE A3
<1> DEFINE f == <<A1, A2, A3>>
<1>1. DOMAIN f = 1..3 /\ f[1] = A1 /\ f[2] = A2 /\ f[3] = A3
  OBVIOUS
<1> HIDE DEF f
<1>2. CASE A1 # {}
  BY <1>1, <1>2, FirstIs
<1>3. CASE A1 = {} /\ A2 # {}
  BY <1>1, <1>3, FirstIs
<1>4. CASE A1 = {} /\ A2 = {} /\ A3 # {}
  BY <1>1, <1>4, FirstIs
<1>5. CASE A1 = {} /\ A2 = {} /\ A3 = {}
  BY <1>1, <1>5, NoneIs
<1> QED BY <1>2, <1>3, <1>4, <1>5 DEF f

LEMMA FirstOf4 ==
  ASSUME NEW A1, NEW A2, NEW A3, NEW A4
  PROVE  FirstOf(<<A1, A2, A3, A4>>)
           = IF A1 # {} THEN A1 ELSE IF A2 # {} THEN A2 ELSE IF A3 # {} THEN A3 ELSE A4
<1> DEFINE f == <<A1, A2, A3, A4>>
<1>1. DOMAIN f = 1..4 /\ f[1] = A1 /\ f[2] = A2 /\ f[3] = A3 /\ f[4] = A4
  OBVIOUS
<1> HIDE DEF f
<1>2. CASE A1 # {}
  BY <1>1, <1>2, FirstIs
<1>3. CASE A1 = {} /\ A2 # {}
  BY <1>1, <1>3, FirstIs
<1>4. CASE A1 = {} /\ A2 = {} /\ A3 # {}
  BY <1>1, <1>4, FirstIs
<1>5. CASE A1 = {} /\ A2 = {} /\ A3 = {} /\ A4 # {}
  BY <1>1, <1>5, FirstIs
<1>6. CASE A1 = {} /\ A2 = {} /\ A3 = {} /\ A4 = {}
  BY <1>1, <1>6, NoneIs
<1> QED BY <1>2, <1>3, <1>4, <1>5, <1>6 DEF f

LEMMA FirstOf5 ==
  ASSUME NEW A1, NEW A2, NEW A3, NEW A4, NEW A5
  PROVE  FirstOf(<<A1, A2, A3, A4, A5>>)
           = IF A1 # {} THEN A1 ELSE IF A2 # {} THEN A2 ELSE IF A3 # {} THEN A3 ELSE
             IF A4 # {} THEN A4 ELSE A5
<1> DEFINE f == <<A1, A2, A3, A4, A5>>
<1>1. DOMAIN f = 1..5 /\ f[1] = A1 /\ f[2] = A2 /\ f[3] = A3 /\ f[4] = A4 /\ f[5] = A5
  OBVIOUS
<1> HIDE DEF f
<1>2. CASE A1 # {}
  BY <1>1, <1>2, FirstIs
<1>3. CASE A1 = {} /\ A2 # {}
  BY <1>1, <1>3, FirstIs
<1>4. CASE A1 = {} /\ A2 = {} /\ A3 # {}
  BY <1>1, <1>4, FirstIs
<1>5. CASE A1 = {} /\ A2 = {} /\ A3 = {} /\ A4 # {}
  BY <1>1, <1>5, FirstIs
<1>6. CASE A1 = {} /\ A2 = {} /\ A3 = {} /\ A4 = {} /\ A5 # {}
  BY <1>1, <1>6, FirstIs
<1>7. CASE A1 = {} /\ A2 = {} /\ A3 = {} /\ A4 = {} /\ A5 = {}
  BY <1>1, <1>7, NoneIs
<1> QED BY <1>2, <1>3, <1>4, <1>5, <1>6, <1>7 DEF f

LEMMA FirstOf9 ==
  ASSUME NEW A1, NEW A2, NEW A3, NEW A4, NEW A5, NEW A6, NEW A7, NEW A8, NEW A9
  PROVE  FirstOf(<<A1, A2, A3, A4, A5, A6, A7, A8, A9>>)
           = IF A1 # {} THEN A1 ELSE IF A2 # {} THEN A2 ELSE IF A3 # {} THEN A3 ELSE
             IF A4 # {} THEN A4 ELSE IF A5 # {} THEN A5 ELSE IF A6 # {} THEN A6 ELSE
             IF A7 # {} THEN A7 ELSE IF A8 # {} THEN A8 ELSE A9
<1> DEFINE f == <<A1, A2, A3, A4, A5, A6, A7, A8, A9>>
<1>1. DOMAIN f = 1..9 /\ f[1] = A1 /\ f[2] = A2 /\ f[3] = A3 /\ f[4] = A4 /\ f[5] = A5
         /\ f[6] = A6 /\ f[7] = A7 /\ f[8] = A8 /\ f[9] = A9
  OBVIOUS
<1> HIDE DEF f
<1>2. CASE A1 # {}
  BY <1>1, <1>2, FirstIs
<1>3. CASE A1 = {} /\ A2 # {}
  BY <1>1, <1>3, FirstIs
<1>4. CASE A1 = {} /\ A2 = {} /\ A3 # {}
  BY <1>1, <1>4, FirstIs
<1>5. CASE A1 = {} /\ A2 = {} /\ A3 = {} /\ A4 # {}
  BY <1>1, <1>5, FirstIs
<1>6. CASE A1 = {} /\ A2 = {} /\ A3 = {} /\ A4 = {} /\ A5 # {}
  BY <1>1, <1>6, FirstIs
<1>7. CASE A1 = {} /\ A2 = {} /\ A3 = {} /\ A4 = {} /\ A5 = {} /\ A6 # {}
  BY <1>1, <1>7, FirstIs
<1>8. CASE A1 = {} /\ A2 = {} /\ A3 = {} /\ A4 = {} /\ A5 = {} /\ A6 = {} /\ A7 # {}
  BY <1>1, <1>8, FirstIs
<1>9. CASE A1 = {} /\ A2 = {} /\ A3 = {} /\ A4 = {} /\ A5 = {} /\ A6 = {} /\ A7 = {}
         /\ A8 # {}
  BY <1>1, <1>9, FirstIs
<1>10. CASE A1 = {} /\ A2 = {} /\ A3 = {} /\ A4 = {} /\ A5 = {} /\ A6 = {} /\ A7 = {}
         /\ A8 = {} /\ A9 # {}
  BY <1>1, <1>10, FirstIs
<1>11. CASE A1 = {} /\ A2 = {} /\ A3 = {} /\ A4 = {} /\ A5 = {} /\ A6 = {} /\ A7 = {}
         /\ A8 = {} /\ A9 = {}
  BY <1>1, <1>11, NoneIs
<1> QED BY <1>2, <1>3, <1>4, <1>5, <1>6, <1>7, <1>8, <1>9, <1>10, <1>11 DEF f
-----------------------------------------------------------------------------
(* A rule's outcome in terms of the fields it looks at: whether it         *)
(* matches, the value, and whether nothing is left.                        *)
Reads(A, c, v, whole) ==
  IF c THEN \E r : A = {[val |-> v, rest |-> r]} /\ (r = <<>> <=> whole)
       ELSE A = {}
Whole(A) == {m.val : m \in {r \in A : r.rest = <<>>}}

(* The connect part that begins with the k-th field. *)
ConnAt(s, k) ==
  /\ Len(s) >= k
  /\ s[k].kind = "path" \/ (IsHost(s[k]) /\ Len(s) >= k + 1 /\ IsPort(s[k + 1]))
ConnVal(s, k) ==
  IF s[k].kind = "path" THEN Unix(s[k].text) ELSE Tcp(s[k].text, s[k + 1].num)
ConnEnd(s, k) == IF s[k].kind = "path" THEN k ELSE k + 1

LEMMA ConnectIs ==
  ASSUME NEW s \in Seq(FieldValues)
  PROVE  Reads(ConnectEndpoint(s), ConnAt(s, 1), ConnVal(s, 1), Len(s) = ConnEnd(s, 1))
<1>1. CASE s = <<>>
  <2>1. UnixPath(s) = {} /\ BracketedIpv6(s) = {} /\ Hostname(s) = {}
    BY <1>1, UnixPathIs, TextIs DEF Match, BracketedIpv6, Hostname
  <2>2. HostPort({}) = {}
    BY DEF HostPort
  <2>3. ConnectEndpoint(s) = {}
    BY <2>1, <2>2, FirstOf3 DEF ConnectEndpoint
  <2>4. ~ConnAt(s, 1)
    BY <1>1 DEF ConnAt
  <2> QED BY <2>3, <2>4 DEF Reads
<1>2. CASE s # <<>>
  <2> DEFINE t == Tail(s)
             U == UnixPath(s)
             B == HostPort(BracketedIpv6(s))
             H == HostPort(Hostname(s))
             kinds == {"digits", "name", "star"}
  <2>1. /\ t \in Seq(FieldValues) /\ Len(t) = Len(s) - 1 /\ Len(s) \in Nat /\ Len(s) >= 1
        /\ \A k \in 1..(Len(s) - 1) : t[k] = s[k + 1]
        /\ s[1] \in FieldValues
    BY <1>2, TailFacts
  <2> HIDE DEF t
  <2>2. /\ t # <<>> <=> Len(s) >= 2
        /\ t # <<>> => t[1] = s[2]
        /\ t = <<>> <=> Len(s) = 1
        /\ t # <<>> => (Tail(t) = <<>> <=> Len(s) = 2)
    <3>1. t = <<>> <=> Len(t) = 0
      BY <2>1, EmptyFacts
    <3>2. ASSUME t # <<>>
          PROVE  Tail(t) = <<>> <=> Len(t) = 1
      <4>1. Tail(t) \in Seq(FieldValues) /\ Len(Tail(t)) = Len(t) - 1
        BY <2>1, <3>2, TailFacts
      <4>2. Tail(t) = <<>> <=> Len(Tail(t)) = 0
        BY <4>1, EmptyFacts
      <4> QED BY <2>1, <4>1, <4>2
    <3> QED BY <2>1, <3>1, <3>2
  <2>3. U = Match(s[1].kind = "path", Unix(s[1].text), t)
    BY <1>2, UnixPathIs DEF Match, t
  <2>4. B = Match(s[1].kind = "bracketed" /\ t # <<>> /\ IsPort(t[1]), Tcp(s[1].text, t[1].num), Tail(t))
    <3>1. BracketedIpv6(s) = Match(s[1].kind = "bracketed", s[1].text, t)
      BY <1>2, TextIs DEF Match, t, BracketedIpv6
    <3> DEFINE host == s[1].kind = "bracketed"
    <3>2. host \in BOOLEAN /\ BracketedIpv6(s) = Match(host, s[1].text, t)
      BY <3>1
    <3> HIDE DEF host
    <3>3. B = Match(host /\ t # <<>> /\ IsPort(t[1]), Tcp(s[1].text, t[1].num), Tail(t))
      BY <3>2, <2>1, HostPortIs
    <3> QED BY <3>3 DEF host
  <2>5. H = Match(s[1].kind \in kinds /\ t # <<>> /\ IsPort(t[1]), Tcp(s[1].text, t[1].num), Tail(t))
    <3>1. Hostname(s) = Match(s[1].kind \in kinds, s[1].text, t)
      BY <1>2, TextIs DEF Match, t, Hostname
    <3> DEFINE host == s[1].kind \in kinds
    <3>2. host \in BOOLEAN /\ Hostname(s) = Match(host, s[1].text, t)
      BY <3>1
    <3> HIDE DEF host
    <3>3. H = Match(host /\ t # <<>> /\ IsPort(t[1]), Tcp(s[1].text, t[1].num), Tail(t))
      BY <3>2, <2>1, HostPortIs
    <3> QED BY <3>3 DEF host
  <2>6. ConnectEndpoint(s) = IF U # {} THEN U ELSE IF B # {} THEN B ELSE H
    BY FirstOf3 DEF ConnectEndpoint
  <2> HIDE DEF U, B, H
  <2>7. CASE s[1].kind = "path"
    <3>1. ConnectEndpoint(s) = {[val |-> Unix(s[1].text), rest |-> t]}
      BY <2>3, <2>6, <2>7 DEF Match
    <3>2. ConnAt(s, 1) /\ ConnVal(s, 1) = Unix(s[1].text) /\ ConnEnd(s, 1) = 1
      BY <2>1, <2>7 DEF ConnAt, ConnVal, ConnEnd
    <3> QED BY <3>1, <3>2, <2>2 DEF Reads
  <2>8. CASE s[1].kind # "path" /\ IsHost(s[1]) /\ t # <<>> /\ IsPort(t[1])
    <3>1. ConnectEndpoint(s) = {[val |-> Tcp(s[1].text, t[1].num), rest |-> Tail(t)]}
      BY <2>3, <2>4, <2>5, <2>6, <2>8 DEF Match, IsHost
    <3>2. ConnAt(s, 1) /\ ConnVal(s, 1) = Tcp(s[1].text, t[1].num) /\ ConnEnd(s, 1) = 2
      BY <2>1, <2>2, <2>8 DEF ConnAt, ConnVal, ConnEnd
    <3> QED BY <3>1, <3>2, <2>2, <2>8 DEF Reads
  <2>9. CASE s[1].kind # "path" /\ ~(IsHost(s[1]) /\ t # <<>> /\ IsPort(t[1]))
    <3>1. ConnectEndpoint(s) = {}
      BY <2>3, <2>4, <2>5, <2>6, <2>9 DEF Match, IsHost
    <3>2. ~ConnAt(s, 1)
      BY <2>1, <2>2, <2>9 DEF ConnAt
    <3> QED BY <3>1, <3>2 DEF Reads
  <2> QED BY <2>7, <2>8, <2>9
<1> QED BY <1>1, <1>2

(* The connect part behind a first field. *)
LEMMA ConnShift ==
  ASSUME NEW s \in Seq(FieldValues), s # <<>>, NEW k \in {1, 2}
  PROVE  /\ ConnAt(Tail(s), k) <=> ConnAt(s, k + 1)
         /\ ConnAt(s, k + 1) =>
              /\ ConnVal(Tail(s), k) = ConnVal(s, k + 1)
              /\ Len(Tail(s)) = ConnEnd(Tail(s), k) <=> Len(s) = ConnEnd(s, k + 1)
<1> DEFINE t == Tail(s)
<1>1. /\ Len(t) = Len(s) - 1 /\ Len(s) \in Nat /\ Len(s) >= 1
      /\ \A j \in 1..(Len(s) - 1) : t[j] = s[j + 1]
  BY TailFacts
<1>2. /\ Len(t) >= k <=> Len(s) >= k + 1
      /\ Len(t) >= k + 1 <=> Len(s) >= k + 2
      /\ Len(s) >= k + 1 => t[k] = s[k + 1]
      /\ Len(s) >= k + 2 => t[k + 1] = s[k + 2]
      /\ Len(t) = k <=> Len(s) = k + 1
      /\ Len(t) = k + 1 <=> Len(s) = k + 2
      /\ (k + 1) + 1 = k + 2
  BY <1>1
<1> HIDE DEF t
<1>3. ConnAt(t, k) <=> ConnAt(s, k + 1)
  BY <1>1, <1>2 DEF ConnAt
<1>4. ASSUME ConnAt(s, k + 1)
      PROVE  /\ ConnVal(t, k) = ConnVal(s, k + 1)
             /\ Len(t) = ConnEnd(t, k) <=> Len(s) = ConnEnd(s, k + 1)
  BY <1>1, <1>2, <1>4 DEF ConnAt, ConnVal, ConnEnd
<1> QED BY <1>3, <1>4 DEF t

LEMMA ToIs ==
  ASSUME NEW c \in BOOLEAN, NEW v, NEW t \in Seq(FieldValues)
  PROVE  Reads(To(Match(c, v, t)), c /\ ConnAt(t, 1),
               [bind |-> v, connect |-> ConnVal(t, 1)], Len(t) = ConnEnd(t, 1))
<1> DEFINE x == [val |-> v, rest |-> t]
<1>1. x.val = v /\ x.rest = t
  OBVIOUS
<1>2. Match(c, v, t) = IF c THEN {x} ELSE {}
  BY DEF Match
<1> HIDE DEF x
<1>3. CASE ~c
  <2>1. To(Match(c, v, t)) = {}
    BY <1>2, <1>3 DEF To
  <2> QED BY <2>1, <1>3 DEF Reads
<1>4. CASE c
  <2>1. To({x}) = {[val |-> [bind |-> x.val, connect |-> m.val], rest |-> m.rest] :
                     m \in ConnectEndpoint(x.rest)}
    BY DEF To
  <2>2. To(Match(c, v, t)) = {[val |-> [bind |-> v, connect |-> m.val], rest |-> m.rest] :
                                m \in ConnectEndpoint(t)}
    BY <1>1, <1>2, <1>4, <2>1
  <2>3. CASE ConnAt(t, 1)
    <3>1. PICK r : /\ ConnectEndpoint(t) = {[val |-> ConnVal(t, 1), rest |-> r]}
                   /\ r = <<>> <=> Len(t) = ConnEnd(t, 1)
      BY <2>3, ConnectIs DEF Reads
    <3> DEFINE y == [val |-> ConnVal(t, 1), rest |-> r]
    <3>2. ConnectEndpoint(t) = {y} /\ y.val = ConnVal(t, 1) /\ y.rest = r
      BY <3>1
    <3> HIDE DEF y
    <3>3. To(Match(c, v, t)) = {[val |-> [bind |-> v, connect |-> y.val], rest |-> y.rest]}
      BY <2>2, <3>2
    <3>4. To(Match(c, v, t)) = {[val |-> [bind |-> v, connect |-> ConnVal(t, 1)], rest |-> r]}
      BY <3>2, <3>3
    <3> QED BY <1>4, <2>3, <3>1, <3>4 DEF Reads
  <2>4. CASE ~ConnAt(t, 1)
    <3>1. ConnectEndpoint(t) = {}
      BY <2>4, ConnectIs DEF Reads
    <3>2. To(Match(c, v, t)) = {}
      BY <2>2, <3>1
    <3> QED BY <2>4, <3>2 DEF Reads
  <2> QED BY <2>3, <2>4
<1> QED BY <1>3, <1>4

LEMMA ListenOnlyIs ==
  ASSUME NEW A, NEW c \in BOOLEAN, NEW v, NEW w \in BOOLEAN, Reads(A, c, v, w)
  PROVE  Reads(ListenOnly(A), c, [bind |-> v, connect |-> NoEndpoint], w)
<1>1. CASE c
  <2>1. PICK r : A = {[val |-> v, rest |-> r]} /\ (r = <<>> <=> w)
    BY <1>1 DEF Reads
  <2> DEFINE x == [val |-> v, rest |-> r]
  <2>2. x.val = v /\ x.rest = r /\ A = {x}
    BY <2>1
  <2> HIDE DEF x
  <2>3. ListenOnly(A) = {[val |-> [bind |-> x.val, connect |-> NoEndpoint], rest |-> x.rest]}
    BY <2>2 DEF ListenOnly
  <2> QED BY <1>1, <2>1, <2>2, <2>3 DEF Reads
<1>2. CASE ~c
  BY <1>2 DEF Reads, ListenOnly
<1> QED BY <1>1, <1>2

(* The rules of the alternatives. *)
LEMMA UnixAlt ==
  ASSUME NEW s \in Seq(FieldValues)
  PROVE  Reads(To(UnixPath(s)), Len(s) >= 1 /\ s[1].kind = "path" /\ ConnAt(s, 2),
               [bind |-> Unix(s[1].text), connect |-> ConnVal(s, 2)], Len(s) = ConnEnd(s, 2))
<1>1. CASE s = <<>>
  <2>1. UnixPath(s) = {} /\ Len(s) = 0
    BY <1>1, UnixPathIs DEF Match
  <2>2. To({}) = {}
    BY DEF To
  <2> QED BY <2>1, <2>2 DEF Reads
<1>2. CASE s # <<>>
  <2>1. Tail(s) \in Seq(FieldValues) /\ Len(s) >= 1
    BY <1>2, TailFacts
  <2>2. UnixPath(s) = Match(s[1].kind = "path", Unix(s[1].text), Tail(s))
    BY <1>2, UnixPathIs DEF Match
  <2>3. Reads(To(UnixPath(s)), s[1].kind = "path" /\ ConnAt(Tail(s), 1),
              [bind |-> Unix(s[1].text), connect |-> ConnVal(Tail(s), 1)],
              Len(Tail(s)) = ConnEnd(Tail(s), 1))
    BY <2>1, <2>2, ToIs
  <2>4. /\ ConnAt(Tail(s), 1) <=> ConnAt(s, 2)
        /\ ConnAt(s, 2) => /\ ConnVal(Tail(s), 1) = ConnVal(s, 2)
                           /\ Len(Tail(s)) = ConnEnd(Tail(s), 1) <=> Len(s) = ConnEnd(s, 2)
    BY <1>2, ConnShift
  <2> QED BY <2>1, <2>3, <2>4 DEF Reads
<1> QED BY <1>1, <1>2

LEMMA PortAlt ==
  ASSUME NEW s \in Seq(FieldValues), NEW d
  PROVE  /\ Reads(To(PortAlone(d, s)), Len(s) >= 1 /\ IsPort(s[1]) /\ ConnAt(s, 2),
                  [bind |-> Tcp(d, s[1].num), connect |-> ConnVal(s, 2)],
                  Len(s) = ConnEnd(s, 2))
         /\ Reads(PortAlone(d, s), Len(s) >= 1 /\ IsPort(s[1]), Tcp(d, s[1].num), Len(s) = 1)
<1>1. CASE s = <<>>
  <2>1. PortAlone(d, s) = {} /\ Len(s) = 0
    BY <1>1, PortAloneIs DEF Match
  <2>2. To({}) = {}
    BY DEF To
  <2> QED BY <2>1, <2>2 DEF Reads
<1>2. CASE s # <<>>
  <2>1. Tail(s) \in Seq(FieldValues) /\ Len(s) >= 1 /\ Len(Tail(s)) = Len(s) - 1
    BY <1>2, TailFacts
  <2>2. PortAlone(d, s) = Match(IsPort(s[1]), Tcp(d, s[1].num), Tail(s))
    BY <1>2, PortAloneIs DEF Match
  <2>3. IsPort(s[1]) \in BOOLEAN
    BY DEF IsPort
  <2>4. Reads(To(PortAlone(d, s)), IsPort(s[1]) /\ ConnAt(Tail(s), 1),
              [bind |-> Tcp(d, s[1].num), connect |-> ConnVal(Tail(s), 1)],
              Len(Tail(s)) = ConnEnd(Tail(s), 1))
    BY <2>1, <2>2, <2>3, ToIs
  <2>5. /\ ConnAt(Tail(s), 1) <=> ConnAt(s, 2)
        /\ ConnAt(s, 2) => /\ ConnVal(Tail(s), 1) = ConnVal(s, 2)
                           /\ Len(Tail(s)) = ConnEnd(Tail(s), 1) <=> Len(s) = ConnEnd(s, 2)
    BY <1>2, ConnShift
  <2>6. Tail(s) = <<>> <=> Len(Tail(s)) = 0
    BY <2>1, EmptyFacts
  <2>7. Tail(s) = <<>> <=> Len(s) = 1
    BY <2>1, <2>6
  <2>8. Reads(PortAlone(d, s), Len(s) >= 1 /\ IsPort(s[1]), Tcp(d, s[1].num), Len(s) = 1)
    BY <2>1, <2>2, <2>7 DEF Reads, Match
  <2>9. Reads(To(PortAlone(d, s)), Len(s) >= 1 /\ IsPort(s[1]) /\ ConnAt(s, 2),
              [bind |-> Tcp(d, s[1].num), connect |-> ConnVal(s, 2)],
              Len(s) = ConnEnd(s, 2))
    BY <2>1, <2>4, <2>5 DEF Reads
  <2> QED BY <2>8, <2>9
<1> QED BY <1>1, <1>2

LEMMA HostAlt ==
  ASSUME NEW s \in Seq(FieldValues), NEW c \in BOOLEAN, NEW h, NEW hosts,
         hosts = Match(s # <<>> /\ c, h, Tail(s))
  PROVE  /\ Reads(To(HostPort(hosts)), Len(s) >= 2 /\ c /\ IsPort(s[2]) /\ ConnAt(s, 3),
                  [bind |-> Tcp(h, s[2].num), connect |-> ConnVal(s, 3)],
                  Len(s) = ConnEnd(s, 3))
         /\ Reads(HostPort(hosts), Len(s) >= 2 /\ c /\ IsPort(s[2]), Tcp(h, s[2].num),
                  Len(s) = 2)
<1> DEFINE t == Tail(s)
<1>0. /\ hosts = Match(s # <<>> /\ c, h, t)
      /\ s # <<>> => /\ t \in Seq(FieldValues) /\ Len(t) = Len(s) - 1 /\ Len(s) \in Nat
                     /\ \A k \in 1..(Len(s) - 1) : t[k] = s[k + 1]
  BY TailFacts
<1> HIDE DEF t
<1>1. CASE s = <<>>
  <2>1. hosts = {} /\ Len(s) = 0
    BY <1>0, <1>1 DEF Match
  <2>2. HostPort({}) = {} /\ To({}) = {}
    BY DEF To, HostPort
  <2>3. HostPort(hosts) = {} /\ To(HostPort(hosts)) = {} /\ ~(Len(s) >= 2)
    BY <2>1, <2>2
  <2> QED BY <2>3 DEF Reads
<1>2. CASE s # <<>> /\ t = <<>>
  <2>0. Len(t) = 0
    BY <1>2
  <2>1. ~(Len(s) >= 2)
    <3> DEFINE n == Len(s)
               m == Len(t)
    <3>1. m = n - 1 /\ n \in Nat /\ m = 0
      BY <1>0, <1>2, <2>0
    <3> HIDE DEF n, m
    <3>2. n = 1
      BY <3>1
    <3> QED BY <3>2 DEF n
  <2>2. HostPort(hosts) = {}
    BY <1>0, <1>2, HostPortIs DEF Match
  <2>3. To({}) = {}
    BY DEF To
  <2>4. HostPort(hosts) = {} /\ To(HostPort(hosts)) = {}
    BY <2>2, <2>3
  <2> QED BY <2>1, <2>4 DEF Reads
<1>3. CASE s # <<>> /\ t # <<>>
  <2>1. t \in Seq(FieldValues) /\ Len(t) = Len(s) - 1 /\ Len(s) \in Nat
    BY <1>0, <1>3
  <2>2. /\ Tail(t) \in Seq(FieldValues) /\ Len(Tail(t)) = Len(t) - 1
        /\ Len(t) \in Nat /\ Len(t) >= 1
    BY <1>3, <2>1, TailFacts
  <2>3. t[1] = s[2]
    BY <1>0, <1>3, <2>1, <2>2
  <2>4. HostPort(hosts) = Match(c /\ IsPort(s[2]), Tcp(h, s[2].num), Tail(t))
    BY <1>0, <1>3, <2>1, <2>3, HostPortIs DEF Match
  <2> DEFINE both == c /\ IsPort(s[2])
  <2>5. both \in BOOLEAN
    BY DEF IsPort
  <2> HIDE DEF both
  <2>6. Reads(To(HostPort(hosts)), both /\ ConnAt(Tail(t), 1),
              [bind |-> Tcp(h, s[2].num), connect |-> ConnVal(Tail(t), 1)],
              Len(Tail(t)) = ConnEnd(Tail(t), 1))
    BY <2>2, <2>4, <2>5, ToIs DEF both
  <2>7. /\ ConnAt(Tail(t), 1) <=> ConnAt(t, 2)
        /\ ConnAt(t, 2) => /\ ConnVal(Tail(t), 1) = ConnVal(t, 2)
                           /\ Len(Tail(t)) = ConnEnd(Tail(t), 1) <=> Len(t) = ConnEnd(t, 2)
    BY <1>3, <2>1, ConnShift
  <2>8. /\ ConnAt(t, 2) <=> ConnAt(s, 3)
        /\ ConnAt(s, 3) => /\ ConnVal(t, 2) = ConnVal(s, 3)
                           /\ Len(t) = ConnEnd(t, 2) <=> Len(s) = ConnEnd(s, 3)
    BY <1>3, ConnShift DEF t
  <2>9. Tail(t) = <<>> <=> Len(Tail(t)) = 0
    BY <2>2, EmptyFacts
  <2>10. Tail(t) = <<>> <=> Len(s) = 2
    <3> DEFINE n == Len(Tail(t))
               m == Len(t)
    <3>1. n = m - 1 /\ m = Len(s) - 1 /\ Len(s) \in Nat /\ m \in Nat
      BY <2>1, <2>2
    <3> HIDE DEF n, m
    <3>2. n = 0 <=> Len(s) = 2
      BY <3>1
    <3> QED BY <2>9, <3>2 DEF n
  <2>11. Len(s) >= 2
    BY <2>1, <2>2
  <2>12. Reads(HostPort(hosts), both, Tcp(h, s[2].num), Len(s) = 2)
    <3>1. HostPort(hosts) = Match(both, Tcp(h, s[2].num), Tail(t))
      BY <2>4 DEF both
    <3> QED BY <2>5, <2>10, <3>1 DEF Reads, Match
  <2>13. Reads(To(HostPort(hosts)), both /\ ConnAt(s, 3),
               [bind |-> Tcp(h, s[2].num), connect |-> ConnVal(s, 3)],
               Len(s) = ConnEnd(s, 3))
    BY <2>6, <2>7, <2>8 DEF Reads
  <2> QED BY <2>11, <2>12, <2>13 DEF Reads, both
<1> QED BY <1>1, <1>2, <1>3
-----------------------------------------------------------------------------
(* The documented forms, by the fields they look at. *)
DefaultHost(opt) == IF opt = "-R" THEN LoopbackHost ELSE LocalHost

LEMMA DocBindIs ==
  ASSUME NEW s \in Seq(FieldValues), NEW opt, NEW n \in 1..Len(s)
  PROVE  DocBind(opt, SubSeq(s, 1, n)) =
           IF n = 1 /\ IsPort(s[1]) THEN {Tcp(DefaultHost(opt), s[1].num)}
           ELSE IF n = 1 /\ s[1].kind = "path" THEN {Unix(s[1].text)}
           ELSE IF n = 2 /\ IsHost(s[1]) /\ IsPort(s[2]) THEN {Tcp(BindHost(s[1]), s[2].num)}
           ELSE {}
<1> DEFINE u == SubSeq(s, 1, n)
<1>1. Len(u) = n /\ u[1] = s[1] /\ (n >= 2 => u[2] = s[2])
  OBVIOUS
<1> HIDE DEF u
<1>2. n \in Nat /\ n >= 1 /\ ~(IsPort(s[1]) /\ s[1].kind = "path")
  BY DEF IsPort
<1>3. CASE n = 1 /\ IsPort(s[1])
  BY <1>1, <1>2, <1>3 DEF DocBind, DefaultHost
<1>4. CASE n = 1 /\ s[1].kind = "path"
  BY <1>1, <1>2, <1>4 DEF DocBind
<1>5. CASE n = 2 /\ IsHost(s[1]) /\ IsPort(s[2])
  BY <1>1, <1>5 DEF DocBind
<1>6. CASE /\ ~(n = 1 /\ IsPort(s[1])) /\ ~(n = 1 /\ s[1].kind = "path")
           /\ ~(n = 2 /\ IsHost(s[1]) /\ IsPort(s[2]))
  BY <1>1, <1>2, <1>6 DEF DocBind
<1>7. CASE n # 1 /\ n # 2
  BY <1>1, <1>7 DEF DocBind
<1> QED BY <1>2, <1>3, <1>4, <1>5, <1>6, <1>7 DEF u

LEMMA DocConnectIs ==
  ASSUME NEW s \in Seq(FieldValues), NEW n \in 1..Len(s)
  PROVE  DocConnect(SubSeq(s, n + 1, Len(s))) =
           IF ConnAt(s, n + 1) /\ Len(s) = ConnEnd(s, n + 1) THEN {ConnVal(s, n + 1)} ELSE {}
<1> DEFINE u == SubSeq(s, n + 1, Len(s))
<1>1. /\ Len(u) = Len(s) - n
      /\ Len(s) >= n + 1 => u[1] = s[n + 1]
      /\ Len(s) >= n + 2 => u[2] = s[n + 2]
      /\ Len(s) \in Nat /\ n \in Nat /\ (n + 1) + 1 = n + 2
  OBVIOUS
<1> HIDE DEF u
<1>2. CASE Len(s) = n
  <2>1. Len(u) = 0 /\ ~(Len(s) >= n + 1)
    BY <1>1, <1>2
  <2> QED BY <2>1 DEF DocConnect, ConnAt, u
<1>3. CASE Len(s) = n + 1
  <2>1. Len(u) = 1 /\ u[1] = s[n + 1] /\ ~(Len(s) >= n + 2) /\ Len(s) # n + 2 /\ Len(s) >= n + 1
    BY <1>1, <1>3
  <2>2. CASE s[n + 1].kind = "path"
    BY <1>1, <1>3, <2>1, <2>2 DEF DocConnect, ConnAt, ConnEnd, ConnVal, u
  <2>3. CASE s[n + 1].kind # "path"
    BY <1>1, <1>3, <2>1, <2>3 DEF DocConnect, ConnAt, ConnEnd, ConnVal, u
  <2> QED BY <2>2, <2>3
<1>4. CASE Len(s) = n + 2
  <2>1. /\ Len(u) = 2 /\ u[1] = s[n + 1] /\ u[2] = s[n + 2]
        /\ Len(s) >= n + 1 /\ Len(s) >= n + 2 /\ Len(s) # n + 1
    BY <1>1, <1>4
  <2>2. CASE s[n + 1].kind = "path"
    <3>1. ~IsHost(s[n + 1])
      BY <2>2 DEF IsHost
    <3> QED BY <1>1, <1>4, <2>1, <2>2, <3>1 DEF DocConnect, ConnEnd, u
  <2>3. CASE s[n + 1].kind # "path"
    BY <1>1, <1>4, <2>1, <2>3 DEF DocConnect, ConnAt, ConnEnd, ConnVal, u
  <2> QED BY <2>2, <2>3
<1>5. CASE Len(s) > n + 2
  <2>1. Len(u) # 1 /\ Len(u) # 2 /\ Len(s) # n + 1 /\ Len(s) # n + 2
    BY <1>1, <1>5
  <2> QED BY <1>1, <2>1 DEF DocConnect, ConnEnd, u
<1> QED BY <1>1, <1>2, <1>3, <1>4, <1>5

(* The readings with one and with two fields before the connect part, and  *)
(* those without one.                                                      *)
Bind1(opt, s) == IF s[1].kind = "path" THEN Unix(s[1].text) ELSE Tcp(DefaultHost(opt), s[1].num)
Bind2(s) == Tcp(BindHost(s[1]), s[2].num)
Is1(s) == Len(s) >= 1 /\ (s[1].kind = "path" \/ IsPort(s[1]))
Is2(s) == Len(s) >= 2 /\ IsHost(s[1]) /\ IsPort(s[2])
Ends(s, k) == ConnAt(s, k) /\ Len(s) = ConnEnd(s, k)

LEMMA DocIs ==
  ASSUME NEW s \in Seq(FieldValues), NEW opt
  PROVE  DocReadings(opt, s) =
           (IF opt = "-D" THEN {} ELSE
              (IF Is1(s) /\ Ends(s, 2)
                 THEN {[bind |-> Bind1(opt, s), connect |-> ConnVal(s, 2)]} ELSE {})
              \cup (IF Is2(s) /\ Ends(s, 3)
                      THEN {[bind |-> Bind2(s), connect |-> ConnVal(s, 3)]} ELSE {}))
           \cup (IF opt = "-L" THEN {} ELSE
                   IF Len(s) = 1 /\ IsPort(s[1])
                   THEN {[bind |-> Bind1(opt, s), connect |-> NoEndpoint]}
                   ELSE IF Len(s) = 2 /\ Is2(s)
                   THEN {[bind |-> Bind2(s), connect |-> NoEndpoint]} ELSE {})
<1> DEFINE B(n) == DocBind(opt, SubSeq(s, 1, n))
           C(n) == DocConnect(SubSeq(s, n + 1, Len(s)))
           R(n) == {[bind |-> b, connect |-> c] : b \in B(n), c \in C(n)}
           L == {[bind |-> b, connect |-> NoEndpoint] :
                   b \in {e \in DocBind(opt, s) : e.type = "tcp"}}
           R1 == IF Is1(s) /\ Ends(s, 2)
                 THEN {[bind |-> Bind1(opt, s), connect |-> ConnVal(s, 2)]} ELSE {}
           R2 == IF Is2(s) /\ Ends(s, 3)
                 THEN {[bind |-> Bind2(s), connect |-> ConnVal(s, 3)]} ELSE {}
           L1 == IF Len(s) = 1 /\ IsPort(s[1])
                 THEN {[bind |-> Bind1(opt, s), connect |-> NoEndpoint]}
                 ELSE IF Len(s) = 2 /\ Is2(s)
                 THEN {[bind |-> Bind2(s), connect |-> NoEndpoint]} ELSE {}
<1>1. DocReadings(opt, s) = (IF opt = "-D" THEN {} ELSE UNION {R(n) : n \in 1..Len(s)})
                            \cup (IF opt = "-L" THEN {} ELSE L)
  BY DEF DocReadings
<1>l. Len(s) \in Nat
  OBVIOUS
<1>2. ASSUME Len(s) >= 1
      PROVE  R(1) = R1
  <2>1. 1 \in 1..Len(s) /\ 1 + 1 = 2
    BY <1>l, <1>2
  <2>2. B(1) = IF Is1(s) THEN {Bind1(opt, s)} ELSE {}
    <3>1. ~(IsPort(s[1]) /\ s[1].kind = "path")
      BY DEF IsPort
    <3>2. B(1) = IF IsPort(s[1]) THEN {Tcp(DefaultHost(opt), s[1].num)}
                 ELSE IF s[1].kind = "path" THEN {Unix(s[1].text)} ELSE {}
      BY <2>1, DocBindIs
    <3> QED BY <1>2, <3>1, <3>2 DEF Is1, Bind1
  <2>3. C(1) = IF Ends(s, 2) THEN {ConnVal(s, 2)} ELSE {}
    BY <2>1, DocConnectIs DEF Ends
  <2> HIDE DEF B, C
  <2> QED BY <2>2, <2>3
<1>3. ASSUME Len(s) >= 2
      PROVE  R(2) = R2
  <2>1. 2 \in 1..Len(s) /\ 2 + 1 = 3
    BY <1>l, <1>3
  <2>2. B(2) = IF Is2(s) THEN {Bind2(s)} ELSE {}
    <3>1. B(2) = IF IsHost(s[1]) /\ IsPort(s[2]) THEN {Tcp(BindHost(s[1]), s[2].num)} ELSE {}
      <4>1. B(2) = IF 2 = 1 /\ IsPort(s[1]) THEN {Tcp(DefaultHost(opt), s[1].num)}
                   ELSE IF 2 = 1 /\ s[1].kind = "path" THEN {Unix(s[1].text)}
                   ELSE IF 2 = 2 /\ IsHost(s[1]) /\ IsPort(s[2])
                   THEN {Tcp(BindHost(s[1]), s[2].num)} ELSE {}
        BY <2>1, DocBindIs, Zenon
      <4> HIDE DEF B
      <4> QED BY <4>1
    <3> QED BY <1>3, <3>1 DEF Is2, Bind2
  <2>3. C(2) = IF Ends(s, 3) THEN {ConnVal(s, 3)} ELSE {}
    BY <2>1, DocConnectIs DEF Ends
  <2> HIDE DEF B, C
  <2> QED BY <2>2, <2>3
<1>4. ASSUME NEW n \in 1..Len(s), n # 1, n # 2
      PROVE  R(n) = {}
  <2>1. B(n) = {}
    BY <1>4, DocBindIs
  <2> HIDE DEF B, C
  <2> QED BY <2>1
<1>5. /\ ~(Len(s) >= 1) => R1 = {}
      /\ ~(Len(s) >= 2) => R2 = {}
  BY DEF Is1, Is2
<1>6. L = L1
  <2>1. CASE Len(s) = 0
    <3>1. DocBind(opt, s) = {}
      BY <2>1 DEF DocBind
    <3> QED BY <2>1, <3>1
  <2>2. CASE Len(s) # 0
    <3>1. Len(s) \in 1..Len(s) /\ SubSeq(s, 1, Len(s)) = s
      BY <1>l, <2>2
    <3>2. DocBind(opt, s) =
            IF Len(s) = 1 /\ IsPort(s[1]) THEN {Tcp(DefaultHost(opt), s[1].num)}
            ELSE IF Len(s) = 1 /\ s[1].kind = "path" THEN {Unix(s[1].text)}
            ELSE IF Len(s) = 2 /\ IsHost(s[1]) /\ IsPort(s[2])
            THEN {Tcp(BindHost(s[1]), s[2].num)} ELSE {}
      BY <3>1, DocBindIs
    <3>3. /\ Tcp(DefaultHost(opt), s[1].num).type = "tcp"
          /\ Unix(s[1].text).type = "unix"
          /\ Tcp(BindHost(s[1]), s[2].num).type = "tcp"
      BY DEF Tcp, Unix
    <3>4. CASE Len(s) = 1 /\ IsPort(s[1])
      <4>1. s[1].kind # "path"
        BY <3>4 DEF IsPort
      <4>2. DocBind(opt, s) = {Tcp(DefaultHost(opt), s[1].num)}
        BY <3>2, <3>4
      <4> QED BY <3>3, <3>4, <4>1, <4>2 DEF Bind1
    <3>5. CASE Len(s) = 1 /\ ~IsPort(s[1])
      <4>1. {e \in DocBind(opt, s) : e.type = "tcp"} = {}
        BY <3>2, <3>3, <3>5
      <4> QED BY <3>5, <4>1
    <3>6. CASE Len(s) = 2 /\ Is2(s)
      <4>1. DocBind(opt, s) = {Bind2(s)} /\ Bind2(s).type = "tcp"
        BY <3>2, <3>3, <3>6 DEF Is2, Bind2
      <4> QED BY <3>6, <4>1
    <3>7. CASE Len(s) # 1 /\ ~(Len(s) = 2 /\ Is2(s))
      <4>1. DocBind(opt, s) = {}
        BY <1>l, <3>2, <3>7 DEF Is2
      <4> QED BY <3>7, <4>1
    <3> QED BY <3>4, <3>5, <3>6, <3>7
  <2> QED BY <2>1, <2>2
<1>7. UNION {R(n) : n \in 1..Len(s)} = R1 \cup R2
  <2> HIDE DEF R, R1, R2
  <2>1. CASE Len(s) = 0
    BY <1>5, <2>1
  <2>2. CASE Len(s) = 1
    BY <1>2, <1>5, <2>2
  <2>3. CASE Len(s) >= 2
    <3>1. 1 \in 1..Len(s) /\ 2 \in 1..Len(s)
      BY <1>l, <2>3
    <3> QED BY <1>2, <1>3, <1>4, <1>l, <2>3, <3>1
  <2>4. Len(s) = 0 \/ Len(s) = 1 \/ Len(s) >= 2
    BY <1>l, NatCases, Zenon
  <2> QED BY <2>1, <2>2, <2>3, <2>4, Zenon
<1> HIDE DEF R, L
<1> QED BY <1>1, <1>6, <1>7
-----------------------------------------------------------------------------
(* The alternatives with a host and a port, by the forms' notions.  A star *)
(* is a host name too, but the rule for it comes first.                    *)
LEMMA HostRules ==
  ASSUME NEW s \in Seq(FieldValues)
  PROVE  LET r3 == [bind |-> Bind2(s), connect |-> ConnVal(s, 3)]
             w3 == Len(s) = ConnEnd(s, 3)
         IN
         /\ Reads(To(HostPort(BracketedIpv6(s))),
                  s[1].kind = "bracketed" /\ Is2(s) /\ ConnAt(s, 3), r3, w3)
         /\ Reads(To(HostPort(Star(s))),
                  s[1].kind = "star" /\ Is2(s) /\ ConnAt(s, 3), r3, w3)
         /\ s[1].kind # "star" => 
              Reads(To(HostPort(Hostname(s))),
                    s[1].kind \in {"digits", "name"} /\ Is2(s) /\ ConnAt(s, 3), r3, w3)
         /\ Reads(HostPort(BracketedIpv6(s)), s[1].kind = "bracketed" /\ Is2(s), Bind2(s), Len(s) = 2)
         /\ Reads(HostPort(Star(s)), s[1].kind = "star" /\ Is2(s), Bind2(s), Len(s) = 2)
         /\ s[1].kind # "star" => 
              Reads(HostPort(Hostname(s)), s[1].kind \in {"digits", "name"} /\ Is2(s), Bind2(s),
                    Len(s) = 2)
         /\ s[1].kind = "star" =>
              /\ To(HostPort(Hostname(s))) # {} => Is2(s) /\ ConnAt(s, 3)
              /\ HostPort(Hostname(s)) # {} => Is2(s)
<1> DEFINE two(c) == Len(s) >= 2 /\ c /\ IsPort(s[2])
           v(h) == [bind |-> Tcp(h, s[2].num), connect |-> ConnVal(s, 3)]
           w3 == Len(s) = ConnEnd(s, 3)
           r3 == [bind |-> Bind2(s), connect |-> ConnVal(s, 3)]
           kinds == {"digits", "name", "star"}
<1>1. /\ Reads(To(HostPort(BracketedIpv6(s))), two(s[1].kind = "bracketed") /\ ConnAt(s, 3),
               v(s[1].text), w3)
      /\ Reads(HostPort(BracketedIpv6(s)), two(s[1].kind = "bracketed"),
               Tcp(s[1].text, s[2].num), Len(s) = 2)
  <2>1. BracketedIpv6(s) = Match(s # <<>> /\ s[1].kind = "bracketed", s[1].text, Tail(s))
    BY TextIs DEF BracketedIpv6, Match
  <2> DEFINE c == s[1].kind = "bracketed"
  <2>2. c \in BOOLEAN /\ BracketedIpv6(s) = Match(s # <<>> /\ c, s[1].text, Tail(s))
    BY <2>1
  <2> HIDE DEF c
  <2>3. /\ Reads(To(HostPort(BracketedIpv6(s))), Len(s) >= 2 /\ c /\ IsPort(s[2]) /\ ConnAt(s, 3), v(s[1].text), w3)
        /\ Reads(HostPort(BracketedIpv6(s)), two(c), Tcp(s[1].text, s[2].num), Len(s) = 2)
    BY <2>2, HostAlt
  <2> QED BY <2>3 DEF c, Reads
<1>2. /\ Reads(To(HostPort(Star(s))), two(s[1].kind = "star") /\ ConnAt(s, 3), v(""), w3)
      /\ Reads(HostPort(Star(s)), two(s[1].kind = "star"), Tcp("", s[2].num), Len(s) = 2)
  <2> DEFINE c == s[1].kind = "star"
  <2>2. c \in BOOLEAN /\ Star(s) = Match(s # <<>> /\ c, "", Tail(s))
    BY StarIs
  <2> HIDE DEF c
  <2>3. /\ Reads(To(HostPort(Star(s))), Len(s) >= 2 /\ c /\ IsPort(s[2]) /\ ConnAt(s, 3), v(""), w3)
        /\ Reads(HostPort(Star(s)), two(c), Tcp("", s[2].num), Len(s) = 2)
    BY <2>2, HostAlt
  <2> QED BY <2>3 DEF c, Reads
<1>3. /\ Reads(To(HostPort(Hostname(s))), two(s[1].kind \in kinds) /\ ConnAt(s, 3),
               v(s[1].text), w3)
      /\ Reads(HostPort(Hostname(s)), two(s[1].kind \in kinds),
               Tcp(s[1].text, s[2].num), Len(s) = 2)
  <2> DEFINE c == s[1].kind \in kinds
  <2>2. c \in BOOLEAN /\ Hostname(s) = Match(s # <<>> /\ c, s[1].text, Tail(s))
    BY TextIs DEF Hostname
  <2> HIDE DEF c
  <2>3. /\ Reads(To(HostPort(Hostname(s))), Len(s) >= 2 /\ c /\ IsPort(s[2]) /\ ConnAt(s, 3), v(s[1].text), w3)
        /\ Reads(HostPort(Hostname(s)), two(c), Tcp(s[1].text, s[2].num), Len(s) = 2)
    BY <2>2, HostAlt
  <2> QED BY <2>3 DEF c, Reads
<1>4. /\ two(s[1].kind = "bracketed") <=> s[1].kind = "bracketed" /\ Is2(s)
      /\ two(s[1].kind = "star") <=> s[1].kind = "star" /\ Is2(s)
      /\ s[1].kind # "star" =>
           (two(s[1].kind \in kinds) <=> s[1].kind \in {"digits", "name"} /\ Is2(s))
  BY DEF Is2, IsHost
<1>5. /\ s[1].kind # "star" => Tcp(s[1].text, s[2].num) = Bind2(s) /\ v(s[1].text) = r3
      /\ s[1].kind = "star" => Tcp("", s[2].num) = Bind2(s) /\ v("") = r3
  BY DEF Bind2, BindHost
<1> HIDE DEF two, v, r3, w3
<1>6. /\ Reads(To(HostPort(BracketedIpv6(s))),
               s[1].kind = "bracketed" /\ Is2(s) /\ ConnAt(s, 3), r3, w3)
      /\ Reads(HostPort(BracketedIpv6(s)), s[1].kind = "bracketed" /\ Is2(s), Bind2(s), Len(s) = 2)
  BY <1>1, <1>4, <1>5 DEF Reads
<1>7. /\ Reads(To(HostPort(Star(s))), s[1].kind = "star" /\ Is2(s) /\ ConnAt(s, 3), r3, w3)
      /\ Reads(HostPort(Star(s)), s[1].kind = "star" /\ Is2(s), Bind2(s), Len(s) = 2)
  BY <1>2, <1>4, <1>5 DEF Reads
<1>8. s[1].kind # "star" =>
        /\ Reads(To(HostPort(Hostname(s))),
                 s[1].kind \in {"digits", "name"} /\ Is2(s) /\ ConnAt(s, 3), r3, w3)
        /\ Reads(HostPort(Hostname(s)), s[1].kind \in {"digits", "name"} /\ Is2(s), Bind2(s), Len(s) = 2)
  BY <1>3, <1>4, <1>5 DEF Reads
<1>9. s[1].kind = "star" =>
        /\ To(HostPort(Hostname(s))) # {} => Is2(s) /\ ConnAt(s, 3)
        /\ HostPort(Hostname(s)) # {} => Is2(s)
  BY <1>3 DEF Reads, Is2, IsHost, two
<1> QED BY <1>6, <1>7, <1>8, <1>9 DEF r3, w3

(* The three of them in a row are one alternative. *)
Row(A, B, C, H) ==
  \A X : (IF A # {} THEN A ELSE IF B # {} THEN B ELSE IF C # {} THEN C ELSE X)
           = IF H # {} THEN H ELSE X

HostsRead(s, A, B, C, cond, v, w) ==
  /\ cond => Is2(s)
  /\ Reads(A, s[1].kind = "bracketed" /\ cond, v, w)
  /\ Reads(B, s[1].kind = "star" /\ cond, v, w)
  /\ s[1].kind # "star" => Reads(C, s[1].kind \in {"digits", "name"} /\ cond, v, w)
  /\ s[1].kind = "star" => (C # {} => cond)

LEMMA HostChoice ==
  ASSUME NEW s \in Seq(FieldValues), NEW A, NEW B, NEW C, NEW cond \in BOOLEAN, NEW v,
         NEW w \in BOOLEAN, HostsRead(s, A, B, C, cond, v, w)
  PROVE  \E H : Reads(H, cond, v, w) /\ Row(A, B, C, H)
<1>1. CASE cond /\ s[1].kind = "bracketed"
  <2>1. Reads(A, cond, v, w) /\ A # {}
    BY <1>1 DEF Reads, HostsRead
  <2> QED BY <2>1 DEF Row
<1>2. CASE cond /\ s[1].kind = "star"
  <2>1. Reads(B, cond, v, w) /\ A = {} /\ B # {}
    BY <1>2 DEF Reads, HostsRead
  <2> QED BY <2>1 DEF Row
<1>3. CASE cond /\ s[1].kind \in {"digits", "name"}
  <2>1. Reads(C, cond, v, w) /\ A = {} /\ B = {} /\ C # {}
    BY <1>3 DEF Reads, HostsRead
  <2> QED BY <2>1 DEF Row
<1>4. CASE ~cond
  <2>1. Reads({}, cond, v, w) /\ A = {} /\ B = {} /\ C = {}
    BY <1>4 DEF Reads, HostsRead
  <2> QED BY <2>1 DEF Row
<1>5. cond => s[1].kind \in {"bracketed", "star", "digits", "name"}
  BY DEF Is2, IsHost, HostsRead
<1> QED BY <1>1, <1>2, <1>3, <1>4, <1>5

If(c, v) == IF c THEN {v} ELSE {}

(* What an alternative followed by another makes of the whole argument. *)
Choice(A, c, v, w, B) == Whole(IF A # {} THEN A ELSE B) = IF c THEN If(w, v) ELSE Whole(B)

LEMMA WholeChoice ==
  ASSUME NEW A, NEW B, NEW c \in BOOLEAN, NEW v, NEW w \in BOOLEAN, Reads(A, c, v, w)
  PROVE  Choice(A, c, v, w, B)
<1>1. CASE c
  <2>1. PICK r : A = {[val |-> v, rest |-> r]} /\ (r = <<>> <=> w)
    BY <1>1 DEF Reads
  <2> DEFINE x == [val |-> v, rest |-> r]
  <2>2. x.val = v /\ x.rest = r /\ A = {x}
    BY <2>1
  <2> HIDE DEF x
  <2>3. Whole(A) = If(w, v)
    BY <2>1, <2>2 DEF Whole, If
  <2> QED BY <1>1, <2>2, <2>3 DEF Choice
<1>2. CASE ~c
  BY <1>2 DEF Reads, Choice
<1> QED BY <1>1, <1>2

(* Where the forms exclude each other. *)
LEMMA Exclusive ==
  ASSUME NEW s \in Seq(FieldValues)
  PROVE  /\ s[1].kind = "path" => ~Is2(s) /\ ~IsPort(s[1])
         /\ Is2(s) /\ ConnAt(s, 3) => Len(s) >= 3 /\ ~Ends(s, 2)
         /\ Is2(s) /\ ConnAt(s, 2) => Len(s) >= 3
         /\ ConnAt(s, 2) => Len(s) >= 2
         /\ ConnAt(s, 3) => Len(s) >= 3
<1>1. s[1].kind = "path" => ~Is2(s) /\ ~IsPort(s[1])
  BY DEF Is2, IsHost, IsPort
<1>2. Len(s) \in Nat /\ (ConnAt(s, 2) => Len(s) >= 2) /\ (ConnAt(s, 3) => Len(s) >= 3)
  BY DEF ConnAt
<1>3. Is2(s) => s[2].kind # "path"
  BY DEF Is2, IsPort
<1>4. ASSUME Is2(s), ConnAt(s, 2)
      PROVE  Len(s) >= 3 /\ IsPort(s[3]) /\ ConnEnd(s, 2) = 3
  BY <1>3, <1>4 DEF ConnAt, ConnEnd
<1>5. ASSUME Is2(s), ConnAt(s, 3), Ends(s, 2)
      PROVE  FALSE
  <2>1. Len(s) = 3 /\ IsPort(s[3])
    BY <1>2, <1>4, <1>5 DEF Ends
  <2>2. s[3].kind # "path"
    BY <2>1 DEF IsPort
  <2> QED BY <1>5, <2>1, <2>2 DEF ConnAt
<1> QED BY <1>1, <1>2, <1>4, <1>5

(* What an option's grammar makes of an argument. *)
Reading1(opt, s) == [bind |-> Bind1(opt, s), connect |-> ConnVal(s, 2)]
Reading2(s) == [bind |-> Bind2(s), connect |-> ConnVal(s, 3)]
Listen1(opt, s) == [bind |-> Bind1(opt, s), connect |-> NoEndpoint]
Listen2(s) == [bind |-> Bind2(s), connect |-> NoEndpoint]

ToChain(opt, s, otherwise) ==
  IF Len(s) >= 1 /\ s[1].kind = "path" /\ ConnAt(s, 2)
  THEN If(Len(s) = ConnEnd(s, 2), Reading1(opt, s))
  ELSE IF Is2(s) /\ ConnAt(s, 3)
  THEN If(Len(s) = ConnEnd(s, 3), Reading2(s))
  ELSE IF Len(s) >= 1 /\ IsPort(s[1]) /\ ConnAt(s, 2)
  THEN If(Len(s) = ConnEnd(s, 2), Reading1(opt, s))
  ELSE otherwise
ListenChain(opt, s) ==
  IF Is2(s) THEN If(Len(s) = 2, Listen2(s))
  ELSE IF Len(s) >= 1 /\ IsPort(s[1]) THEN If(Len(s) = 1, Listen1(opt, s))
  ELSE {}

(* The alternatives of an option that have a target, in their order. *)
LEMMA ToChainIs ==
  ASSUME NEW s \in Seq(FieldValues), NEW opt, NEW X
  PROVE  LET U == To(UnixPath(s))
             A == To(HostPort(BracketedIpv6(s)))
             B == To(HostPort(Star(s)))
             C == To(HostPort(Hostname(s)))
             P == To(PortAlone(DefaultHost(opt), s))
         IN Whole(IF U # {} THEN U ELSE IF A # {} THEN A ELSE IF B # {} THEN B
                  ELSE IF C # {} THEN C ELSE IF P # {} THEN P ELSE X)
              = ToChain(opt, s, Whole(X))
<1> DEFINE U == To(UnixPath(s))
           A == To(HostPort(BracketedIpv6(s)))
           B == To(HostPort(Star(s)))
           C == To(HostPort(Hostname(s)))
           P == To(PortAlone(DefaultHost(opt), s))
           cu == Len(s) >= 1 /\ s[1].kind = "path" /\ ConnAt(s, 2)
           ch == Is2(s) /\ ConnAt(s, 3)
           cp == Len(s) >= 1 /\ IsPort(s[1]) /\ ConnAt(s, 2)
           w2 == Len(s) = ConnEnd(s, 2)
           w3 == Len(s) = ConnEnd(s, 3)
<1>1. /\ cu \in BOOLEAN /\ ch \in BOOLEAN /\ cp \in BOOLEAN
      /\ w2 \in BOOLEAN /\ w3 \in BOOLEAN
  BY DEF ConnAt, Is2, IsPort, IsHost
<1>2. Reads(U, cu, Reading1(opt, s), w2)
  <2>1. Reads(U, cu, [bind |-> Unix(s[1].text), connect |-> ConnVal(s, 2)], w2)
    BY UnixAlt
  <2>2. cu => [bind |-> Unix(s[1].text), connect |-> ConnVal(s, 2)] = Reading1(opt, s)
    BY DEF Reading1, Bind1
  <2> HIDE DEF cu, U, w2
  <2> QED BY <2>1, <2>2 DEF Reads
<1>3. Reads(P, cp, Reading1(opt, s), w2)
  <2>1. Reads(P, cp, [bind |-> Tcp(DefaultHost(opt), s[1].num), connect |-> ConnVal(s, 2)], w2)
    BY PortAlt
  <2>2. cp => [bind |-> Tcp(DefaultHost(opt), s[1].num), connect |-> ConnVal(s, 2)]
                = Reading1(opt, s)
    BY DEF Reading1, Bind1, IsPort
  <2> HIDE DEF cp, P, w2
  <2> QED BY <2>1, <2>2 DEF Reads
<1>4. /\ Reads(A, s[1].kind = "bracketed" /\ ch, Reading2(s), w3)
      /\ Reads(B, s[1].kind = "star" /\ ch, Reading2(s), w3)
      /\ s[1].kind # "star" => Reads(C, s[1].kind \in {"digits", "name"} /\ ch, Reading2(s), w3)
      /\ s[1].kind = "star" => (C # {} => ch)
  BY HostRules DEF Reading2
<1>5. ch => Is2(s)
  OBVIOUS
<1> HIDE DEF U, A, B, C, P, cu, ch, cp, w2, w3
<1>h. HostsRead(s, A, B, C, ch, Reading2(s), w3)
  BY <1>4, <1>5 DEF HostsRead
<1>6. PICK H : /\ Reads(H, ch, Reading2(s), w3)
               /\ Row(A, B, C, H)
  BY <1>1, <1>h, HostChoice
<1> DEFINE Q == IF P # {} THEN P ELSE X
           G == IF H # {} THEN H ELSE Q
<1>7. (IF U # {} THEN U ELSE IF A # {} THEN A ELSE IF B # {} THEN B ELSE IF C # {} THEN C ELSE Q)
        = IF U # {} THEN U ELSE G
  BY <1>6 DEF Row
<1>8. Whole(Q) = IF cp THEN If(w2, Reading1(opt, s)) ELSE Whole(X)
  BY <1>1, <1>3, WholeChoice DEF Choice
<1> HIDE DEF Q
<1>9. Whole(G) = IF ch THEN If(w3, Reading2(s)) ELSE Whole(Q)
  BY <1>1, <1>6, WholeChoice DEF Choice
<1> HIDE DEF G
<1>10. Whole(IF U # {} THEN U ELSE G) = IF cu THEN If(w2, Reading1(opt, s)) ELSE Whole(G)
  BY <1>1, <1>2, WholeChoice DEF Choice
<1>11. Whole(IF U # {} THEN U ELSE IF A # {} THEN A ELSE IF B # {} THEN B
             ELSE IF C # {} THEN C ELSE Q) = ToChain(opt, s, Whole(X))
  BY <1>7, <1>8, <1>9, <1>10 DEF ToChain, cu, ch, cp, w2, w3
<1> QED BY <1>11 DEF Q, U, A, B, C, P

(* The listen-only ones, in theirs. *)
LEMMA ListenChainIs ==
  ASSUME NEW s \in Seq(FieldValues), NEW opt
  PROVE  LET A == HostPort(BracketedIpv6(s))
             B == HostPort(Star(s))
             C == HostPort(Hostname(s))
             P == PortAlone(DefaultHost(opt), s)
         IN /\ Whole(ListenOnly(IF A # {} THEN A ELSE IF B # {} THEN B
                               ELSE IF C # {} THEN C ELSE P)) = ListenChain(opt, s)
            /\ Whole(IF ListenOnly(A) # {} THEN ListenOnly(A)
                     ELSE IF ListenOnly(B) # {} THEN ListenOnly(B)
                     ELSE IF ListenOnly(C) # {} THEN ListenOnly(C) ELSE ListenOnly(P))
                 = ListenChain(opt, s)
<1> DEFINE A == HostPort(BracketedIpv6(s))
           B == HostPort(Star(s))
           C == HostPort(Hostname(s))
           P == PortAlone(DefaultHost(opt), s)
           cp == Len(s) >= 1 /\ IsPort(s[1])
           w1 == Len(s) = 1
           w2 == Len(s) = 2
<1>1. Is2(s) \in BOOLEAN /\ cp \in BOOLEAN /\ w1 \in BOOLEAN /\ w2 \in BOOLEAN
  BY DEF Is2, IsPort, IsHost
<1>2. Reads(P, cp, Bind1(opt, s), w1)
  <2>1. Reads(P, cp, Tcp(DefaultHost(opt), s[1].num), w1)
    BY PortAlt
  <2>2. cp => Tcp(DefaultHost(opt), s[1].num) = Bind1(opt, s)
    BY DEF Bind1, IsPort
  <2> HIDE DEF cp, P, w1
  <2> QED BY <2>1, <2>2 DEF Reads
<1>3. /\ Reads(A, s[1].kind = "bracketed" /\ Is2(s), Bind2(s), w2)
      /\ Reads(B, s[1].kind = "star" /\ Is2(s), Bind2(s), w2)
      /\ s[1].kind # "star" => Reads(C, s[1].kind \in {"digits", "name"} /\ Is2(s), Bind2(s), w2)
      /\ s[1].kind = "star" => (C # {} => Is2(s))
  BY HostRules
<1> HIDE DEF A, B, C, P, cp, w1, w2
<1>h. HostsRead(s, A, B, C, Is2(s), Bind2(s), w2)
  BY <1>3 DEF HostsRead
<1>4. PICK H : /\ Reads(H, Is2(s), Bind2(s), w2)
               /\ Row(A, B, C, H)
  BY <1>1, <1>h, HostChoice
<1>5. /\ Reads(ListenOnly(P), cp, Listen1(opt, s), w1)
      /\ Reads(ListenOnly(H), Is2(s), Listen2(s), w2)
  BY <1>1, <1>2, <1>4, ListenOnlyIs DEF Listen1, Listen2
<1>6. \A D : ListenOnly(D) # {} <=> D # {}
  BY DEF ListenOnly
<1>7. Whole(ListenOnly(IF H # {} THEN H ELSE P))
        = IF Is2(s) THEN If(w2, Listen2(s)) ELSE IF cp THEN If(w1, Listen1(opt, s)) ELSE {}
  <2>1. ListenOnly(IF H # {} THEN H ELSE P)
          = IF ListenOnly(H) # {} THEN ListenOnly(H)
            ELSE IF ListenOnly(P) # {} THEN ListenOnly(P) ELSE {}
    BY <1>6
  <2>2. Whole(IF ListenOnly(P) # {} THEN ListenOnly(P) ELSE {})
          = IF cp THEN If(w1, Listen1(opt, s)) ELSE Whole({})
    BY <1>1, <1>5, WholeChoice DEF Choice
  <2> DEFINE Q == IF ListenOnly(P) # {} THEN ListenOnly(P) ELSE {}
  <2> HIDE DEF Q
  <2>3. Whole(IF ListenOnly(H) # {} THEN ListenOnly(H) ELSE Q)
          = IF Is2(s) THEN If(w2, Listen2(s)) ELSE Whole(Q)
    BY <1>1, <1>5, WholeChoice DEF Choice
  <2>4. Whole({}) = {}
    BY DEF Whole
  <2> QED BY <2>1, <2>2, <2>3, <2>4 DEF Q
<1>8. ListenOnly(IF A # {} THEN A ELSE IF B # {} THEN B ELSE IF C # {} THEN C ELSE P)
        = IF ListenOnly(A) # {} THEN ListenOnly(A)
          ELSE IF ListenOnly(B) # {} THEN ListenOnly(B)
          ELSE IF ListenOnly(C) # {} THEN ListenOnly(C) ELSE ListenOnly(P)
  BY <1>6
<1>9. (IF A # {} THEN A ELSE IF B # {} THEN B ELSE IF C # {} THEN C ELSE P)
        = IF H # {} THEN H ELSE P
  BY <1>4 DEF Row
<1> QED BY <1>7, <1>8, <1>9 DEF ListenChain, A, B, C, P, cp, w1, w2
-----------------------------------------------------------------------------
LEMMA FromStrIs ==
  ASSUME NEW s \in Seq(FieldValues)
  PROVE  /\ FromStr("-L", s) = ToChain("-L", s, {})
         /\ FromStr("-R", s) = ToChain("-R", s, ListenChain("-R", s))
         /\ FromStr("-D", s) = ListenChain("-D", s)
<1> DEFINE U == To(UnixPath(s))
           A == To(HostPort(BracketedIpv6(s)))
           B == To(HostPort(Star(s)))
           C == To(HostPort(Hostname(s)))
           P(h) == To(PortAlone(h, s))
           HA == HostPort(BracketedIpv6(s))
           HB == HostPort(Star(s))
           HC == HostPort(Hostname(s))
           HP(h) == PortAlone(h, s)
           LA == ListenOnly(HA)
           LB == ListenOnly(HB)
           LC == ListenOnly(HC)
           LP == ListenOnly(HP(LoopbackHost))
           L == IF LA # {} THEN LA ELSE IF LB # {} THEN LB ELSE IF LC # {} THEN LC ELSE LP
<1>1. /\ FromStr("-L", s) = Whole(LocalForward(s))
      /\ FromStr("-R", s) = Whole(RemoteForward(s))
      /\ FromStr("-D", s) = Whole(DynamicForward(s))
  BY DEF FromStr, Whole
<1>2. /\ DefaultHost("-L") = LocalHost /\ DefaultHost("-R") = LoopbackHost
      /\ DefaultHost("-D") = LocalHost
  BY DEF DefaultHost
<1>3. Whole({}) = {}
  BY DEF Whole
<1>4. FromStr("-L", s) = ToChain("-L", s, {})
  <2>1. LocalForward(s) = IF U # {} THEN U ELSE IF A # {} THEN A ELSE IF B # {} THEN B
                          ELSE IF C # {} THEN C ELSE P(LocalHost)
    <3>1. LocalForward(s) = FirstOf(<<U, A, B, C, P(LocalHost)>>)
      BY DEF LocalForward
    <3> HIDE DEF U, A, B, C, P
    <3> QED BY <3>1, FirstOf5
  <2>2. Whole(IF U # {} THEN U ELSE IF A # {} THEN A ELSE IF B # {} THEN B
              ELSE IF C # {} THEN C ELSE IF P(DefaultHost("-L")) # {} THEN P(DefaultHost("-L"))
              ELSE {}) = ToChain("-L", s, Whole({}))
    BY ToChainIs
  <2> HIDE DEF U, A, B, C, P
  <2>3. (IF P(LocalHost) # {} THEN P(LocalHost) ELSE {}) = P(LocalHost)
    OBVIOUS
  <2> QED BY <1>1, <1>2, <1>3, <2>1, <2>2, <2>3
<1>5. FromStr("-R", s) = ToChain("-R", s, ListenChain("-R", s))
  <2>1. RemoteForward(s) = IF U # {} THEN U ELSE IF A # {} THEN A ELSE IF B # {} THEN B
                           ELSE IF C # {} THEN C ELSE IF P(LoopbackHost) # {} THEN P(LoopbackHost)
                           ELSE L
    <3>1. RemoteForward(s) = FirstOf(<<U, A, B, C, P(LoopbackHost), LA, LB, LC, LP>>)
      BY DEF RemoteForward
    <3> HIDE DEF U, A, B, C, P, LA, LB, LC, LP
    <3> QED BY <3>1, FirstOf9
  <2>2. Whole(IF U # {} THEN U ELSE IF A # {} THEN A ELSE IF B # {} THEN B
              ELSE IF C # {} THEN C ELSE IF P(DefaultHost("-R")) # {} THEN P(DefaultHost("-R"))
              ELSE L) = ToChain("-R", s, Whole(L))
    BY ToChainIs
  <2>3. Whole(L) = ListenChain("-R", s)
    BY <1>2, ListenChainIs, Zenon
  <2> HIDE DEF U, A, B, C, P, L
  <2> QED BY <1>1, <1>2, <2>1, <2>2, <2>3
<1>6. FromStr("-D", s) = ListenChain("-D", s)
  <2>1. DynamicForward(s) = ListenOnly(IF HA # {} THEN HA ELSE IF HB # {} THEN HB
                                       ELSE IF HC # {} THEN HC ELSE HP(LocalHost))
    <3>1. DynamicForward(s) = ListenOnly(FirstOf(<<HA, HB, HC, HP(LocalHost)>>))
      BY DEF DynamicForward
    <3> HIDE DEF HA, HB, HC, HP
    <3> QED BY <3>1, FirstOf4
  <2>2. Whole(ListenOnly(IF HA # {} THEN HA ELSE IF HB # {} THEN HB
                         ELSE IF HC # {} THEN HC ELSE HP(LocalHost))) = ListenChain("-D", s)
    BY <1>2, ListenChainIs, Zenon
  <2> QED BY <1>1, <2>1, <2>2, Zenon
<1> QED BY <1>4, <1>5, <1>6

(* The forms leave no choice where the grammar makes one. *)
LEMMA DocChain ==
  ASSUME NEW s \in Seq(FieldValues), NEW opt \in {"-L", "-R", "-D"}
  PROVE  DocReadings(opt, s) =
           CASE opt = "-L" -> ToChain("-L", s, {})
             [] opt = "-R" -> ToChain("-R", s, ListenChain("-R", s))
             [] opt = "-D" -> ListenChain("-D", s)
<1> DEFINE R1(o) == IF Is1(s) /\ Ends(s, 2) THEN {Reading1(o, s)} ELSE {}
           R2 == IF Is2(s) /\ Ends(s, 3) THEN {Reading2(s)} ELSE {}
           L1(o) == IF Len(s) = 1 /\ IsPort(s[1]) THEN {Listen1(o, s)}
                    ELSE IF Len(s) = 2 /\ Is2(s) THEN {Listen2(s)} ELSE {}
<1>0. Len(s) \in Nat
  OBVIOUS
<1>e. /\ s[1].kind = "path" => ~Is2(s) /\ ~IsPort(s[1])
      /\ Is2(s) /\ ConnAt(s, 3) => Len(s) >= 3 /\ ~Ends(s, 2)
      /\ Is2(s) /\ ConnAt(s, 2) => Len(s) >= 3
      /\ ConnAt(s, 2) => Len(s) >= 2
  BY Exclusive
<1>n. /\ Len(s) >= 3 => Len(s) # 1 /\ Len(s) # 2
      /\ Len(s) >= 2 => Len(s) # 1
  <2> DEFINE n == Len(s)
  <2>1. n \in Nat
    BY <1>0
  <2> HIDE DEF n
  <2>2. (n >= 3 => n # 1 /\ n # 2) /\ (n >= 2 => n # 1)
    BY <2>1
  <2> QED BY <2>2 DEF n
<1>1. ASSUME NEW o
      PROVE  DocReadings(o, s) = (IF o = "-D" THEN {} ELSE R1(o) \cup R2)
                                 \cup (IF o = "-L" THEN {} ELSE L1(o))
  BY DocIs, Zenon DEF Reading1, Reading2, Listen1, Listen2
<1>2. ASSUME NEW o
      PROVE  L1(o) = ListenChain(o, s)
  <2>1. CASE Is2(s)
    <3>1. Len(s) # 1
      BY <1>0, <2>1 DEF Is2
    <3> QED BY <2>1, <3>1 DEF ListenChain, If
  <2>2. CASE ~Is2(s)
    <3>1. Len(s) = 1 => Len(s) >= 1
      BY <1>0
    <3> QED BY <2>2, <3>1 DEF ListenChain, If
  <2> QED BY <2>1, <2>2
<1>3. ASSUME NEW o, NEW x, x = {} \/ x = L1(o)
      PROVE  R1(o) \cup R2 \cup x = ToChain(o, s, x)
  <2>1. CASE Len(s) >= 1 /\ s[1].kind = "path" /\ ConnAt(s, 2)
    <3>1. ~Is2(s) /\ Len(s) # 1
      BY <1>e, <1>n, <2>1
    <3>2. R1(o) = If(Len(s) = ConnEnd(s, 2), Reading1(o, s)) /\ R2 = {} /\ x = {}
      BY <1>3, <2>1, <3>1 DEF Is1, Ends, If
    <3> HIDE DEF R1, R2
    <3> QED BY <2>1, <3>2 DEF ToChain
  <2>2. CASE Is2(s) /\ ConnAt(s, 3)
    <3>1. s[1].kind # "path" /\ ~Ends(s, 2) /\ Len(s) # 1 /\ Len(s) # 2
      BY <1>e, <1>n, <2>2
    <3>2. R1(o) = {} /\ R2 = If(Len(s) = ConnEnd(s, 3), Reading2(s)) /\ x = {}
      BY <1>3, <2>2, <3>1 DEF Ends, If
    <3> HIDE DEF R1, R2
    <3> QED BY <2>2, <3>1, <3>2 DEF ToChain
  <2>3. CASE Len(s) >= 1 /\ IsPort(s[1]) /\ ConnAt(s, 2) /\ ~(Is2(s) /\ ConnAt(s, 3))
    <3>1. s[1].kind # "path" /\ Len(s) # 1 /\ ~(Len(s) = 2 /\ Is2(s))
      BY <1>e, <1>n, <2>3
    <3>2. R1(o) = If(Len(s) = ConnEnd(s, 2), Reading1(o, s)) /\ R2 = {} /\ x = {}
      BY <1>3, <2>3, <3>1 DEF Is1, Ends, If
    <3> HIDE DEF R1, R2
    <3> QED BY <2>3, <3>1, <3>2 DEF ToChain
  <2>4. CASE /\ ~(Len(s) >= 1 /\ s[1].kind = "path" /\ ConnAt(s, 2))
             /\ ~(Is2(s) /\ ConnAt(s, 3))
             /\ ~(Len(s) >= 1 /\ IsPort(s[1]) /\ ConnAt(s, 2))
    <3>1. R1(o) = {} /\ R2 = {}
      BY <2>4 DEF Is1, Ends
    <3> HIDE DEF R1, R2
    <3> QED BY <2>4, <3>1 DEF ToChain
  <2> QED BY <2>1, <2>2, <2>3, <2>4
<1> HIDE DEF R1, R2, L1
<1>4. CASE opt = "-L"
  <2>1. DocReadings("-L", s) = R1("-L") \cup R2 \cup {}
    BY <1>1
  <2> QED BY <1>3, <1>4, <2>1
<1>5. CASE opt = "-R"
  <2>1. DocReadings("-R", s) = R1("-R") \cup R2 \cup L1("-R")
    BY <1>1
  <2>2. R1("-R") \cup R2 \cup L1("-R") = ToChain("-R", s, L1("-R"))
    BY <1>3
  <2> QED BY <1>2, <1>5, <2>1, <2>2
<1>6. CASE opt = "-D"
  <2>1. DocReadings("-D", s) = L1("-D")
    BY <1>1
  <2> QED BY <1>2, <1>6, <2>1
<1> QED BY <1>4, <1>5, <1>6

LEMMA ChainIsOneReading ==
  ASSUME NEW s, NEW opt
  PROVE  /\ Cardinality(ListenChain(opt, s)) <= 1
         /\ Cardinality(ToChain(opt, s, {})) <= 1
         /\ Cardinality(ToChain(opt, s, ListenChain(opt, s))) <= 1
<1>1. ASSUME NEW S, NEW v, S = {} \/ S = {v}
      PROVE  Cardinality(S) <= 1
  <2>1. Cardinality({}) = 0 /\ Cardinality({v}) = 1
    BY FS_EmptySet, FS_Singleton
  <2>2. CASE S = {}
    BY <2>1, <2>2
  <2>3. CASE S = {v}
    BY <2>1, <2>3
  <2> QED BY <1>1, <2>2, <2>3
<1>2. \E v : ListenChain(opt, s) = {} \/ ListenChain(opt, s) = {v}
  <2>1. \/ ListenChain(opt, s) = {} \/ ListenChain(opt, s) = {Listen2(s)}
        \/ ListenChain(opt, s) = {Listen1(opt, s)}
    BY DEF ListenChain, If
  <2> QED BY <2>1
<1>3. ASSUME NEW l
      PROVE  \/ ToChain(opt, s, l) = {} \/ ToChain(opt, s, l) = {Reading1(opt, s)}
             \/ ToChain(opt, s, l) = {Reading2(s)} \/ ToChain(opt, s, l) = l
  BY DEF ToChain, If
<1>4. \E v : ToChain(opt, s, {}) = {} \/ ToChain(opt, s, {}) = {v}
  BY <1>3
<1>5. \E v : \/ ToChain(opt, s, ListenChain(opt, s)) = {}
            \/ ToChain(opt, s, ListenChain(opt, s)) = {v}
  <2> DEFINE l == ListenChain(opt, s)
  <2> HIDE DEF l
  <2>1. \E v : l = {} \/ l = {v}
    BY <1>2 DEF l
  <2>2. \E v : ToChain(opt, s, l) = {} \/ ToChain(opt, s, l) = {v}
    BY <1>3, <2>1
  <2> QED BY <2>2 DEF l
<1> QED BY <1>1, <1>2, <1>4, <1>5

(* Every -L, -R and -D argument, however long, is read by the ordered      *)
(* grammar of from_str as the documented forms read it: it is rejected iff *)
(* it has none of them, and no argument has two readings to choose from.   *)
THEOREM ArgumentsMeanTheirForms ==
  ASSUME NEW s \in Seq(FieldValues), NEW opt \in {"-L", "-R", "-D"}
  PROVE  FromStr(opt, s) = DocReadings(opt, s) /\ Cardinality(DocReadings(opt, s)) <= 1
<1>1. CASE opt = "-L"
  <2>1. FromStr(opt, s) = ToChain(opt, s, {}) /\ DocReadings(opt, s) = ToChain(opt, s, {})
    BY <1>1, FromStrIs, DocChain
  <2> QED BY <2>1, ChainIsOneReading
<1>2. CASE opt = "-R"
  <2>1. /\ FromStr(opt, s) = ToChain(opt, s, ListenChain(opt, s))
        /\ DocReadings(opt, s) = ToChain(opt, s, ListenChain(opt, s))
    BY <1>2, FromStrIs, DocChain
  <2> QED BY <2>1, ChainIsOneReading
<1>3. CASE opt = "-D"
  <2>1. FromStr(opt, s) = ListenChain(opt, s) /\ DocReadings(opt, s) = ListenChain(opt, s)
    BY <1>3, FromStrIs, DocChain
  <2> QED BY <2>1, ChainIsOneReading
<1> QED BY <1>1, <1>2, <1>3
=============================================================================
