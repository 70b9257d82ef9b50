------------------------- MODULE SessionChannelProofs -------------------------
(***************************************************************************)
(* Proofs about SessionChannel: no reader loses its place, every set-up    *)
(* call gets its own reply, run returns what the server reported with all  *)
(* of its output, and the command's input ends behind what was typed.      *)
(*                                                                         *)
(* The lemmas of the first part are about one stream, as a sequence of     *)
(* heads and bodies; those of the second about one step of the system.     *)
(***************************************************************************)
EXTENDS SessionChannel, FiniteSetTheorems, SequenceTheorems, TLAPS

Tokens  == Heads \cup {Body}
Starts  == {"exec", "shell"}
Running == {"start", "run", "close", "shutdown", "join"}
Later   == {"data", "window-change", "eof", "close"}
Answer(r) == IF r = "unknown" THEN "failure" ELSE "success"

(* A stream of messages: a head with a body has it behind it, unless the   *)
(* writer was dropped in between, and no body is without its head.         *)
Framed(s, e) ==
  \A n \in 1..Len(s) :
    /\ s[n] \in WithBody => \/ n < Len(s) /\ s[n + 1] = Body
                            \/ n = Len(s) /\ e # "open"
    /\ s[n] = Body => n > 1 /\ s[n - 1] \in WithBody

(* The output in a stream is what was written behind the first m chunks:   *)
(* f is where each of these is.                                            *)
Places(f, s, w, m) ==
  /\ \A i \in m + 1..Len(w) : f[i] \in 1..Len(s) - 1 /\ s[f[i]] = w[i]
  /\ \A i, j \in m + 1..Len(w) : i < j => f[i] < f[j]
  /\ \A n \in 1..Len(s) - 1 : s[n] \in Output => \E i \in m + 1..Len(w) : f[i] = n
Queued(s, w, m) == \E f \in [m + 1..Len(w) -> Nat] : Places(f, s, w, m)

HasExit(s) == \E n \in 1..Len(s) - 1 : s[n] = "exit"
Chunks(s) == {n \in 1..Len(s) - 1 : s[n] = "data"}
DataWhole(s) == \A n \in 1..Len(s) : s[n] = "data" => n < Len(s)
-----------------------------------------------------------------------------
(* Streams. *)

(* What a reader leaves when it takes n elements. *)
LEMMA TakeFacts ==
  ASSUME NEW s \in Seq(Tokens), NEW n \in Nat, n <= Len(s)
  PROVE  LET t == SubSeq(s, n + 1, Len(s)) IN
         /\ t \in Seq(Tokens) /\ Len(t) = Len(s) - n
         /\ \A m \in 1..Len(t) : t[m] = s[m + n]
<1> DEFINE t == SubSeq(s, n + 1, Len(s))
<1>1. CASE n < Len(s)
  <2>1. n + 1 \in 1..Len(s) + 1 /\ Len(s) \in n..Len(s)
    BY <1>1
  <2>2. t \in Seq(Tokens) /\ Len(t) = Len(s) - n /\ \A m \in 1..Len(t) : t[m] = s[n + 1 + m - 1]
    BY <1>1, <2>1, SubSeqProperties, SMT
  <2> QED BY SMTT(30), <2>2, <1>1
<1>2. CASE n = Len(s)
  <2>1. t = <<>>
    BY <1>2, SubSeqEmpty
  <2> QED BY <2>1, <1>2, EmptySeq
<1> QED BY <1>1, <1>2

(* What a writer makes of it with a message, or the head of one. *)
LEMMA MessageFacts ==
  ASSUME NEW k \in Heads
  PROVE  /\ Message(k) \in Seq(Tokens) /\ Len(Message(k)) = Size(k)
         /\ Message(k)[1] = k /\ (k \in WithBody => Message(k)[2] = Body)
         /\ Size(k) = IF k \in WithBody THEN 2 ELSE 1
<1>1. CASE k \in WithBody
  BY <1>1 DEF Message, Size, Tokens
<1>2. CASE k \notin WithBody
  BY <1>2 DEF Message, Size, Tokens
<1> QED BY <1>1, <1>2

LEMMA PutFacts ==
  ASSUME NEW s \in Seq(Tokens), NEW k \in Heads
  PROVE  LET t == s \o Message(k) IN
         /\ t \in Seq(Tokens) /\ Len(t) = Len(s) + Size(k)
         /\ \A m \in 1..Len(s) : t[m] = s[m]
         /\ t[Len(s) + 1] = k /\ (k \in WithBody => t[Len(s) + 2] = Body)
         /\ Size(k) = IF k \in WithBody THEN 2 ELSE 1
<1> DEFINE u == Message(k)
<1>1. u \in Seq(Tokens) /\ Len(u) = Size(k) /\ u[1] = k /\ (k \in WithBody => u[2] = Body)
      /\ Size(k) = IF k \in WithBody THEN 2 ELSE 1
  BY MessageFacts
<1> HIDE DEF u
<1>2. s \o u \in Seq(Tokens) /\ Len(s \o u) = Len(s) + Len(u)
      /\ \A m \in 1..Len(s) + Len(u) :
           (s \o u)[m] = IF m <= Len(s) THEN s[m] ELSE u[m - Len(s)]
  BY <1>1, ConcatProperties
<1> QED BY <1>1, <1>2 DEF u

LEMMA CutFacts ==
  ASSUME NEW s \in Seq(Tokens), NEW k \in Heads
  PROVE  LET t == s \o <<k>> IN
         /\ t \in Seq(Tokens) /\ Len(t) = Len(s) + 1
         /\ \A m \in 1..Len(s) : t[m] = s[m]
         /\ t[Len(s) + 1] = k
<1> DEFINE u == <<k>>
<1>1. u \in Seq(Tokens) /\ Len(u) = 1 /\ u[1] = k
  BY DEF Tokens
<1> HIDE DEF u
<1>2. s \o u \in Seq(Tokens) /\ Len(s \o u) = Len(s) + Len(u)
      /\ \A m \in 1..Len(s) + Len(u) :
           (s \o u)[m] = IF m <= Len(s) THEN s[m] ELSE u[m - Len(s)]
  BY <1>1, ConcatProperties
<1> QED BY <1>1, <1>2 DEF u

LEMMA FramedPut ==
  ASSUME NEW s \in Seq(Tokens), NEW k \in Heads, NEW e, Framed(s, "open")
  PROVE  Framed(s \o Message(k), e)
<1> DEFINE t == s \o Message(k)
<1>1. /\ Len(t) = Len(s) + Size(k) /\ Len(t) \in Nat /\ Len(s) \in Nat
      /\ \A m \in 1..Len(s) : t[m] = s[m]
      /\ t[Len(s) + 1] = k /\ (k \in WithBody => t[Len(s) + 2] = Body)
      /\ Size(k) = IF k \in WithBody THEN 2 ELSE 1
  BY PutFacts, LenProperties
<1>2. k # Body /\ Body \notin WithBody
  BY DEF Heads, WithBody, Bodiless, Body
<1> HIDE DEF t
<1> SUFFICES ASSUME NEW n \in 1..Len(t)
             PROVE  /\ t[n] \in WithBody => n < Len(t) /\ t[n + 1] = Body
                    /\ t[n] = Body => n > 1 /\ t[n - 1] \in WithBody
  BY DEF Framed, t
<1>3. CASE n <= Len(s)
  <2>1. /\ n \in 1..Len(s) /\ t[n] = s[n]
        /\ s[n] \in WithBody => n < Len(s) /\ s[n + 1] = Body
        /\ s[n] = Body => n > 1 /\ s[n - 1] \in WithBody
    BY <1>1, <1>3 DEF Framed
  <2> QED BY <1>1, <2>1
<1>4. CASE n = Len(s) + 1
  BY <1>1, <1>2, <1>4
<1>5. CASE n = Len(s) + 2 /\ k \in WithBody
  BY <1>1, <1>2, <1>5
<1> QED BY <1>1, <1>3, <1>4, <1>5

LEMMA FramedCut ==
  ASSUME NEW s \in Seq(Tokens), NEW k \in Heads, NEW e, e # "open", Framed(s, "open")
  PROVE  Framed(s \o <<k>>, e)
<1> DEFINE t == s \o <<k>>
<1>1. /\ Len(t) = Len(s) + 1 /\ Len(s) \in Nat
      /\ \A m \in 1..Len(s) : t[m] = s[m]
      /\ t[Len(s) + 1] = k
  BY CutFacts, LenProperties
<1>2. k # Body
  BY DEF Heads, WithBody, Bodiless, Body
<1> HIDE DEF t
<1> SUFFICES ASSUME NEW n \in 1..Len(t)
             PROVE  /\ t[n] \in WithBody => \/ n < Len(t) /\ t[n + 1] = Body
                                            \/ n = Len(t)
                    /\ t[n] = Body => n > 1 /\ t[n - 1] \in WithBody
  BY DEF Framed, t
<1>3. CASE n <= Len(s)
  BY SMTT(30), <1>1, <1>2, <1>3 DEF Framed
<1>4. CASE n = Len(s) + 1
  BY <1>1, <1>2, <1>4
<1> QED BY <1>1, <1>3, <1>4

LEMMA FramedEnd ==
  ASSUME NEW s \in Seq(Tokens), NEW e, NEW g, Framed(s, e), g # "open" \/ g = e
  PROVE  Framed(s, g)
BY DEF Framed

LEMMA FramedTake ==
  ASSUME NEW s \in Seq(Tokens), NEW e, Framed(s, e), s # <<>>,
         Size(s[1]) <= Len(s)
  PROVE  Framed(SubSeq(s, Size(s[1]) + 1, Len(s)), e)
<1> DEFINE n == Size(s[1])
           t == SubSeq(s, n + 1, Len(s))
<1>1. n \in {1, 2} /\ (n = 2 <=> s[1] \in WithBody) /\ Len(s) \in Nat
  BY LenProperties DEF Size
<1>2. n \in Nat /\ n <= Len(s)
  BY <1>1
<1> HIDE DEF n
<1>3. Len(t) = Len(s) - n /\ \A m \in 1..Len(t) : t[m] = s[m + n]
  BY <1>2, TakeFacts
<1> HIDE DEF t
<1>4. Body \notin WithBody
  BY DEF WithBody, Body
<1>5. n = 2 => s[2] = Body
  BY <1>1, <1>2 DEF Framed
<1> SUFFICES ASSUME NEW m \in 1..Len(t)
             PROVE  /\ t[m] \in WithBody => \/ m < Len(t) /\ t[m + 1] = Body
                                            \/ m = Len(t) /\ e # "open"
                    /\ t[m] = Body => m > 1 /\ t[m - 1] \in WithBody
  BY DEF Framed, t, n
<1>6. PICK p \in 1..Len(s) : p = m + n
  BY <1>1, <1>3
<1>7. /\ t[m] = s[p]
      /\ m < Len(t) => t[m + 1] = s[p + 1]
      /\ m > 1 => t[m - 1] = s[p - 1]
      /\ m < Len(t) <=> p < Len(s)
      /\ m = Len(t) <=> p = Len(s)
  BY SMTT(30), <1>1, <1>3, <1>6
<1>8. /\ s[p] \in WithBody => \/ p < Len(s) /\ s[p + 1] = Body
                              \/ p = Len(s) /\ e # "open"
      /\ s[p] = Body => p > 1 /\ s[p - 1] \in WithBody
  BY DEF Framed
<1>9. s[p] = Body => m # 1
  BY <1>1, <1>4, <1>5, <1>6, <1>8
<1> QED BY <1>7, <1>8, <1>9
-----------------------------------------------------------------------------
(* The output in a stream. *)

LEMMA QueuedTake ==
  ASSUME NEW s \in Seq(Tokens), NEW w \in Seq(Output), NEW m \in Nat, NEW n \in {1, 2},
         n <= Len(s), s[1] \notin Output, n = 2 => s[2] = Body, Queued(s, w, m)
  PROVE  Queued(SubSeq(s, n + 1, Len(s)), w, m)
<1> DEFINE t == SubSeq(s, n + 1, Len(s))
<1>1. Len(t) = Len(s) - n /\ (\A i \in 1..Len(t) : t[i] = s[i + n]) /\ Len(s) \in Nat /\ Len(w) \in Nat
  BY TakeFacts, LenProperties
<1> HIDE DEF t
<1>2. PICK f \in [m + 1..Len(w) -> Nat] : Places(f, s, w, m)
  BY DEF Queued
<1>3. Body \notin Output
  BY DEF Output, Body
<1>4. ASSUME NEW i \in m + 1..Len(w)
      PROVE  w[i] \in Output /\ f[i] \in 1..Len(s) - 1 /\ s[f[i]] = w[i] /\ f[i] > n
  <2>1. w[i] \in Output
    BY <1>1
  <2>2. f[i] \in 1..Len(s) - 1 /\ s[f[i]] = w[i]
    BY <1>2 DEF Places
  <2> QED BY <2>1, <2>2, <1>1, <1>3
<1> DEFINE g == [i \in m + 1..Len(w) |-> f[i] - n]
<1>5. g \in [m + 1..Len(w) -> Nat]
  BY <1>4, <1>1
<1>6. \A i \in m + 1..Len(w) : g[i] \in 1..Len(t) - 1 /\ t[g[i]] = w[i]
  <2> SUFFICES ASSUME NEW i \in m + 1..Len(w) PROVE g[i] \in 1..Len(t) - 1 /\ t[g[i]] = w[i]
    OBVIOUS
  <2>1. g[i] = f[i] - n /\ f[i] > n /\ f[i] \in 1..Len(s) - 1
    BY <1>4
  <2>2. g[i] \in 1..Len(t) - 1 /\ g[i] + n = f[i]
    BY <2>1, <1>1
  <2>3. t[g[i]] = s[g[i] + n]
    BY SMTT(30), <2>2, <1>1
  <2> QED BY <2>2, <2>3, <1>4
<1>7. \A i, j \in m + 1..Len(w) : i < j => g[i] < g[j]
  BY <1>2, <1>4 DEF Places
<1>8. \A p \in 1..Len(t) - 1 : t[p] \in Output => \E i \in m + 1..Len(w) : g[i] = p
  <2> SUFFICES ASSUME NEW p \in 1..Len(t) - 1, t[p] \in Output
               PROVE  \E i \in m + 1..Len(w) : g[i] = p
    OBVIOUS
  <2>1. p + n \in 1..Len(s) - 1 /\ s[p + n] \in Output
    BY SMTT(30), <1>1
  <2>2. PICK i \in m + 1..Len(w) : f[i] = p + n
    BY <2>1, <1>2 DEF Places
  <2> QED BY <2>2
<1> HIDE DEF g
<1>9. Places(g, t, w, m)
  BY <1>6, <1>7, <1>8 DEF Places
<1> QED BY <1>5, <1>9 DEF Queued, t

LEMMA QueuedShow ==
  ASSUME NEW s \in Seq(Tokens), NEW w \in Seq(Output), NEW m \in Nat, m <= Len(w),
         2 <= Len(s), s[1] \in Output, s[2] = Body, Queued(s, w, m)
  PROVE  /\ m < Len(w) /\ w[m + 1] = s[1]
         /\ Queued(SubSeq(s, 3, Len(s)), w, m + 1)
<1> DEFINE t == SubSeq(s, 2 + 1, Len(s))
<1>1. Len(t) = Len(s) - 2 /\ (\A i \in 1..Len(t) : t[i] = s[i + 2]) /\ Len(s) \in Nat /\ Len(w) \in Nat
  <2>1. 2 \in Nat
    OBVIOUS
  <2> QED BY <2>1, TakeFacts, LenProperties, Zenon
<1> HIDE DEF t
<1>2. PICK f \in [m + 1..Len(w) -> Nat] : Places(f, s, w, m)
  BY DEF Queued
<1>3. Body \notin Output
  BY DEF Output, Body
<1>4. ASSUME NEW i \in m + 1..Len(w)
      PROVE  w[i] \in Output /\ f[i] \in 1..Len(s) - 1 /\ s[f[i]] = w[i] /\ f[i] # 2
  <2>1. w[i] \in Output
    BY <1>1
  <2>2. f[i] \in 1..Len(s) - 1 /\ s[f[i]] = w[i]
    BY <1>2 DEF Places
  <2> QED BY <2>1, <2>2, <1>1, <1>3
<1>5. PICK i1 \in m + 1..Len(w) : f[i1] = 1
  <2>1. 1 \in 1..Len(s) - 1
    BY <1>1
  <2> QED BY <2>1, <1>2 DEF Places
<1>6. i1 = m + 1
  <2>1. m + 1 \in m + 1..Len(w)
    BY <1>1
  <2>2. m + 1 < i1 => f[m + 1] < f[i1]
    BY <2>1, <1>2 DEF Places
  <2>3. f[m + 1] >= 1
    BY <2>1, <1>4
  <2> QED BY <2>2, <2>3, <1>5, <1>1
<1>7. \A i \in m + 2..Len(w) : i \in m + 1..Len(w) /\ f[i] > 2
  <2> SUFFICES ASSUME NEW i \in m + 2..Len(w) PROVE i \in m + 1..Len(w) /\ f[i] > 2
    OBVIOUS
  <2>1. i \in m + 1..Len(w) /\ m + 1 \in m + 1..Len(w) /\ m + 1 < i
    BY <1>1
  <2>2. f[m + 1] < f[i]
    BY <2>1, <1>2 DEF Places
  <2> QED BY <2>1, <2>2, <1>4, <1>5, <1>6
<1> DEFINE g == [i \in m + 2..Len(w) |-> f[i] - 2]
<1>8. g \in [m + 2..Len(w) -> Nat]
  BY <1>4, <1>7
<1>9. \A i \in m + 2..Len(w) : g[i] \in 1..Len(t) - 1 /\ t[g[i]] = w[i]
  <2> SUFFICES ASSUME NEW i \in m + 2..Len(w) PROVE g[i] \in 1..Len(t) - 1 /\ t[g[i]] = w[i]
    OBVIOUS
  <2>1. g[i] = f[i] - 2 /\ f[i] > 2 /\ f[i] \in 1..Len(s) - 1 /\ s[f[i]] = w[i]
    BY <1>4, <1>7
  <2>2. g[i] \in 1..Len(t) - 1 /\ g[i] + 2 = f[i]
    BY <2>1, <1>1
  <2>3. t[g[i]] = s[g[i] + 2]
    BY <2>2, <1>1
  <2> QED BY <2>1, <2>2, <2>3
<1>10. \A i, j \in m + 2..Len(w) : i < j => g[i] < g[j]
  <2> SUFFICES ASSUME NEW i \in m + 2..Len(w), NEW j \in m + 2..Len(w), i < j
               PROVE  g[i] < g[j]
    OBVIOUS
  <2>1. f[i] < f[j]
    BY <1>2, <1>7 DEF Places
  <2> QED BY <2>1, <1>4, <1>7
<1>11. \A p \in 1..Len(t) - 1 : t[p] \in Output => \E i \in m + 2..Len(w) : g[i] = p
  <2> SUFFICES ASSUME NEW p \in 1..Len(t) - 1, t[p] \in Output
               PROVE  \E i \in m + 2..Len(w) : g[i] = p
    OBVIOUS
  <2>1. p + 2 \in 1..Len(s) - 1 /\ s[p + 2] \in Output
    BY <1>1
  <2>2. PICK i \in m + 1..Len(w) : f[i] = p + 2
    BY <2>1, <1>2 DEF Places
  <2>3. i # m + 1
    BY <2>2, <1>5, <1>6
  <2>4. i \in m + 2..Len(w)
    BY <2>3
  <2> QED BY <2>2, <2>4
<1> HIDE DEF g
<1>12. Places(g, t, w, m + 1)
  <2>1. (m + 1) + 1 = m + 2
    OBVIOUS
  <2> QED BY <2>1, <1>9, <1>10, <1>11 DEF Places
<1>13. Queued(t, w, m + 1)
  <2>1. (m + 1) + 1 = m + 2
    OBVIOUS
  <2> QED BY <2>1, <1>8, <1>12 DEF Queued
<1>14. m < Len(w) /\ w[m + 1] = s[1]
  BY <1>1, <1>4, <1>5, <1>6
<1>15. t = SubSeq(s, 3, Len(s))
  BY DEF t
<1> QED BY <1>13, <1>14, <1>15

LEMMA QueuedPut ==
  ASSUME NEW s \in Seq(Tokens), NEW w \in Seq(Output), NEW m \in Nat,
         NEW k \in Heads \ Output, Framed(s, "open"), Queued(s, w, m)
  PROVE  Queued(s \o Message(k), w, m)
<1> DEFINE t == s \o Message(k)
<1>1. /\ Len(t) = Len(s) + Size(k) /\ Len(s) \in Nat /\ Size(k) \in {1, 2}
      /\ \A i \in 1..Len(s) : t[i] = s[i]
      /\ t[Len(s) + 1] = k
  BY PutFacts, LenProperties
<1> HIDE DEF t
<1>2. PICK f \in [m + 1..Len(w) -> Nat] : Places(f, s, w, m)
  BY DEF Queued
<1>3. ASSUME NEW n \in 1..Len(t) - 1, t[n] \in Output PROVE n \in 1..Len(s) - 1 /\ s[n] = t[n]
  <2>1. n <= Len(s) + 1 /\ n # Len(s) + 1
    BY <1>1, <1>3
  <2>2. n \in 1..Len(s) /\ s[n] = t[n]
    BY <2>1, <1>1
  <2>3. s[n] \in WithBody
    BY <2>2, <1>3 DEF Output, WithBody
  <2> QED BY <2>2, <2>3, <1>1 DEF Framed
<1>4. \A i \in m + 1..Len(w) : f[i] \in 1..Len(t) - 1 /\ t[f[i]] = w[i]
  BY SMTT(30), <1>1, <1>2 DEF Places
<1>5. Places(f, t, w, m)
  BY <1>2, <1>3, <1>4 DEF Places
<1> QED BY <1>5 DEF Queued, t

LEMMA QueuedCut ==
  ASSUME NEW s \in Seq(Tokens), NEW w \in Seq(Output), NEW m \in Nat,
         NEW k \in Heads, Framed(s, "open"), Queued(s, w, m)
  PROVE  Queued(s \o <<k>>, w, m)
<1> DEFINE t == s \o <<k>>
<1>1. /\ Len(t) = Len(s) + 1 /\ Len(s) \in Nat
      /\ \A i \in 1..Len(s) : t[i] = s[i]
  BY CutFacts, LenProperties
<1> HIDE DEF t
<1>2. PICK f \in [m + 1..Len(w) -> Nat] : Places(f, s, w, m)
  BY DEF Queued
<1>3. ASSUME NEW n \in 1..Len(t) - 1, t[n] \in Output PROVE n \in 1..Len(s) - 1 /\ s[n] = t[n]
  <2>2. n \in 1..Len(s) /\ s[n] = t[n]
    BY <1>1
  <2>3. s[n] \in WithBody
    BY <2>2, <1>3 DEF Output, WithBody
  <2> QED BY <2>2, <2>3, <1>1 DEF Framed
<1>4. \A i \in m + 1..Len(w) : f[i] \in 1..Len(t) - 1 /\ t[f[i]] = w[i]
  <2>1. \A i \in m + 1..Len(w) : f[i] \in 1..Len(s) - 1 /\ s[f[i]] = w[i]
    BY <1>2 DEF Places
  <2> QED BY <2>1, <1>1
<1>5. Places(f, t, w, m)
  BY <1>2, <1>3, <1>4 DEF Places
<1> QED BY <1>5 DEF Queued, t

LEMMA QueuedWrite ==
  ASSUME NEW s \in Seq(Tokens), NEW w \in Seq(Output), NEW m \in Nat, m <= Len(w),
         NEW k \in Output, Framed(s, "open"), Queued(s, w, m)
  PROVE  Queued(s \o Message(k), Append(w, k), m)
<1> DEFINE t == s \o Message(k)
           v == Append(w, k)
<1>0. k \in Heads /\ k \in WithBody /\ Body \notin Output
  BY DEF Output, Heads, WithBody, Body
<1>1. /\ Len(t) = Len(s) + 2 /\ Len(s) \in Nat
      /\ \A i \in 1..Len(s) : t[i] = s[i]
      /\ t[Len(s) + 1] = k
  BY <1>0, PutFacts, LenProperties
<1>2. /\ Len(v) = Len(w) + 1 /\ Len(w) \in Nat /\ v[Len(w) + 1] = k
      /\ \A i \in 1..Len(w) : v[i] = w[i]
  <2>1. Len(w) \in Nat
    BY LenProperties
  <2>2. /\ Len(v) = Len(w) + 1 /\ v[Len(w) + 1] = k
        /\ \A i \in 1..Len(w) : v[i] = w[i]
    BY AppendProperties
  <2> QED BY <2>1, <2>2
<1> HIDE DEF t, v
<1>3. PICK f \in [m + 1..Len(w) -> Nat] : Places(f, s, w, m)
  BY DEF Queued
<1> DEFINE g == [i \in m + 1..Len(v) |-> IF i <= Len(w) THEN f[i] ELSE Len(s) + 1]
<1>4. \A i \in m + 1..Len(w) : /\ i \in m + 1..Len(v) /\ g[i] = f[i]
                               /\ f[i] \in 1..Len(s) - 1 /\ s[f[i]] = w[i]
  BY <1>2, <1>3 DEF Places
<1>5. Len(w) + 1 \in m + 1..Len(v) /\ g[Len(w) + 1] = Len(s) + 1
  BY <1>2
<1>6. \A i \in m + 1..Len(v) : i \in m + 1..Len(w) \/ i = Len(w) + 1
  BY <1>2
<1>7. g \in [m + 1..Len(v) -> Nat]
  BY <1>1, <1>4, <1>5, <1>6
<1> HIDE DEF g
<1>8. \A i \in m + 1..Len(v) : g[i] \in 1..Len(t) - 1 /\ t[g[i]] = v[i]
  <2>1. \A i \in m + 1..Len(w) : g[i] \in 1..Len(t) - 1 /\ t[g[i]] = v[i]
    BY <1>1, <1>2, <1>4
  <2>2. g[Len(w) + 1] \in 1..Len(t) - 1 /\ t[g[Len(w) + 1]] = v[Len(w) + 1]
    BY <1>1, <1>2, <1>5
  <2> QED BY <2>1, <2>2, <1>6
<1>9. \A i, j \in m + 1..Len(v) : i < j => g[i] < g[j]
  <2> SUFFICES ASSUME NEW i \in m + 1..Len(v), NEW j \in m + 1..Len(v), i < j
               PROVE  g[i] < g[j]
    OBVIOUS
  <2>1. i \in m + 1..Len(w)
    BY <1>2
  <2>2. CASE j \in m + 1..Len(w)
    BY <2>1, <2>2, <1>3, <1>4 DEF Places
  <2>3. CASE j = Len(w) + 1
    BY <2>1, <2>3, <1>1, <1>4, <1>5
  <2> QED BY <2>2, <2>3, <1>6
<1>10. \A n \in 1..Len(t) - 1 : t[n] \in Output => \E i \in m + 1..Len(v) : g[i] = n
  <2> SUFFICES ASSUME NEW n \in 1..Len(t) - 1, t[n] \in Output
               PROVE  \E i \in m + 1..Len(v) : g[i] = n
    OBVIOUS
  <2>1. CASE n = Len(s) + 1
    BY <2>1, <1>5
  <2>2. CASE n <= Len(s)
    <3>1. n \in 1..Len(s) /\ s[n] = t[n]
      BY <2>2, <1>1
    <3>2. s[n] \in WithBody
      BY <3>1 DEF Output, WithBody
    <3>3. n \in 1..Len(s) - 1
      BY SMTT(30), <3>1, <3>2, <1>1 DEF Framed
    <3>4. PICK i \in m + 1..Len(w) : f[i] = n
      BY <3>1, <3>3, <1>3 DEF Places
    <3> QED BY <3>4, <1>4
  <2> QED BY <2>1, <2>2, <1>1
<1>11. Places(g, t, v, m)
  BY <1>8, <1>9, <1>10 DEF Places
<1> QED BY <1>7, <1>11 DEF Queued, t, v

(* Nothing is left to be shown when no whole chunk is left. *)
LEMMA QueuedNone ==
  ASSUME NEW s \in Seq(Tokens), NEW w \in Seq(Output), NEW m \in Nat, m <= Len(w),
         \A n \in 1..Len(s) - 1 : s[n] \notin Output, Queued(s, w, m)
  PROVE  m = Len(w)
<1>1. PICK f \in [m + 1..Len(w) -> Nat] : Places(f, s, w, m)
  BY DEF Queued
<1>2. Len(w) \in Nat /\ Len(s) \in Nat
  BY LenProperties
<1> SUFFICES ASSUME m < Len(w) PROVE FALSE
  BY <1>2
<1>3. m + 1 \in m + 1..Len(w) /\ m + 1 \in 1..Len(w)
  BY <1>2
<1>4. w[m + 1] \in Output
  BY <1>3
<1> QED BY <1>1, <1>3, <1>4 DEF Places
-----------------------------------------------------------------------------
(* The chunks of input in a stream: positions move down by what is taken. *)
LEMMA ChunksFinite ==
  ASSUME NEW s \in Seq(Tokens)
  PROVE  IsFiniteSet(Chunks(s)) /\ Cardinality(Chunks(s)) \in Nat
<1>1. Len(s) \in Nat
  BY LenProperties
<1>2. IsFiniteSet(1..Len(s) - 1)
  BY <1>1, FS_Interval
<1>3. Chunks(s) \in SUBSET (1..Len(s) - 1)
  BY DEF Chunks
<1>4. IsFiniteSet(Chunks(s))
  BY <1>2, <1>3, FS_Subset
<1> QED BY <1>4, FS_CardinalityType

LEMMA ChunksShift ==
  ASSUME NEW s \in Seq(Tokens), NEW n \in Nat, n <= Len(s)
  PROVE  LET rest == {m \in Chunks(s) : m > n} IN
         /\ Cardinality(Chunks(SubSeq(s, n + 1, Len(s)))) = Cardinality(rest)
         /\ Cardinality(rest) <= Cardinality(Chunks(s))
<1> DEFINE t == SubSeq(s, n + 1, Len(s))
           A == {m \in Chunks(s) : m > n}
           B == Chunks(t)
           g == [b \in B |-> b + n]
<1>1. Len(t) = Len(s) - n /\ (\A i \in 1..Len(t) : t[i] = s[i + n]) /\ Len(s) \in Nat
      /\ t \in Seq(Tokens)
  BY TakeFacts, LenProperties
<1> HIDE DEF t
<1>2. \A b \in B : b \in Nat /\ b + n \in A
  BY <1>1 DEF Chunks
<1>3. \A a \in A : a \in Nat /\ a - n \in B /\ (a - n) + n = a
  BY <1>1 DEF Chunks
<1> HIDE DEF A, B
<1>4. g \in [B -> A] /\ \A b \in B : g[b] = b + n
  BY <1>2
<1> HIDE DEF g
<1>5. \A b, c \in B : g[b] = g[c] => b = c
  BY <1>2, <1>4
<1>6. \A a \in A : \E b \in B : g[b] = a
  BY <1>3, <1>4
<1>7. ExistsBijection(B, A)
  BY <1>4, <1>5, <1>6 DEF ExistsBijection, Bijection, Injection, Surjection, IsInjective
<1>8. IsFiniteSet(B)
  BY <1>1, ChunksFinite DEF B
<1>9. Cardinality(A) = Cardinality(B)
  BY <1>7, <1>8, FS_Bijection
<1>10. A \in SUBSET Chunks(s)
  BY DEF A
<1>11. Cardinality(A) <= Cardinality(Chunks(s))
  BY <1>10, ChunksFinite, FS_Subset
<1> QED BY <1>9, <1>11 DEF A, B, t

(* Taking a message takes its own chunk, and no other. *)
LEMMA ChunksTake ==
  ASSUME NEW s \in Seq(Tokens), NEW n \in {1, 2}, n <= Len(s), n = 2 => s[2] = Body
  PROVE  LET t == SubSeq(s, n + 1, Len(s)) IN
         /\ s[1] # "data" => Cardinality(Chunks(t)) = Cardinality(Chunks(s))
         /\ s[1] = "data" /\ n = 2 => Cardinality(Chunks(t)) = Cardinality(Chunks(s)) - 1
         /\ \A m \in Chunks(t) : m + n \in Chunks(s)
<1> DEFINE t == SubSeq(s, n + 1, Len(s))
           A == {m \in Chunks(s) : m > n}
<1>1. Cardinality(Chunks(t)) = Cardinality(A)
  BY ChunksShift
<1>2. Len(t) = Len(s) - n /\ (\A i \in 1..Len(t) : t[i] = s[i + n]) /\ Len(s) \in Nat
  BY TakeFacts, LenProperties
<1>3. Body # "data"
  BY DEF Body
<1>4. s[1] # "data" => A = Chunks(s)
  BY <1>2, <1>3 DEF Chunks
<1>5. s[1] = "data" /\ n = 2 => A = Chunks(s) \ {1} /\ 1 \in Chunks(s)
  BY <1>2, <1>3 DEF Chunks
<1> HIDE DEF t, A
<1>6. s[1] = "data" /\ n = 2 => Cardinality(A) = Cardinality(Chunks(s)) - 1
  BY <1>5, ChunksFinite, FS_RemoveElement
<1>7. \A m \in Chunks(t) : m + n \in Chunks(s)
  BY <1>2 DEF Chunks
<1> QED BY <1>1, <1>4, <1>6, <1>7 DEF t

LEMMA ChunksPut ==
  ASSUME NEW s \in Seq(Tokens), NEW k \in Heads, DataWhole(s)
  PROVE  LET t == s \o Message(k) IN
         /\ k # "data" => Chunks(t) = Chunks(s)
         /\ k = "data" => /\ Chunks(t) = Chunks(s) \cup {Len(s) + 1}
                          /\ Cardinality(Chunks(t)) = Cardinality(Chunks(s)) + 1
<1> DEFINE t == s \o Message(k)
<1>1. /\ Len(t) = Len(s) + Size(k) /\ Len(s) \in Nat
      /\ \A i \in 1..Len(s) : t[i] = s[i]
      /\ t[Len(s) + 1] = k
      /\ Size(k) = IF k \in WithBody THEN 2 ELSE 1
  BY PutFacts, LenProperties
<1> HIDE DEF t
<1>2. "data" \in WithBody
  BY DEF WithBody
<1>3. \A i \in 1..Len(s) : s[i] = "data" => i < Len(s)
  BY DEF DataWhole
<1>4. k # "data" => Chunks(t) = Chunks(s)
  BY <1>1, <1>2, <1>3 DEF Chunks
<1>5. ASSUME k = "data"
      PROVE  Chunks(t) = Chunks(s) \cup {Len(s) + 1} /\ Len(s) + 1 \notin Chunks(s)
  BY <1>1, <1>2, <1>3, <1>5 DEF Chunks
<1>6. ASSUME k = "data" PROVE Cardinality(Chunks(t)) = Cardinality(Chunks(s)) + 1
  BY <1>5, <1>6, ChunksFinite, FS_AddElement
<1> QED BY <1>4, <1>5, <1>6 DEF t

LEMMA ChunksCut ==
  ASSUME NEW s \in Seq(Tokens), NEW k \in Heads, DataWhole(s)
  PROVE  Chunks(s \o <<k>>) = Chunks(s)
<1> DEFINE t == s \o <<k>>
<1>1. Len(t) = Len(s) + 1 /\ Len(s) \in Nat /\ \A i \in 1..Len(s) : t[i] = s[i]
  BY CutFacts, LenProperties
<1> HIDE DEF t
<1>2. \A i \in 1..Len(s) : s[i] = "data" => i < Len(s)
  BY DEF DataWhole
<1>3. Chunks(t) = Chunks(s)
  BY <1>1, <1>2 DEF Chunks
<1> QED BY <1>3 DEF t
-----------------------------------------------------------------------------
(* Steps of the system: what they do to the two streams. *)
StreamType == wire \in [Dirs -> Seq(Tokens)] /\ end \in [Dirs -> {"open", "fin", "reset"}]

(* Direction d is left alone. *)
Kept(d) == wire'[d] = wire[d] /\ end'[d] = end[d]

LEMMA PutStep ==
  ASSUME StreamType, NEW d \in Dirs, NEW k \in Heads, Put(d, Message(k))
  PROVE  /\ StreamType' /\ end' = end
         /\ wire'[d] = wire[d] \o Message(k)
         /\ \A e \in Dirs \ {d} : Kept(e)
<1>1. wire[d] \in Seq(Tokens)
  BY DEF StreamType
<1>2. wire[d] \o Message(k) \in Seq(Tokens)
  BY <1>1, PutFacts
<1> QED BY <1>2 DEF StreamType, Put, Kept

LEMMA TakeStep ==
  ASSUME StreamType, NEW d \in Dirs, NEW n \in Nat, n <= Len(wire[d]), Take(d, n)
  PROVE  /\ wire' \in [Dirs -> Seq(Tokens)]
         /\ wire'[d] = SubSeq(wire[d], n + 1, Len(wire[d]))
         /\ \A e \in Dirs \ {d} : wire'[e] = wire[e]
<1>1. wire[d] \in Seq(Tokens)
  BY DEF StreamType
<1>2. SubSeq(wire[d], n + 1, Len(wire[d])) \in Seq(Tokens)
  BY <1>1, TakeFacts
<1> QED BY <1>2 DEF StreamType, Take

LEMMA DropStep ==
  ASSUME StreamType, NEW d \in Dirs, NEW cut \in SUBSET Heads, DropWriter(d, cut)
  PROVE  /\ StreamType' /\ end'[d] # "open"
         /\ \A e \in Dirs \ {d} : Kept(e)
         /\ \/ end[d] # "open" /\ Kept(d)
            \/ end[d] = "open" /\ wire'[d] = wire[d]
            \/ end[d] = "open" /\ \E k \in cut : wire'[d] = wire[d] \o <<k>>
<1>1. wire[d] \in Seq(Tokens)
  BY DEF StreamType
<1>2. CASE end[d] # "open"
  BY <1>2 DEF DropWriter, streams, Kept, StreamType
<1>3. CASE end[d] = "open"
  <2>1. PICK how \in {"fin", "reset"}, m \in {<<>>} \cup {<<k>> : k \in cut} :
          end' = [end EXCEPT ![d] = how] /\ wire' = [wire EXCEPT ![d] = @ \o m]
    BY <1>3 DEF DropWriter
  <2>2. CASE m = <<>>
    <3>1. wire[d] \o m = wire[d]
      BY <1>1, <2>2, ConcatEmptySeq
    <3> QED BY <1>1, <1>3, <2>1, <3>1 DEF Kept, StreamType
  <2>3. CASE \E k \in cut : m = <<k>>
    <3>1. PICK k \in cut : m = <<k>>
      BY <2>3
    <3>2. wire[d] \o <<k>> \in Seq(Tokens)
      BY <1>1, CutFacts
    <3> QED BY <1>1, <1>3, <2>1, <3>1, <3>2 DEF Kept, StreamType
  <2> QED BY <2>1, <2>2, <2>3
<1> QED BY <1>2, <1>3

LEMMA ReplyStep ==
  ASSUME StreamType, NEW n \in Nat, n <= Len(wire["up"]),
         NEW ks, ks = <<>> \/ \E k \in Heads : ks = Message(k), Reply(n, ks)
  PROVE  /\ StreamType' /\ end' = end
         /\ wire'["up"] = SubSeq(wire["up"], n + 1, Len(wire["up"]))
         /\ wire'["down"] = IF end["down"] = "open" THEN wire["down"] \o ks ELSE wire["down"]
<1>1. wire["up"] \in Seq(Tokens) /\ wire["down"] \in Seq(Tokens)
  BY DEF StreamType, Dirs
<1>2. SubSeq(wire["up"], n + 1, Len(wire["up"])) \in Seq(Tokens)
  BY <1>1, TakeFacts
<1>3. wire["down"] \o ks \in Seq(Tokens) /\ wire["down"] \o <<>> = wire["down"]
  <2>1. wire["down"] \o <<>> = wire["down"]
    BY <1>1, ConcatEmptySeq
  <2>2. CASE ks = <<>>
    BY <1>1, <2>1, <2>2
  <2>3. CASE \E k \in Heads : ks = Message(k)
    BY <1>1, <2>1, <2>3, PutFacts
  <2> QED BY <2>2, <2>3
<1>4. PICK u : u = IF end["down"] = "open" THEN ks ELSE <<>>
  OBVIOUS
<1>5. wire' = [wire EXCEPT !["up"] = SubSeq(@, n + 1, Len(@)), !["down"] = @ \o u] /\ end' = end
  BY <1>4 DEF Reply, Exchange
<1>6. wire["down"] \o u = IF end["down"] = "open" THEN wire["down"] \o ks ELSE wire["down"]
  BY <1>3, <1>4
<1> QED BY <1>1, <1>2, <1>3, <1>5, <1>6 DEF StreamType, Dirs
-----------------------------------------------------------------------------
(* A message was written to, or read from, direction d; its writer was     *)
(* dropped, with the head of one of the messages in cut, if of any; it was *)
(* ended; or nothing happened on either.                                   *)
Other(d) == IF d = "up" THEN "down" ELSE "up"
Wrote(d, k) ==
  /\ end[d] = "open" /\ end' = end
  /\ wire'[d] = wire[d] \o Message(k) /\ wire'[Other(d)] = wire[Other(d)]
Took(d, k) ==
  /\ At(d, k) /\ Size(k) <= Len(wire[d]) /\ end' = end
  /\ wire'[d] = SubSeq(wire[d], Size(k) + 1, Len(wire[d]))
  /\ wire'[Other(d)] = wire[Other(d)]
Dropped(d, cut) ==
  /\ end'[d] # "open" /\ Kept(Other(d))
  /\ \/ end[d] # "open" /\ Kept(d)
     \/ end[d] = "open" /\ wire'[d] = wire[d]
     \/ end[d] = "open" /\ \E k \in cut : wire'[d] = wire[d] \o <<k>>
Ended(d) == wire' = wire /\ end'[Other(d)] = end[Other(d)] /\ (end[d] # "open" => Kept(d))
            /\ end'[d] # "open"
Still == wire' = wire /\ end' = end

(* A set-up request that was read whole, or an event that was passed over, *)
(* and its answer.                                                         *)
Answered(r, ks) ==
  /\ At("up", r) /\ end' = end
  /\ wire'["up"] = SubSeq(wire["up"], Size(r) + 1, Len(wire["up"]))
  /\ wire'["down"] = IF end["down"] = "open" THEN wire["down"] \o ks ELSE wire["down"]

LEMMA WroteStep ==
  ASSUME StreamType, NEW d \in Dirs, NEW k \in Heads, end[d] = "open", Put(d, Message(k))
  PROVE  Wrote(d, k) /\ StreamType'
BY PutStep DEF Wrote, Kept, Other, Dirs

LEMMA TookStep ==
  ASSUME StreamType, NEW d \in Dirs, NEW k \in Heads, Whole(d, k), Take(d, Size(k)), end' = end
  PROVE  Took(d, k) /\ StreamType'
<1>1. Size(k) \in Nat /\ Size(k) <= Len(wire[d]) /\ At(d, k)
  BY DEF Whole, Size
<1>2. /\ wire' \in [Dirs -> Seq(Tokens)]
      /\ wire'[d] = SubSeq(wire[d], Size(k) + 1, Len(wire[d]))
      /\ \A e \in Dirs \ {d} : wire'[e] = wire[e]
  BY <1>1, TakeStep
<1> QED BY <1>1, <1>2 DEF Took, Other, Dirs, StreamType

LEMMA DroppedStep ==
  ASSUME StreamType, NEW d \in Dirs, NEW cut \in SUBSET Heads, DropWriter(d, cut)
  PROVE  Dropped(d, cut) /\ StreamType'
BY DropStep DEF Dropped, Other, Dirs

LEMMA FrameStep ==
  ASSUME StreamType, NEW d \in Dirs, Framed(wire[d], end[d])
  PROVE  /\ \A k \in Heads : Wrote(d, k) => Framed(wire'[d], end'[d])
         /\ \A k \in Heads : Took(d, k) => Framed(wire'[d], end'[d])
         /\ \A cut \in SUBSET Heads : Dropped(d, cut) => Framed(wire'[d], end'[d])
         /\ Ended(d) => Framed(wire'[d], end'[d])
<1>1. wire[d] \in Seq(Tokens)
  BY DEF StreamType
<1>2. ASSUME NEW k \in Heads, Wrote(d, k) PROVE Framed(wire'[d], end'[d])
  BY <1>1, <1>2, FramedPut DEF Wrote
<1>3. ASSUME NEW k \in Heads, Took(d, k) PROVE Framed(wire'[d], end'[d])
  <2>1. wire[d] # <<>> /\ wire[d][1] = k
    BY <1>3 DEF Took, At
  <2> QED BY <1>1, <1>3, <2>1, FramedTake DEF Took
<1>4. ASSUME NEW cut \in SUBSET Heads, Dropped(d, cut) PROVE Framed(wire'[d], end'[d])
  <2>1. CASE end[d] # "open"
    BY <1>4, <2>1 DEF Dropped, Kept
  <2>2. CASE end[d] = "open" /\ wire'[d] = wire[d]
    BY <1>1, <1>4, <2>2, FramedEnd DEF Dropped
  <2>3. CASE end[d] = "open" /\ \E k \in cut : wire'[d] = wire[d] \o <<k>>
    BY <1>1, <1>4, <2>3, FramedCut DEF Dropped
  <2> QED BY <1>4, <2>1, <2>2, <2>3 DEF Dropped
<1>5. ASSUME Ended(d) PROVE Framed(wire'[d], end'[d])
  BY <1>1, <1>5, FramedEnd DEF Ended, Kept
<1> QED BY <1>2, <1>3, <1>4, <1>5
-----------------------------------------------------------------------------
(* The client's call fails or its run returns, in whatever way. *)
Leaves(r, cut) ==
  /\ client # "done" /\ client' = "done" /\ result' = r
  /\ Dropped("up", cut) /\ StreamType'
  /\ UNCHANGED <<kind, plan, stdin, typed, resized, exitSeen, shown, serverVars>>
  /\ client # "open" \/ end["up"] # "open"
  /\ client = "setup" => cut \subseteq {Head(plan)} \cap WithBody
  /\ client = "run" => cut \subseteq {"data", "window-change"}
  /\ client \notin {"setup", "run"} \/ (client = "run" /\ stdin # "read") => cut = {}
  /\ r \in {"exit", "no exit"} =>
       /\ client = "run" /\ (r = "exit" <=> exitSeen)
       /\ CleanEnd("down") \/ At("down", "close") \/ Broken("down") \/ Misplaced("down", Heads)
       /\ r = "no exit" => \/ CleanEnd("down") \/ At("down", "close")
                           \/ Broken("down") /\ end["down"] = "fin"
Leaving == Refused \/ CallFails \/ ReadClose \/ OutputEnds \/ ShowFails \/ CallDropped
Failures == {"refused", "err", "dropped", "exit", "no exit"}

LEMMA LeavesStep ==
  ASSUME StreamType, Leaving
  PROVE  \E r \in Failures, cut \in SUBSET Heads : Leaves(r, cut)
<1> DEFINE Rest == UNCHANGED <<kind, plan, stdin, typed, resized, exitSeen, shown, serverVars>>
           Tail1 == {"data", "window-change"}
<1>0. "up" \in Dirs /\ {} \in SUBSET Heads /\ Tail1 \in SUBSET Heads
      /\ {Head(plan)} \cap WithBody \in SUBSET Heads
  BY DEF Dirs, Heads, WithBody, Bodiless
<1>1. ASSUME NEW r \in {"refused", "err", "dropped"}, Gone(r, {}), Rest,
             client \in {"open", "confirm", "setup", "reply"}, client # "open" \/ end["up"] # "open"
      PROVE  \E q \in Failures, cut \in SUBSET Heads : Leaves(q, cut)
  <2>1. Dropped("up", {}) /\ StreamType'
    BY <1>0, <1>1, DroppedStep DEF Gone
  <2>2. Leaves(r, {})
    BY <1>1, <2>1 DEF Leaves, Gone
  <2> QED BY <1>0, <2>2 DEF Failures
<1>2. ASSUME NEW r \in Failures, Returned(r), Rest, client = "run",
             r \in {"exit", "no exit"} =>
               /\ r = "exit" <=> exitSeen
               /\ CleanEnd("down") \/ At("down", "close") \/ Broken("down") \/ Misplaced("down", Heads)
               /\ r = "no exit" => \/ CleanEnd("down") \/ At("down", "close")
                                   \/ Broken("down") /\ end["down"] = "fin"
      PROVE  \E q \in Failures, cut \in SUBSET Heads : Leaves(q, cut)
  <2> DEFINE cut == IF stdin = "read" THEN Tail1 ELSE {}
  <2>1. Gone(r, cut) /\ cut \in SUBSET Heads
    BY <1>0, <1>2 DEF Returned
  <2>2. Dropped("up", cut) /\ StreamType'
    BY <1>0, <2>1, DroppedStep DEF Gone
  <2>3. Leaves(r, cut)
    BY <1>2, <2>1, <2>2 DEF Leaves, Gone
  <2> QED BY <2>1, <2>3
<1>3. CASE Refused
  BY <1>1, <1>3 DEF Refused
<1>4. CASE CallFails
  BY <1>1, <1>4 DEF CallFails
<1>5. CASE ReadClose
  BY <1>2, <1>5 DEF ReadClose, ExitResult, Failures
<1>6. CASE OutputEnds
  BY <1>2, <1>6 DEF OutputEnds, ExitResult, Failures
<1>7. CASE ShowFails
  BY <1>2, <1>7 DEF ShowFails, Failures
<1>8. CASE CallDropped
  <2>1. CASE client = "setup"
    <3>1. Gone("dropped", {Head(plan)} \cap WithBody) /\ Rest
      BY <1>8, <2>1 DEF CallDropped
    <3>2. Dropped("up", {Head(plan)} \cap WithBody) /\ StreamType'
      BY <1>0, <3>1, DroppedStep DEF Gone
    <3>3. Leaves("dropped", {Head(plan)} \cap WithBody)
      BY <2>1, <3>1, <3>2 DEF Leaves, Gone
    <3> QED BY <1>0, <3>3 DEF Failures
  <2>2. CASE client = "run"
    BY <1>2, <1>8, <2>2 DEF CallDropped, Failures
  <2>3. CASE client \notin {"setup", "run"}
    <3>1. Gone("dropped", {}) /\ Rest /\ client \notin {"open", "done"}
      BY <1>8, <2>3 DEF CallDropped
    <3>2. Dropped("up", {}) /\ StreamType'
      BY <1>0, <3>1, DroppedStep DEF Gone
    <3>3. Leaves("dropped", {})
      BY <2>3, <3>1, <3>2 DEF Leaves, Gone
    <3> QED BY <1>0, <3>3 DEF Failures
  <2> QED BY <2>1, <2>2, <2>3
<1> QED BY <1>3, <1>4, <1>5, <1>6, <1>7, <1>8 DEF Leaving

(* The server's task is over early. *)
GivesUp(cut) ==
  /\ server \notin {"listen", "join", "over"}
  /\ server' = "over" /\ input' = "done"
  /\ Dropped("down", cut) /\ StreamType'
  /\ UNCHANGED <<clientVars, pty, isShell, written, exited, fed, inputEof>>
  /\ cut \subseteq CASE server = "run" -> Output \cup {"exit"}
                     [] server = "accept" -> {"confirmation"}
                     [] server = "reject" -> {"failure-open"}
                     [] OTHER -> {}

LEMMA GivesUpStep ==
  ASSUME StreamType, SetupFails \/ ServerEnds
  PROVE  \E cut \in SUBSET WithBody : GivesUp(cut)
<1> DEFINE cut == CASE server = "run" -> Output \cup {"exit"}
                    [] server = "accept" -> {"confirmation"}
                    [] server = "reject" -> {"failure-open"}
                    [] OTHER -> {}
<1>1. "down" \in Dirs /\ cut \in SUBSET WithBody /\ cut \in SUBSET Heads
  BY DEF Dirs, Heads, WithBody, Output
<1>2. TaskOver(cut) /\ server \notin {"listen", "join", "over"}
      /\ UNCHANGED <<clientVars, pty, isShell, written, exited, fed, inputEof>>
  BY DEF SetupFails, ServerEnds
<1>3. Dropped("down", cut) /\ StreamType'
  BY <1>1, <1>2, DroppedStep DEF TaskOver
<1>4. GivesUp(cut)
  BY <1>2, <1>3 DEF GivesUp, TaskOver
<1> QED BY <1>1, <1>4
-----------------------------------------------------------------------------
(* The inductive invariant. *)

(* exec or shell is the last of the calls still to be made. *)
PlanInv ==
  client \notin {"run", "done"} =>
    plan # <<>> /\ \A n \in 1..Len(plan) : plan[n] \in Starts <=> n = Len(plan)

(* Where the two sides and their streams are until the channel is open. *)
OpenInv ==
  /\ client = "open" => server = "listen" /\ wire["up"] = <<>>
  /\ server = "listen" =>
       /\ wire["down"] = <<>> /\ client \in {"open", "confirm", "done"}
       /\ client = "confirm" => wire["up"] = <<kind>>
       /\ client = "done" => wire["up"] \in {<<>>, <<kind>>}
  /\ server \in {"accept", "reject", "rejected"} =>
       /\ client \in {"confirm", "done"} /\ wire["up"] = <<>>
       /\ server # "rejected" => wire["down"] = <<>>
  /\ client = "confirm" =>
       /\ server \in {"listen", "accept", "reject", "rejected", "setup", "over"}
       /\ server \notin {"listen", "over"} => wire["up"] = <<>>
       /\ wire["down"] \in {<<>>, <<"confirmation">>, <<"confirmation", Body>>,
                            <<"failure-open">>, <<"failure-open", Body>>}
       /\ server = "setup" => wire["down"] = <<"confirmation", Body>>
       /\ server = "rejected" => wire["down"] = <<"failure-open", Body>>

(* ... and until the command is started: at most one request is under way, *)
(* or its answer.                                                          *)
SetupInv ==
  /\ server = "setup" => client \in {"confirm", "setup", "reply", "done"}
  /\ server = "setup" /\ client = "done" =>
       \/ wire["up"] = <<>>
       \/ \E r \in Requests : wire["up"] = Message(r)
       \/ \E r \in Requests : wire["up"] = <<r>> /\ end["up"] # "open"
  /\ client = "setup" =>
       /\ server \in {"setup", "over"} /\ wire["down"] = <<>>
       /\ server = "setup" => wire["up"] = <<>>
  /\ client = "reply" =>
       \/ /\ server \in {"setup", "over"} /\ wire["down"] = <<>>
          /\ server = "setup" => wire["up"] = Message(Head(plan))
       \/ /\ server \in {"setup", "over"} /\ wire["up"] = <<>> /\ Head(plan) \notin Starts
          /\ \/ wire["down"] = <<Answer(Head(plan))>>
             \/ wire["down"] = <<>> /\ end["down"] # "open"
       \/ /\ server \in Running \cup {"over"} /\ wire["up"] = <<>> /\ Head(plan) \in Starts
          /\ \/ At("down", "success")
             \/ wire["down"] = <<>> /\ end["down"] # "open"
  /\ client = "run" => server \in Running \cup {"over"}

(* ... and from there: only input reaches the input relay, and both        *)
(* readers are in front of a message.                                      *)
RunInv ==
  /\ input = None <=> server \in {"listen", "accept", "reject", "rejected", "setup", "start"}
  /\ server = "over" => input = "done"
  /\ server \in {"join", "over"} => end["down"] # "open"
  /\ server \in Running => client \in {"reply", "run", "done"}
  /\ server \in Running /\ input # "done" =>
       /\ Framed(wire["up"], end["up"])
       /\ \A n \in 1..Len(wire["up"]) : wire["up"][n] \in Later \cup {Body}
  /\ Framed(wire["down"], end["down"])

(* The exit notice is behind the client or in front of it, and nothing is  *)
(* behind the close.                                                       *)
ExitInv ==
  /\ exited => server \in {"run", "close", "shutdown", "join", "over"}
  /\ server \in {"close", "shutdown", "join"} => exited
  /\ exited <=> exitSeen \/ HasExit(wire["down"])
  /\ \A n \in 1..Len(wire["down"]) : wire["down"][n] = "close" =>
       n = Len(wire["down"]) /\ exited /\ server \in {"shutdown", "join", "over"}
  /\ result = "exit" => exitSeen
  /\ result = "no exit" => ~exited /\ end["down"] # "open"

(* What is written and not shown is under way, in order. *)
OutputInv ==
  /\ Len(shown) <= Len(written)
  /\ \A m \in 1..Len(shown) : shown[m] = written[m]
  /\ Queued(wire["down"], written, Len(shown))
  /\ result \in {"exit", "no exit"} =>
       \/ end["down"] = "reset"
       \/ /\ Len(shown) = Len(written)
          /\ end["down"] = "fin" \/ server \in {"shutdown", "join", "over"}

(* What was typed is fed or under way, until a write fails; from there on  *)
(* no EOF is sent.                                                         *)
Pending == Cardinality(Chunks(wire["up"]))
FeedInv ==
  /\ fed + Pending <= typed
  /\ end["up"] = "open" => DataWhole(wire["up"])
  /\ client \notin {"run", "done"} => typed = 0
  /\ server \in Running /\ input # "done" /\ end["up"] = "open" /\ client = "run" =>
       typed = fed + Pending
  /\ \A n \in 1..Len(wire["up"]) : wire["up"][n] \in {"eof", "close"} /\ input # "done" =>
       /\ typed = fed + Pending
       /\ \A m \in Chunks(wire["up"]) : m < n
       /\ client = "done" \/ (client = "run" /\ stdin \notin {"read", "eof"})
  /\ inputEof => /\ fed = typed /\ input = "done"
                 /\ client = "done" \/ (client = "run" /\ stdin # "read")

Inv ==
  /\ TypeOK /\ PlanInv /\ OpenInv /\ SetupInv
  /\ RunInv /\ ExitInv /\ OutputInv /\ FeedInv
-----------------------------------------------------------------------------
(* What each of the other steps does to the streams. *)
LEMMA Typed == TypeOK => StreamType
BY DEF TypeOK, StreamType, Tokens

LEMMA KnownHeads ==
  /\ Requests \subseteq Heads /\ Later \subseteq Heads /\ Output \subseteq Heads
  /\ {"session", "other", "confirmation", "failure-open", "exit", "success", "failure"} \subseteq Heads
  /\ \A k \in Heads : Size(k) \in {1, 2} /\ (Size(k) = 2 <=> k \in WithBody)
  /\ "up" \in Dirs /\ "down" \in Dirs
BY DEF Requests, Later, Output, Heads, WithBody, Bodiless, Size, Dirs

LEMMA ClientEffects ==
  ASSUME TypeOK, PlanInv
  PROVE  /\ OpenChannel => Wrote("up", kind) /\ StreamType'
         /\ Confirmed => Took("down", "confirmation") /\ StreamType'
         /\ SendRequest => Wrote("up", Head(plan)) /\ StreamType'
         /\ ReadReply => (\E k \in {"success", "failure"} : Took("down", k)) /\ StreamType'
         /\ SendInput => (Wrote("up", "data") \/ Still) /\ StreamType'
         /\ SendResize => (Wrote("up", "window-change") \/ Still) /\ StreamType'
         /\ StdinEnds => Still /\ StreamType'
         /\ \A from \in {"eof", "close"} : \A to :
              SendLast(from, to) => /\ StreamType'
                                    /\ IF end["up"] = "open" /\ server # "over"
                                       THEN Wrote("up", from) ELSE Still
         /\ ShutdownWriter => Ended("up") /\ StreamType'
<1>1. StreamType /\ "up" \in Dirs /\ "down" \in Dirs
  BY Typed, KnownHeads
<1>2. Still => StreamType'
  BY <1>1 DEF Still, StreamType
<1>3. ASSUME OpenChannel PROVE Wrote("up", kind) /\ StreamType'
  <2>1. kind \in Heads
    BY KnownHeads DEF TypeOK
  <2> QED BY <1>1, <1>3, <2>1, WroteStep DEF OpenChannel
<1>4. ASSUME Confirmed PROVE Took("down", "confirmation") /\ StreamType'
  <2>1. "confirmation" \in Heads /\ Size("confirmation") = 2
    BY KnownHeads DEF Size, WithBody
  <2>2. Whole("down", "confirmation") /\ Take("down", Size("confirmation")) /\ end' = end
    BY <1>4, <2>1 DEF Confirmed
  <2> QED BY <1>1, <2>1, <2>2, TookStep
<1>5. ASSUME SendRequest PROVE Wrote("up", Head(plan)) /\ StreamType'
  <2>1. plan # <<>> /\ plan \in Seq(Requests)
    BY <1>5 DEF SendRequest, PlanInv, TypeOK
  <2>2. Head(plan) \in Heads
    BY <2>1, HeadTailProperties, KnownHeads
  <2> QED BY <1>1, <1>5, <2>2, WroteStep DEF SendRequest
<1>6. ASSUME ReadReply PROVE (\E k \in {"success", "failure"} : Took("down", k)) /\ StreamType'
  <2>1. PICK k \in {"success", "failure"} : At("down", k) /\ Take("down", 1) /\ end' = end
    BY <1>6 DEF ReadReply, At
  <2>2. k \in Heads /\ Size(k) = 1
    BY KnownHeads DEF Size, WithBody
  <2>3. wire["down"] \in Seq(Tokens)
    BY <1>1 DEF StreamType
  <2>4. Whole("down", k)
    BY <2>1, <2>2, <2>3, EmptySeq DEF Whole, At
  <2>5. Take("down", Size(k))
    BY <2>1, <2>2
  <2> QED BY <1>1, <2>1, <2>2, <2>4, <2>5, TookStep
<1>7. ASSUME SendInput PROVE (Wrote("up", "data") \/ Still) /\ StreamType'
  <2>1. CASE end["up"] = "open" /\ Put("up", Message("data"))
    BY <1>1, <2>1, WroteStep, KnownHeads DEF Output
  <2>2. CASE UNCHANGED streams
    BY <1>2, <2>2 DEF streams, Still
  <2> QED BY <1>7, <2>1, <2>2 DEF SendInput
<1>8. ASSUME SendResize PROVE (Wrote("up", "window-change") \/ Still) /\ StreamType'
  <2>1. CASE end["up"] = "open" /\ Put("up", Message("window-change"))
    BY <1>1, <2>1, WroteStep, KnownHeads DEF Later
  <2>2. CASE UNCHANGED streams
    BY <1>2, <2>2 DEF streams, Still
  <2> QED BY <1>8, <2>1, <2>2 DEF SendResize
<1>9. ASSUME StdinEnds PROVE Still /\ StreamType'
  BY <1>2, <1>9 DEF StdinEnds, streams, Still
<1>10. ASSUME NEW from \in {"eof", "close"}, NEW to, SendLast(from, to)
       PROVE  /\ StreamType'
              /\ IF end["up"] = "open" /\ server # "over" THEN Wrote("up", from) ELSE Still
  <2>0. from \in Heads
    BY KnownHeads DEF Later
  <2>1. CASE end["up"] = "open" /\ server # "over"
    <3>1. Put("up", Message(from))
      BY <1>10, <2>1 DEF SendLast
    <3> QED BY <1>1, <2>0, <2>1, <3>1, WroteStep
  <2>2. CASE ~(end["up"] = "open" /\ server # "over")
    BY <1>2, <1>10, <2>2 DEF SendLast, streams, Still
  <2> QED BY <2>1, <2>2
<1>11. ASSUME ShutdownWriter PROVE Ended("up") /\ StreamType'
  BY <1>1, <1>11 DEF ShutdownWriter, Ended, StreamType, Other, Kept, Dirs
<1> QED BY <1>3, <1>4, <1>5, <1>6, <1>7, <1>8, <1>9, <1>10, <1>11

LEMMA OutputEffects ==
  ASSUME TypeOK
  PROVE  /\ \A k \in Output : ShowOutput(k) => Took("down", k) /\ StreamType'
         /\ ReadExit => Took("down", "exit") /\ StreamType'
         /\ SkipEvent => (\E k \in {"eof", "success", "failure"} : Took("down", k)) /\ StreamType'
<1>1. StreamType /\ "up" \in Dirs /\ "down" \in Dirs
  BY Typed, KnownHeads
<1>2. ASSUME NEW k \in Output, ShowOutput(k) PROVE Took("down", k) /\ StreamType'
  <2>1. k \in Heads /\ Size(k) = 2
    BY KnownHeads DEF Size, WithBody, Output
  <2>2. Whole("down", k) /\ Take("down", Size(k)) /\ end' = end
    BY <1>2, <2>1 DEF ShowOutput
  <2> QED BY <1>1, <2>1, <2>2, TookStep
<1>3. ASSUME ReadExit PROVE Took("down", "exit") /\ StreamType'
  <2>1. "exit" \in Heads /\ Size("exit") = 2
    BY KnownHeads DEF Size, WithBody
  <2>2. Whole("down", "exit") /\ Take("down", Size("exit")) /\ end' = end
    BY <1>3, <2>1 DEF ReadExit
  <2> QED BY <1>1, <2>1, <2>2, TookStep
<1>4. ASSUME SkipEvent
      PROVE  (\E k \in {"eof", "success", "failure"} : Took("down", k)) /\ StreamType'
  <2>1. PICK k \in {"eof", "success", "failure"} : At("down", k) /\ Take("down", 1) /\ end' = end
    BY <1>4 DEF SkipEvent, At
  <2>2. k \in Heads /\ Size(k) = 1
    BY KnownHeads DEF Size, WithBody, Later
  <2>3. wire["down"] \in Seq(Tokens)
    BY <1>1 DEF StreamType
  <2>4. Whole("down", k)
    BY <2>1, <2>2, <2>3, EmptySeq DEF Whole, At
  <2>5. Take("down", Size(k))
    BY <2>1, <2>2
  <2> QED BY <1>1, <2>1, <2>2, <2>4, <2>5, TookStep
<1> QED BY <1>2, <1>3, <1>4

LEMMA ServerEffects ==
  ASSUME TypeOK, PlanInv, OpenInv, SetupInv
  PROVE  /\ AcceptChannel => /\ wire["up"] = <<kind>> /\ wire'["up"] = <<>>
                             /\ wire'["down"] = wire["down"] /\ end' = end /\ StreamType'
         /\ Accept => Wrote("down", "confirmation") /\ StreamType'
         /\ Reject => Wrote("down", "failure-open") /\ StreamType'
         /\ \A r \in Requests \ {"unknown"} :
              SetupRequest(r) => Answered(r, <<"success">>) /\ StreamType'
         /\ SetupIgnores =>
              /\ wire["up"] = <<"unknown">> /\ Answered("unknown", <<"failure">>)
              /\ StreamType'
         /\ StartCommand => (Wrote("down", "data") \/ Still) /\ StreamType'
         /\ \A k \in Output : WriteOutput(k) => Wrote("down", k) /\ StreamType'
         /\ WriteExit => Wrote("down", "exit") /\ StreamType'
         /\ WriteEof => Wrote("down", "eof") /\ StreamType'
         /\ WriteClose => Wrote("down", "close") /\ StreamType'
         /\ FinishStream => Ended("down") /\ StreamType'
         /\ Complete \/ FeedEnds \/ FeedStops => Still /\ StreamType'
<1>1. StreamType /\ "up" \in Dirs /\ "down" \in Dirs
  BY Typed, KnownHeads
<1>2. Still => StreamType'
  BY <1>1 DEF Still, StreamType
<1>0. wire["up"] \in Seq(Tokens)
  BY <1>1 DEF StreamType
<1>3. ASSUME AcceptChannel
      PROVE  /\ wire["up"] = <<kind>> /\ wire'["up"] = <<>>
             /\ wire'["down"] = wire["down"] /\ end' = end /\ StreamType'
  <2>1. wire["up"] = <<kind>>
    BY <1>3 DEF AcceptChannel, OpenInv
  <2>2. wire' \in [Dirs -> Seq(Tokens)] /\ wire'["up"] = SubSeq(wire["up"], 1 + 1, Len(wire["up"]))
        /\ wire'["down"] = wire["down"]
    <3>1. 1 \in Nat /\ 1 <= Len(wire["up"]) /\ Take("up", 1)
      BY <1>3, <2>1 DEF AcceptChannel
    <3> QED BY <1>1, <3>1, TakeStep
  <2>3. Len(wire["up"]) = 1
    BY <2>1
  <2>4. wire'["up"] = <<>>
    BY <1>0, <2>2, <2>3, SubSeqEmpty
  <2> QED BY <1>1, <1>3, <2>1, <2>2, <2>4 DEF AcceptChannel, StreamType
<1>4. ASSUME Accept PROVE Wrote("down", "confirmation") /\ StreamType'
  BY <1>1, <1>4, WroteStep, KnownHeads DEF Accept
<1>5. ASSUME Reject PROVE Wrote("down", "failure-open") /\ StreamType'
  BY <1>1, <1>5, WroteStep, KnownHeads DEF Reject
<1>6. ASSUME NEW r \in Requests \ {"unknown"}, SetupRequest(r)
      PROVE  Answered(r, <<"success">>) /\ StreamType'
  <2>1. r \in Heads /\ Size(r) \in Nat /\ "success" \in Heads
    BY KnownHeads
  <2>2. Size(r) <= Len(wire["up"]) /\ At("up", r) /\ Reply(Size(r), Message("success"))
    BY <1>6 DEF SetupRequest, Whole
  <2>3. Message("success") = <<"success">>
    BY DEF Message, WithBody
  <2> QED BY <1>1, <2>1, <2>2, <2>3, ReplyStep DEF Answered
<1>7. ASSUME SetupIgnores
      PROVE  /\ wire["up"] = <<"unknown">> /\ Answered("unknown", <<"failure">>)
             /\ StreamType'
  <2>1. wire["up"] # <<>> /\ wire["up"][1] \in {"unknown", "data", "window-change"}
        /\ Reply(1, IF At("up", "unknown") THEN Message("failure") ELSE <<>>)
    BY <1>7 DEF SetupIgnores
  <2>2. \E r \in Requests : wire["up"] = Message(r) \/ wire["up"] = <<r>>
    <3>1. client # "done" => client = "reply" /\ wire["up"] = Message(Head(plan)) /\ Head(plan) \in Requests
      <4>1. client # "done" => client = "reply" /\ wire["up"] = Message(Head(plan))
        BY <1>7, <2>1 DEF SetupIgnores, SetupInv, OpenInv, Running
      <4>2. client = "reply" => plan # <<>> /\ plan \in Seq(Requests)
        BY DEF PlanInv, TypeOK
      <4> QED BY <4>1, <4>2, HeadTailProperties
    <3> QED BY <1>7, <2>1, <3>1 DEF SetupIgnores, SetupInv
  <2>3. PICK r \in Requests : wire["up"] = Message(r) \/ wire["up"] = <<r>>
    BY <2>2
  <2>4. wire["up"][1] = r
    BY <2>3, MessageFacts, KnownHeads
  <2>5. r = "unknown"
    BY <2>1, <2>4 DEF Requests
  <2>6. wire["up"] = <<"unknown">> /\ At("up", "unknown")
    BY <2>1, <2>3, <2>4, <2>5 DEF Message, WithBody, At
  <2>7. Reply(1, Message("failure")) /\ 1 <= Len(wire["up"]) /\ Message("failure") = <<"failure">>
        /\ Size("unknown") = 1
    BY <2>1, <2>6 DEF Message, WithBody, Size
  <2> QED BY <1>1, <2>6, <2>7, ReplyStep, KnownHeads DEF Answered
<1>8. ASSUME StartCommand PROVE (Wrote("down", "data") \/ Still) /\ StreamType'
  <2>1. CASE end["down"] = "open" /\ Put("down", Message("data"))
    BY <1>1, <2>1, WroteStep, KnownHeads DEF Output
  <2>2. CASE UNCHANGED streams
    BY <1>2, <2>2 DEF streams, Still
  <2> QED BY <1>8, <2>1, <2>2 DEF StartCommand
<1>9. ASSUME NEW k \in Output, WriteOutput(k) PROVE Wrote("down", k) /\ StreamType'
  BY <1>1, <1>9, WroteStep, KnownHeads DEF WriteOutput
<1>10. ASSUME WriteExit PROVE Wrote("down", "exit") /\ StreamType'
  BY <1>1, <1>10, WroteStep, KnownHeads DEF WriteExit
<1>11. ASSUME WriteEof PROVE Wrote("down", "eof") /\ StreamType'
  BY <1>1, <1>11, WroteStep, KnownHeads DEF WriteEof, Later
<1>12. ASSUME WriteClose PROVE Wrote("down", "close") /\ StreamType'
  BY <1>1, <1>12, WroteStep, KnownHeads DEF WriteClose, Later
<1>13. ASSUME FinishStream PROVE Ended("down") /\ StreamType'
  BY <1>1, <1>13 DEF FinishStream, Ended, StreamType, Other, Kept, Dirs
<1>14. ASSUME Complete \/ FeedEnds \/ FeedStops PROVE Still /\ StreamType'
  BY <1>2, <1>14 DEF Complete, FeedEnds, FeedStops, streams, Still
<1> QED BY <1>3, <1>4, <1>5, <1>6, <1>7, <1>8, <1>9, <1>10, <1>11, <1>12, <1>13, <1>14

LEMMA FeedEffects ==
  ASSUME TypeOK
  PROVE  /\ FeedData => Took("up", "data") /\ StreamType'
         /\ FeedResize => /\ wire'["down"] = wire["down"] /\ end' = end /\ StreamType'
                          /\ pty => Took("up", "window-change")
                          /\ wire["up"] # <<>>
                          /\ ~pty => /\ input' = "done"
                                     /\ wire'["up"] = SubSeq(wire["up"], 1 + 1, Len(wire["up"]))
         /\ LoseConnection => /\ wire' = wire /\ StreamType'
                              /\ \A d \in Dirs : end'[d] # "open" /\ (end[d] # "open" => end'[d] = end[d])
<1>1. StreamType /\ "up" \in Dirs /\ "down" \in Dirs
  BY Typed, KnownHeads
<1>2. ASSUME FeedData PROVE Took("up", "data") /\ StreamType'
  <2>1. "data" \in Heads /\ Size("data") = 2
    BY DEF Size, WithBody, Heads
  <2>2. Whole("up", "data") /\ Take("up", Size("data")) /\ end' = end
    BY <1>2, <2>1 DEF FeedData
  <2> QED BY <1>1, <2>1, <2>2, TookStep
<1>3. ASSUME FeedResize
      PROVE  /\ wire'["down"] = wire["down"] /\ end' = end /\ StreamType'
             /\ pty => Took("up", "window-change")
             /\ wire["up"] # <<>>
             /\ ~pty => /\ input' = "done"
                        /\ wire'["up"] = SubSeq(wire["up"], 1 + 1, Len(wire["up"]))
  <2>1. "window-change" \in Heads /\ Size("window-change") = 2
    BY DEF Size, WithBody, Heads
  <2>2. Whole("up", "window-change") /\ end' = end
    BY <1>3 DEF FeedResize
  <2>3. CASE pty
    <3>1. Take("up", Size("window-change"))
      BY <1>3, <2>1, <2>3 DEF FeedResize
    <3>2. Took("up", "window-change") /\ StreamType'
      BY <1>1, <2>1, <2>2, <3>1, TookStep
    <3> QED BY <1>3, <2>3, <3>2 DEF FeedResize, Took, Other, Whole, At
  <2>4. CASE ~pty
    <3>1. Take("up", 1) /\ 1 \in Nat /\ 1 <= Len(wire["up"]) /\ wire["up"] # <<>>
      BY <1>3, <2>1, <2>2, <2>4 DEF FeedResize, Whole, At
    <3>2. /\ wire' \in [Dirs -> Seq(Tokens)]
          /\ wire'["up"] = SubSeq(wire["up"], 1 + 1, Len(wire["up"]))
          /\ \A e \in Dirs \ {"up"} : wire'[e] = wire[e]
      BY <1>1, <3>1, TakeStep
    <3> QED BY <1>1, <1>3, <2>4, <3>1, <3>2 DEF FeedResize, StreamType
  <2> QED BY <2>3, <2>4
<1>4. ASSUME LoseConnection
      PROVE  /\ wire' = wire /\ StreamType'
             /\ \A d \in Dirs : end'[d] # "open" /\ (end[d] # "open" => end'[d] = end[d])
  BY <1>1, <1>4 DEF LoseConnection, StreamType
<1> QED BY <1>2, <1>3, <1>4
-----------------------------------------------------------------------------
(* Type correctness. *)
ClientType ==
  /\ kind \in {"session", "other"} /\ plan \in Seq(Requests)
  /\ client \in {"open", "confirm", "setup", "reply", "run", "done"}
  /\ stdin \in {None, "read", "eof", "close", "shutdown", "over"}
  /\ client = "run" => stdin # None /\ plan = <<>>
  /\ typed \in 0..MaxStdin /\ resized \in 0..MaxResize
  /\ shown \in Seq(Output) /\ exitSeen \in BOOLEAN
  /\ result \in {None, "refused", "err", "dropped", "exit", "no exit"}
  /\ client = "done" <=> result # None
ServerType ==
  /\ server \in {"listen", "accept", "reject", "rejected", "setup", "start",
                 "run", "close", "shutdown", "join", "over"}
  /\ input \in {None, "select", "done"} /\ fed \in 0..MaxStdin
  /\ written \in Seq(Output) /\ exited \in BOOLEAN /\ inputEof \in BOOLEAN
  /\ pty \in BOOLEAN /\ isShell \in BOOLEAN

LEMMA TypeParts == TypeOK <=> ClientType /\ ServerType /\ StreamType
BY DEF TypeOK, ClientType, ServerType, StreamType, Tokens

LEMMA NextCases ==
  ASSUME Next
  PROVE  \/ OpenChannel \/ Confirmed \/ SendRequest \/ ReadReply \/ SendInput
         \/ SendResize \/ StdinEnds \/ SendLast("eof", "close")
         \/ SendLast("close", "shutdown") \/ ShutdownWriter
         \/ (\E k \in Output : ShowOutput(k)) \/ ReadExit \/ SkipEvent
         \/ Leaving \/ AcceptChannel \/ Accept \/ Reject
         \/ (\E r \in Requests \ {"unknown"} : SetupRequest(r)) \/ SetupIgnores
         \/ StartCommand \/ (\E k \in Output : WriteOutput(k)) \/ WriteExit
         \/ WriteEof \/ WriteClose \/ FinishStream \/ Complete
         \/ (SetupFails \/ ServerEnds)
         \/ FeedData \/ FeedResize \/ FeedEnds \/ FeedStops \/ LoseConnection
BY DEF Next, ClientStep, ClientCall, ClientAnswer, StdinLast, RelayOutput, ServerStep,
       ServerSteps, SetupStep, Feed, Leaving

LEMMA TypeStep ==
  ASSUME Inv, Next
  PROVE  TypeOK'
<1>0. /\ TypeOK /\ ClientType /\ ServerType /\ StreamType /\ PlanInv /\ OpenInv /\ SetupInv
      /\ FeedInv
  BY TypeParts DEF Inv
<1> USE <1>0, ChannelAssumption, TypeParts DEF None
<1>1. ASSUME OpenChannel PROVE (ClientType /\ ServerType /\ StreamType)'
  <2>1. StreamType'
    BY <1>1, ClientEffects
  <2>2. ServerType'
    BY <1>1 DEF OpenChannel, serverVars, ServerType
  <2>7. ClientType'
    BY <1>1 DEF OpenChannel, ClientType
  <2> QED BY <2>1, <2>2, <2>7
<1>2. ASSUME Confirmed PROVE (ClientType /\ ServerType /\ StreamType)'
  <2>1. StreamType'
    BY <1>2, ClientEffects
  <2>2. ServerType'
    BY <1>2 DEF Confirmed, serverVars, ServerType
  <2>7. ClientType'
    BY <1>2 DEF Confirmed, ClientType
  <2> QED BY <2>1, <2>2, <2>7
<1>3. ASSUME SendRequest PROVE (ClientType /\ ServerType /\ StreamType)'
  <2>1. StreamType'
    BY <1>3, ClientEffects
  <2>2. ServerType'
    BY <1>3 DEF SendRequest, serverVars, ServerType
  <2>7. ClientType'
    BY <1>3 DEF SendRequest, ClientType
  <2> QED BY <2>1, <2>2, <2>7
<1>4. ASSUME ReadReply PROVE (ClientType /\ ServerType /\ StreamType)'
  <2>1. StreamType'
    BY <1>4, ClientEffects
  <2>2. ServerType'
    BY <1>4 DEF ReadReply, serverVars, ServerType
  <2>3. plan # <<>> /\ Tail(plan) \in Seq(Requests)
    BY <1>4, HeadTailProperties DEF ReadReply, PlanInv, ClientType
  <2>7. ClientType'
    BY <1>4, <2>3 DEF ReadReply, ClientType
  <2> QED BY <2>1, <2>2, <2>7
<1>5. ASSUME SendInput PROVE (ClientType /\ ServerType /\ StreamType)'
  <2>1. StreamType'
    BY <1>5, ClientEffects
  <2>2. ServerType'
    BY <1>5 DEF SendInput, serverVars, ServerType
  <2>7. ClientType'
    BY <1>5 DEF SendInput, ClientType
  <2> QED BY <2>1, <2>2, <2>7
<1>6. ASSUME SendResize PROVE (ClientType /\ ServerType /\ StreamType)'
  <2>1. StreamType'
    BY <1>6, ClientEffects
  <2>2. ServerType'
    BY <1>6 DEF SendResize, serverVars, ServerType
  <2>7. ClientType'
    BY <1>6 DEF SendResize, ClientType
  <2> QED BY <2>1, <2>2, <2>7
<1>7. ASSUME StdinEnds PROVE (ClientType /\ ServerType /\ StreamType)'
  <2>1. StreamType'
    BY <1>7, ClientEffects
  <2>2. ServerType'
    BY <1>7 DEF StdinEnds, serverVars, ServerType
  <2>7. ClientType'
    BY <1>7 DEF StdinEnds, ClientType
  <2> QED BY <2>1, <2>2, <2>7
<1>8. ASSUME SendLast("eof", "close") PROVE (ClientType /\ ServerType /\ StreamType)'
  <2>1. StreamType'
    BY <1>8, ClientEffects
  <2>2. ServerType'
    BY <1>8 DEF SendLast, serverVars, ServerType
  <2>7. ClientType'
    BY <1>8 DEF SendLast, ClientType
  <2> QED BY <2>1, <2>2, <2>7
<1>9. ASSUME SendLast("close", "shutdown") PROVE (ClientType /\ ServerType /\ StreamType)'
  <2>1. StreamType'
    BY <1>9, ClientEffects
  <2>2. ServerType'
    BY <1>9 DEF SendLast, serverVars, ServerType
  <2>7. ClientType'
    BY <1>9 DEF SendLast, ClientType
  <2> QED BY <2>1, <2>2, <2>7
<1>10. ASSUME ShutdownWriter PROVE (ClientType /\ ServerType /\ StreamType)'
  <2>1. StreamType'
    BY <1>10, ClientEffects
  <2>2. ServerType'
    BY <1>10 DEF ShutdownWriter, serverVars, ServerType
  <2>7. ClientType'
    BY <1>10 DEF ShutdownWriter, ClientType
  <2> QED BY <2>1, <2>2, <2>7
<1>11. ASSUME NEW k \in Output, ShowOutput(k) PROVE (ClientType /\ ServerType /\ StreamType)'
  <2>1. StreamType'
    BY <1>11, OutputEffects
  <2>2. ServerType'
    BY <1>11 DEF ShowOutput, serverVars, ServerType
  <2>3. Append(shown, k) \in Seq(Output)
    BY AppendProperties DEF ClientType
  <2>7. ClientType'
    BY <1>11, <2>3 DEF ShowOutput, ClientType
  <2> QED BY <2>1, <2>2, <2>7
<1>12. ASSUME ReadExit PROVE (ClientType /\ ServerType /\ StreamType)'
  <2>1. StreamType'
    BY <1>12, OutputEffects
  <2>2. ServerType'
    BY <1>12 DEF ReadExit, serverVars, ServerType
  <2>7. ClientType'
    BY <1>12 DEF ReadExit, ClientType
  <2> QED BY <2>1, <2>2, <2>7
<1>13. ASSUME SkipEvent PROVE (ClientType /\ ServerType /\ StreamType)'
  <2>1. StreamType'
    BY <1>13, OutputEffects
  <2>2. ClientType'
    BY <1>13 DEF SkipEvent, clientVars, ClientType
  <2>3. ServerType'
    BY <1>13 DEF SkipEvent, serverVars, ServerType
  <2> QED BY <2>1, <2>2, <2>3
<1>14. ASSUME NEW q \in Failures, NEW cut \in SUBSET Heads, Leaves(q, cut) PROVE (ClientType /\ ServerType /\ StreamType)'
  <2>1. StreamType' /\ ServerType'
    BY <1>14 DEF Leaves, serverVars, ServerType
  <2>2. ClientType'
    BY <1>14 DEF Leaves, Failures, ClientType
  <2> QED BY <2>1, <2>2
<1>15. ASSUME AcceptChannel PROVE (ClientType /\ ServerType /\ StreamType)'
  <2>1. StreamType'
    BY <1>15, ServerEffects
  <2>2. ClientType'
    BY <1>15 DEF AcceptChannel, clientVars, ClientType
  <2>7. ServerType'
    BY <1>15 DEF AcceptChannel, ServerType
  <2> QED BY <2>1, <2>2, <2>7
<1>16. ASSUME Accept PROVE (ClientType /\ ServerType /\ StreamType)'
  <2>1. StreamType'
    BY <1>16, ServerEffects
  <2>2. ClientType'
    BY <1>16 DEF Accept, clientVars, ClientType
  <2>7. ServerType'
    BY <1>16 DEF Accept, ServerType
  <2> QED BY <2>1, <2>2, <2>7
<1>17. ASSUME Reject PROVE (ClientType /\ ServerType /\ StreamType)'
  <2>1. StreamType'
    BY <1>17, ServerEffects
  <2>2. ClientType'
    BY <1>17 DEF Reject, clientVars, ClientType
  <2>7. ServerType'
    BY <1>17 DEF Reject, ServerType
  <2> QED BY <2>1, <2>2, <2>7
<1>18. ASSUME NEW r \in Requests \ {"unknown"}, SetupRequest(r) PROVE (ClientType /\ ServerType /\ StreamType)'
  <2>1. StreamType'
    BY <1>18, ServerEffects
  <2>2. ClientType'
    BY <1>18 DEF SetupRequest, clientVars, ClientType
  <2>3. pty' \in BOOLEAN /\ isShell' \in BOOLEAN
    BY <1>18, Zenon DEF SetupRequest
  <2>7. ServerType'
    BY <1>18, <2>3 DEF SetupRequest, ServerType
  <2> QED BY <2>1, <2>2, <2>7
<1>19. ASSUME SetupIgnores PROVE (ClientType /\ ServerType /\ StreamType)'
  <2>1. StreamType'
    BY <1>19, ServerEffects
  <2>2. ClientType'
    BY <1>19 DEF SetupIgnores, clientVars, ClientType
  <2>3. ServerType'
    BY <1>19 DEF SetupIgnores, serverVars, ServerType
  <2> QED BY <2>1, <2>2, <2>3
<1>20. ASSUME StartCommand PROVE (ClientType /\ ServerType /\ StreamType)'
  <2>1. StreamType'
    BY <1>20, ServerEffects
  <2>2. ClientType'
    BY <1>20 DEF StartCommand, clientVars, ClientType
  <2>3. Append(written, "data") \in Seq(Output)
    BY AppendProperties DEF ServerType, Output
  <2>7. ServerType'
    BY <1>20, <2>3 DEF StartCommand, ServerType
  <2> QED BY <2>1, <2>2, <2>7
<1>21. ASSUME NEW k \in Output, WriteOutput(k) PROVE (ClientType /\ ServerType /\ StreamType)'
  <2>1. StreamType'
    BY <1>21, ServerEffects
  <2>2. ClientType'
    BY <1>21 DEF WriteOutput, clientVars, ClientType
  <2>3. Append(written, k) \in Seq(Output)
    BY AppendProperties DEF ServerType
  <2>7. ServerType'
    BY <1>21, <2>3 DEF WriteOutput, ServerType
  <2> QED BY <2>1, <2>2, <2>7
<1>22. ASSUME WriteExit PROVE (ClientType /\ ServerType /\ StreamType)'
  <2>1. StreamType'
    BY <1>22, ServerEffects
  <2>2. ClientType'
    BY <1>22 DEF WriteExit, clientVars, ClientType
  <2>7. ServerType'
    BY <1>22 DEF WriteExit, ServerType
  <2> QED BY <2>1, <2>2, <2>7
<1>23. ASSUME WriteEof PROVE (ClientType /\ ServerType /\ StreamType)'
  <2>1. StreamType'
    BY <1>23, ServerEffects
  <2>2. ClientType'
    BY <1>23 DEF WriteEof, clientVars, ClientType
  <2>7. ServerType'
    BY <1>23 DEF WriteEof, ServerType
  <2> QED BY <2>1, <2>2, <2>7
<1>24. ASSUME WriteClose PROVE (ClientType /\ ServerType /\ StreamType)'
  <2>1. StreamType'
    BY <1>24, ServerEffects
  <2>2. ClientType'
    BY <1>24 DEF WriteClose, clientVars, ClientType
  <2>7. ServerType'
    BY <1>24 DEF WriteClose, ServerType
  <2> QED BY <2>1, <2>2, <2>7
<1>25. ASSUME FinishStream PROVE (ClientType /\ ServerType /\ StreamType)'
  <2>1. StreamType'
    BY <1>25, ServerEffects
  <2>2. ClientType'
    BY <1>25 DEF FinishStream, clientVars, ClientType
  <2>7. ServerType'
    BY <1>25 DEF FinishStream, ServerType
  <2> QED BY <2>1, <2>2, <2>7
<1>26. ASSUME Complete PROVE (ClientType /\ ServerType /\ StreamType)'
  <2>1. StreamType'
    BY <1>26, ServerEffects
  <2>2. ClientType'
    BY <1>26 DEF Complete, clientVars, ClientType
  <2>7. ServerType'
    BY <1>26 DEF Complete, ServerType
  <2> QED BY <2>1, <2>2, <2>7
<1>27. ASSUME NEW cut \in SUBSET WithBody, GivesUp(cut) PROVE (ClientType /\ ServerType /\ StreamType)'
  <2>1. StreamType' /\ ClientType'
    BY <1>27 DEF GivesUp, clientVars, ClientType
  <2>2. ServerType'
    BY <1>27 DEF GivesUp, ServerType
  <2> QED BY <2>1, <2>2
<1>28. ASSUME FeedData PROVE (ClientType /\ ServerType /\ StreamType)'
  <2>1. StreamType'
    BY <1>28, FeedEffects
  <2>2. ClientType'
    BY <1>28 DEF FeedData, clientVars, ClientType
  <2>3. Took("up", "data") /\ wire["up"] \in Seq(Tokens)
    BY <1>28, FeedEffects DEF StreamType, Dirs
  <2>4. 1 \in Chunks(wire["up"])
    <3>1. wire["up"][1] = "data" /\ 2 <= Len(wire["up"])
      BY <2>3 DEF Took, At, Size, WithBody
    <3>2. Len(wire["up"]) \in Nat
      BY <2>3, LenProperties
    <3> QED BY <3>1, <3>2 DEF Chunks
  <2>5. Pending \in Nat /\ Pending # 0
    BY <2>3, <2>4, ChunksFinite, FS_EmptySet DEF Pending
  <2>8. fed + Pending <= typed /\ fed \in 0..MaxStdin /\ typed \in 0..MaxStdin
    BY DEF FeedInv, ServerType, ClientType
  <2>6. fed + 1 \in 0..MaxStdin
    BY <2>5, <2>8
  <2>7. ServerType'
    BY <1>28, <2>6 DEF FeedData, ServerType
  <2> QED BY <2>1, <2>2, <2>7
<1>29. ASSUME FeedResize PROVE (ClientType /\ ServerType /\ StreamType)'
  <2>1. StreamType'
    BY <1>29, FeedEffects
  <2>2. ClientType'
    BY <1>29 DEF FeedResize, clientVars, ClientType
  <2>7. ServerType'
    BY <1>29 DEF FeedResize, ServerType
  <2> QED BY <2>1, <2>2, <2>7
<1>30. ASSUME FeedEnds PROVE (ClientType /\ ServerType /\ StreamType)'
  <2>1. StreamType'
    BY <1>30, ServerEffects
  <2>2. ClientType'
    BY <1>30 DEF FeedEnds, clientVars, ClientType
  <2>3. inputEof' \in BOOLEAN
    BY <1>30, Zenon DEF FeedEnds, At
  <2>7. ServerType'
    BY <1>30, <2>3 DEF FeedEnds, ServerType
  <2> QED BY <2>1, <2>2, <2>7
<1>31. ASSUME FeedStops PROVE (ClientType /\ ServerType /\ StreamType)'
  <2>1. StreamType'
    BY <1>31, ServerEffects
  <2>2. ClientType'
    BY <1>31 DEF FeedStops, clientVars, ClientType
  <2>7. ServerType'
    BY <1>31 DEF FeedStops, ServerType
  <2> QED BY <2>1, <2>2, <2>7
<1>32. ASSUME LoseConnection PROVE (ClientType /\ ServerType /\ StreamType)'
  <2>1. StreamType'
    BY <1>32, FeedEffects
  <2>2. ClientType'
    BY <1>32 DEF LoseConnection, clientVars, ClientType
  <2>3. ServerType'
    BY <1>32 DEF LoseConnection, serverVars, ServerType
  <2> QED BY <2>1, <2>2, <2>3
<1>33. StreamType
  BY Typed DEF Inv
<1>40. (ClientType /\ ServerType /\ StreamType)'
  BY <1>1, <1>2, <1>3, <1>4, <1>5, <1>6, <1>7, <1>8, <1>9, <1>10, <1>11, <1>12,
     <1>13, <1>14, <1>15, <1>16, <1>17, <1>18, <1>19, <1>20, <1>21, <1>22,
     <1>23, <1>24, <1>25, <1>26, <1>27, <1>28, <1>29, <1>30, <1>31, <1>32,
     <1>33,
     NextCases, LeavesStep, GivesUpStep
<1> QED BY <1>40 DEF TypeOK, ClientType, ServerType, StreamType, Tokens
(* The calls still to be made. *)
LEMMA PlanTail ==
  ASSUME NEW p \in Seq(Requests), p # <<>>,
         \A n \in 1..Len(p) : p[n] \in Starts <=> n = Len(p)
  PROVE  \A n \in 1..Len(Tail(p)) : Tail(p)[n] \in Starts <=> n = Len(Tail(p))
<1> DEFINE q == Tail(p)
<1>1. q \in Seq(Requests) /\ Len(q) = Len(p) - 1 /\ \A n \in 1..Len(q) : q[n] = p[n + 1]
  BY HeadTailProperties
<1>2. Len(p) \in Nat
  BY LenProperties
<1> HIDE DEF q
<1>3. ASSUME NEW n \in 1..Len(q) PROVE q[n] \in Starts <=> n = Len(q)
  <2>1. n + 1 \in 1..Len(p)
    BY <1>1, <1>2
  <2>2. p[n + 1] \in Starts <=> n + 1 = Len(p)
    BY <2>1
  <2> QED BY <1>1, <1>2, <2>2
<1> QED BY <1>3 DEF q

LEMMA PlanStep ==
  ASSUME TypeOK, PlanInv, Next
  PROVE  PlanInv'
<1> USE DEF PlanInv, TypeOK
<1>1. ASSUME OpenChannel PROVE PlanInv'
  BY <1>1 DEF OpenChannel, clientVars, serverVars
<1>2. ASSUME Confirmed PROVE PlanInv'
  BY <1>2 DEF Confirmed, clientVars, serverVars
<1>3. ASSUME SendRequest PROVE PlanInv'
  BY <1>3 DEF SendRequest, clientVars, serverVars
<1>4. ASSUME ReadReply PROVE PlanInv'
  <2>1. plan # <<>> /\ plan \in Seq(Requests) /\ plan' = Tail(plan)
        /\ \A n \in 1..Len(plan) : plan[n] \in Starts <=> n = Len(plan)
    BY <1>4 DEF ReadReply
  <2>4. client' \notin {"run", "done"} => plan' # <<>>
    BY <1>4 DEF ReadReply
  <2> QED BY <2>1, <2>4, PlanTail
<1>5. ASSUME SendInput PROVE PlanInv'
  BY <1>5 DEF SendInput, clientVars, serverVars
<1>6. ASSUME SendResize PROVE PlanInv'
  BY <1>6 DEF SendResize, clientVars, serverVars
<1>7. ASSUME StdinEnds PROVE PlanInv'
  BY <1>7 DEF StdinEnds, clientVars, serverVars
<1>8. ASSUME SendLast("eof", "close") PROVE PlanInv'
  BY <1>8 DEF SendLast, clientVars, serverVars
<1>9. ASSUME SendLast("close", "shutdown") PROVE PlanInv'
  BY <1>9 DEF SendLast, clientVars, serverVars
<1>10. ASSUME ShutdownWriter PROVE PlanInv'
  BY <1>10 DEF ShutdownWriter, clientVars, serverVars
<1>11. ASSUME NEW k \in Output, ShowOutput(k) PROVE PlanInv'
  BY <1>11 DEF ShowOutput, clientVars, serverVars
<1>12. ASSUME ReadExit PROVE PlanInv'
  BY <1>12 DEF ReadExit, clientVars, serverVars
<1>13. ASSUME SkipEvent PROVE PlanInv'
  BY <1>13 DEF SkipEvent, clientVars, serverVars
<1>14. ASSUME NEW q \in Failures, NEW cut \in SUBSET Heads, Leaves(q, cut) PROVE PlanInv'
  BY <1>14 DEF Leaves, clientVars, serverVars
<1>15. ASSUME AcceptChannel PROVE PlanInv'
  BY <1>15 DEF AcceptChannel, clientVars, serverVars
<1>16. ASSUME Accept PROVE PlanInv'
  BY <1>16 DEF Accept, clientVars, serverVars
<1>17. ASSUME Reject PROVE PlanInv'
  BY <1>17 DEF Reject, clientVars, serverVars
<1>18. ASSUME NEW r \in Requests \ {"unknown"}, SetupRequest(r) PROVE PlanInv'
  BY <1>18 DEF SetupRequest, clientVars, serverVars
<1>19. ASSUME SetupIgnores PROVE PlanInv'
  BY <1>19 DEF SetupIgnores, clientVars, serverVars
<1>20. ASSUME StartCommand PROVE PlanInv'
  BY <1>20 DEF StartCommand, clientVars, serverVars
<1>21. ASSUME NEW k \in Output, WriteOutput(k) PROVE PlanInv'
  BY <1>21 DEF WriteOutput, clientVars, serverVars
<1>22. ASSUME WriteExit PROVE PlanInv'
  BY <1>22 DEF WriteExit, clientVars, serverVars
<1>23. ASSUME WriteEof PROVE PlanInv'
  BY <1>23 DEF WriteEof, clientVars, serverVars
<1>24. ASSUME WriteClose PROVE PlanInv'
  BY <1>24 DEF WriteClose, clientVars, serverVars
<1>25. ASSUME FinishStream PROVE PlanInv'
  BY <1>25 DEF FinishStream, clientVars, serverVars
<1>26. ASSUME Complete PROVE PlanInv'
  BY <1>26 DEF Complete, clientVars, serverVars
<1>27. ASSUME NEW cut \in SUBSET WithBody, GivesUp(cut) PROVE PlanInv'
  BY <1>27 DEF GivesUp, clientVars, serverVars
<1>28. ASSUME FeedData PROVE PlanInv'
  BY <1>28 DEF FeedData, clientVars, serverVars
<1>29. ASSUME FeedResize PROVE PlanInv'
  BY <1>29 DEF FeedResize, clientVars, serverVars
<1>30. ASSUME FeedEnds PROVE PlanInv'
  BY <1>30 DEF FeedEnds, clientVars, serverVars
<1>31. ASSUME FeedStops PROVE PlanInv'
  BY <1>31 DEF FeedStops, clientVars, serverVars
<1>32. ASSUME LoseConnection PROVE PlanInv'
  BY <1>32 DEF LoseConnection, clientVars, serverVars
<1>33. StreamType
  BY Typed
<1> HIDE DEF PlanInv, TypeOK
<1> QED
  BY <1>1, <1>2, <1>3, <1>4, <1>5, <1>6, <1>7, <1>8, <1>9, <1>10, <1>11, <1>12,
     <1>13, <1>14, <1>15, <1>16, <1>17, <1>18, <1>19, <1>20, <1>21, <1>22,
     <1>23, <1>24, <1>25, <1>26, <1>27, <1>28, <1>29, <1>30, <1>31, <1>32,
     <1>33,
     NextCases, LeavesStep, GivesUpStep
(* The opening of the channel. *)
LEMMA FirstMessage ==
  ASSUME NEW k \in Heads
  PROVE  <<>> \o Message(k) = Message(k) /\ <<>> \o <<k>> = <<k>>
<1>1. Message(k) \in Seq(Tokens) /\ <<k>> \in Seq(Tokens)
  BY MessageFacts DEF Tokens
<1> QED BY <1>1, ConcatEmptySeq

LEMMA OpenStep ==
  ASSUME Inv, Next
  PROVE  OpenInv'
<1> USE DEF OpenInv, SetupInv, TypeOK, PlanInv, RunInv, Inv, Message, WithBody, Body, Running
<1>1. ASSUME OpenChannel PROVE OpenInv'
  <2>1. wire'["up"] = <<kind>> /\ wire'["down"] = wire["down"]
    <3>1. kind \in Heads /\ Message(kind) = <<kind>>
      BY DEF Heads, Bodiless
    <3> QED BY <1>1, <3>1, ClientEffects, FirstMessage DEF OpenChannel, Wrote,
               Other
  <2> QED BY <1>1, <2>1 DEF OpenChannel, serverVars
<1>2. ASSUME Confirmed PROVE OpenInv'
  <2>1. wire["down"] # <<>> /\ wire["down"][1] = "confirmation"
    BY <1>2 DEF Confirmed, Whole, At
  <2>2. server \in {"setup", "over"}
    BY <1>2, <2>1 DEF Confirmed
  <2> QED BY <1>2, <2>2 DEF Confirmed, serverVars
<1>3. ASSUME SendRequest PROVE OpenInv'
  BY <1>3, ClientEffects DEF SendRequest, Wrote, Took, Still, Ended, Answered,
     Other, Kept, clientVars, serverVars
<1>4. ASSUME ReadReply PROVE OpenInv'
  BY <1>4, ClientEffects DEF ReadReply, Wrote, Took, Still, Ended, Answered,
     Other, Kept, clientVars, serverVars
<1>5. ASSUME SendInput PROVE OpenInv'
  BY <1>5, ClientEffects DEF SendInput, Wrote, Took, Still, Ended, Answered,
     Other, Kept, clientVars, serverVars
<1>6. ASSUME SendResize PROVE OpenInv'
  BY <1>6, ClientEffects DEF SendResize, Wrote, Took, Still, Ended, Answered,
     Other, Kept, clientVars, serverVars
<1>7. ASSUME StdinEnds PROVE OpenInv'
  BY <1>7, ClientEffects DEF StdinEnds, Wrote, Took, Still, Ended, Answered,
     Other, Kept, clientVars, serverVars
<1>8. ASSUME SendLast("eof", "close") PROVE OpenInv'
  BY <1>8, ClientEffects DEF SendLast, Wrote, Took, Still, Ended, Answered,
     Other, Kept, clientVars, serverVars
<1>9. ASSUME SendLast("close", "shutdown") PROVE OpenInv'
  BY <1>9, ClientEffects DEF SendLast, Wrote, Took, Still, Ended, Answered,
     Other, Kept, clientVars, serverVars
<1>10. ASSUME ShutdownWriter PROVE OpenInv'
  BY <1>10, ClientEffects DEF ShutdownWriter, Wrote, Took, Still, Ended,
     Answered, Other, Kept, clientVars, serverVars
<1>11. ASSUME NEW k \in Output, ShowOutput(k) PROVE OpenInv'
  BY <1>11, OutputEffects DEF ShowOutput, Wrote, Took, Still, Ended, Answered,
     Other, Kept, clientVars, serverVars
<1>12. ASSUME ReadExit PROVE OpenInv'
  BY <1>12, OutputEffects DEF ReadExit, Wrote, Took, Still, Ended, Answered,
     Other, Kept, clientVars, serverVars
<1>13. ASSUME SkipEvent PROVE OpenInv'
  BY <1>13, OutputEffects DEF SkipEvent, Wrote, Took, Still, Ended, Answered,
     Other, Kept, clientVars, serverVars
<1>14. ASSUME NEW q \in Failures, NEW cut \in SUBSET Heads, Leaves(q, cut) PROVE OpenInv'
  BY <1>14 DEF Leaves, Dropped, Kept, Other, serverVars
<1>15. ASSUME AcceptChannel PROVE OpenInv'
  BY <1>15, ServerEffects DEF AcceptChannel, Wrote, Took, Still, Ended,
     Answered, Other, Kept, clientVars, serverVars
<1>16. ASSUME Accept PROVE OpenInv'
  <2>1. wire'["down"] = <<"confirmation", Body>> /\ wire'["up"] = wire["up"]
    <3>1. "confirmation" \in Heads /\ Message("confirmation") = <<"confirmation", Body>>
      BY DEF Heads
    <3>2. wire["down"] = <<>>
      BY <1>16 DEF Accept
    <3> QED BY <1>16, <3>1, <3>2, ServerEffects, FirstMessage DEF Wrote, Other
  <2> QED BY <1>16, <2>1 DEF Accept, clientVars
<1>17. ASSUME Reject PROVE OpenInv'
  <2>1. wire'["down"] = <<"failure-open", Body>> /\ wire'["up"] = wire["up"]
    <3>1. "failure-open" \in Heads /\ Message("failure-open") = <<"failure-open", Body>>
      BY DEF Heads
    <3>2. wire["down"] = <<>>
      BY <1>17 DEF Reject
    <3> QED BY <1>17, <3>1, <3>2, ServerEffects, FirstMessage DEF Wrote, Other
  <2> QED BY <1>17, <2>1 DEF Reject, clientVars
<1>18. ASSUME NEW r \in Requests \ {"unknown"}, SetupRequest(r) PROVE OpenInv'
  BY <1>18, ServerEffects DEF SetupRequest, Wrote, Took, Still, Ended,
     Answered, Other, Kept, clientVars, serverVars, At
<1>19. ASSUME SetupIgnores PROVE OpenInv'
  BY <1>19, ServerEffects DEF SetupIgnores, Wrote, Took, Still, Ended,
     Answered, Other, Kept, clientVars, serverVars
<1>20. ASSUME StartCommand PROVE OpenInv'
  BY <1>20, ServerEffects DEF StartCommand, Wrote, Took, Still, Ended,
     Answered, Other, Kept, clientVars, serverVars
<1>21. ASSUME NEW k \in Output, WriteOutput(k) PROVE OpenInv'
  BY <1>21, ServerEffects DEF WriteOutput, Wrote, Took, Still, Ended, Answered,
     Other, Kept, clientVars, serverVars
<1>22. ASSUME WriteExit PROVE OpenInv'
  BY <1>22, ServerEffects DEF WriteExit, Wrote, Took, Still, Ended, Answered,
     Other, Kept, clientVars, serverVars
<1>23. ASSUME WriteEof PROVE OpenInv'
  BY <1>23, ServerEffects DEF WriteEof, Wrote, Took, Still, Ended, Answered,
     Other, Kept, clientVars, serverVars
<1>24. ASSUME WriteClose PROVE OpenInv'
  BY <1>24, ServerEffects DEF WriteClose, Wrote, Took, Still, Ended, Answered,
     Other, Kept, clientVars, serverVars
<1>25. ASSUME FinishStream PROVE OpenInv'
  BY <1>25, ServerEffects DEF FinishStream, Wrote, Took, Still, Ended,
     Answered, Other, Kept, clientVars, serverVars
<1>26. ASSUME Complete PROVE OpenInv'
  BY <1>26, ServerEffects DEF Complete, Wrote, Took, Still, Ended, Answered,
     Other, Kept, clientVars, serverVars
<1>27. ASSUME NEW cut \in SUBSET WithBody, GivesUp(cut) PROVE OpenInv'
  <2>1. StreamType' /\ wire'["up"] = wire["up"] /\ UNCHANGED clientVars
    BY <1>27 DEF GivesUp, Dropped, Kept, Other
  <2>2. wire'["down"] = wire["down"] \/ \E k \in cut : wire'["down"] = wire["down"] \o <<k>>
    BY <1>27 DEF GivesUp, Dropped, Kept
  <2>3. client = "confirm" /\ wire'["down"] # wire["down"] =>
          wire'["down"] \in {<<"confirmation">>, <<"failure-open">>}
    <3> SUFFICES ASSUME client = "confirm", NEW k \in cut, wire'["down"] = wire["down"] \o <<k>>
                 PROVE  wire'["down"] \in {<<"confirmation">>, <<"failure-open">>}
      BY <2>2
    <3>1. \/ server = "accept" /\ k = "confirmation"
          \/ server = "reject" /\ k = "failure-open"
      BY <1>27 DEF GivesUp
    <3>2. wire["down"] = <<>> /\ k \in Heads
      BY <3>1 DEF Heads
    <3> QED BY <3>1, <3>2, FirstMessage
  <2> QED BY <1>27, <2>1, <2>2, <2>3 DEF GivesUp, clientVars
<1>28. ASSUME FeedData PROVE OpenInv'
  BY <1>28, FeedEffects DEF FeedData, Wrote, Took, Still, Ended, Answered,
     Other, Kept, clientVars, serverVars, InputTakes, None
<1>29. ASSUME FeedResize PROVE OpenInv'
  BY <1>29, FeedEffects DEF FeedResize, Wrote, Took, Still, Ended, Answered,
     Other, Kept, clientVars, serverVars, InputTakes, None
<1>30. ASSUME FeedEnds PROVE OpenInv'
  BY <1>30, ServerEffects DEF FeedEnds, Wrote, Took, Still, Ended, Answered,
     Other, Kept, clientVars, serverVars
<1>31. ASSUME FeedStops PROVE OpenInv'
  BY <1>31, ServerEffects DEF FeedStops, Wrote, Took, Still, Ended, Answered,
     Other, Kept, clientVars, serverVars
<1>32. ASSUME LoseConnection PROVE OpenInv'
  BY <1>32, FeedEffects DEF LoseConnection, Wrote, Took, Still, Ended,
     Answered, Other, Kept, clientVars, serverVars
<1>33. StreamType
  BY Typed DEF Inv
<1> HIDE DEF OpenInv, SetupInv, TypeOK, PlanInv, RunInv, Inv
<1> QED
  BY <1>1, <1>2, <1>3, <1>4, <1>5, <1>6, <1>7, <1>8, <1>9, <1>10, <1>11, <1>12,
     <1>13, <1>14, <1>15, <1>16, <1>17, <1>18, <1>19, <1>20, <1>21, <1>22,
     <1>23, <1>24, <1>25, <1>26, <1>27, <1>28, <1>29, <1>30, <1>31, <1>32,
     <1>33,
     NextCases, LeavesStep, GivesUpStep
-----------------------------------------------------------------------------
(* Set-up. *)

(* What is first in a stream stays first when something is written. *)
LEMMA FirstStays ==
  ASSUME NEW s \in Seq(Tokens), s # <<>>, NEW k \in Heads
  PROVE  /\ s \o Message(k) # <<>> /\ (s \o Message(k))[1] = s[1]
         /\ s \o <<k>> # <<>> /\ (s \o <<k>>)[1] = s[1]
<1>1. Len(s) \in Nat /\ Len(s) # 0
  BY LenProperties, EmptySeq
<1>2. 1 \in 1..Len(s)
  BY <1>1
<1>3. /\ s \o Message(k) \in Seq(Tokens) /\ Len(s \o Message(k)) = Len(s) + Size(k)
      /\ (s \o Message(k))[1] = s[1] /\ Size(k) \in {1, 2}
  BY <1>2, PutFacts
<1>4. /\ s \o <<k>> \in Seq(Tokens) /\ Len(s \o <<k>>) = Len(s) + 1
      /\ (s \o <<k>>)[1] = s[1]
  BY <1>2, CutFacts
<1> QED BY <1>1, <1>3, <1>4, EmptySeq

(* Nothing is left of a message on its own that was read. *)
LEMMA OnlyMessage ==
  ASSUME NEW k \in Heads
  PROVE  /\ SubSeq(Message(k), Size(k) + 1, Len(Message(k))) = <<>>
         /\ SubSeq(<<k>>, 1 + 1, Len(<<k>>)) = <<>>
<1>1. Message(k) \in Seq(Tokens) /\ Len(Message(k)) = Size(k) /\ Size(k) \in {1, 2}
  BY MessageFacts
<1>2. <<k>> \in Seq(Tokens) /\ Len(<<k>>) = 1
  BY DEF Tokens
<1>3. SubSeq(Message(k), Size(k) + 1, Size(k)) = <<>>
  BY <1>1, SubSeqEmpty
<1>4. SubSeq(<<k>>, 1 + 1, 1) = <<>>
  BY <1>2, SubSeqEmpty
<1> QED BY <1>1, <1>2, <1>3, <1>4

LEMMA WholeConfirmation ==
  ASSUME NEW s, s # <<>>, s[1] = "confirmation", 2 <= Len(s),
         s \in {<<>>, <<"confirmation">>, <<"confirmation", Body>>,
                <<"failure-open">>, <<"failure-open", Body>>}
  PROVE  s = <<"confirmation", Body>>
<1>1. CASE s = <<"confirmation">>
  <2>1. Len(<<"confirmation">>) = 1
    OBVIOUS
  <2>2. 2 <= 1
    BY <1>1, <2>1, Zenon
  <2> QED BY <2>2
<1>2. CASE s = <<"failure-open">> \/ s = <<"failure-open", Body>>
  <2>1. s[1] = "failure-open"
    BY <1>2
  <2> QED BY <2>1
<1> QED BY <1>1, <1>2

(* The first call of a plan is the last one too, or it is not exec or shell. *)
LEMMA PlanHead ==
  ASSUME TypeOK, PlanInv, client \notin {"run", "done"}
  PROVE  /\ Head(plan) \in Requests
         /\ Head(plan) \in Starts <=> Tail(plan) = <<>>
<1>1. plan \in Seq(Requests) /\ plan # <<>>
      /\ \A n \in 1..Len(plan) : plan[n] \in Starts <=> n = Len(plan)
  BY DEF TypeOK, PlanInv
<1>2. Len(plan) \in Nat /\ Len(plan) # 0
  BY <1>1, LenProperties, EmptySeq
<1>3. Head(plan) = plan[1] /\ Head(plan) \in Requests
  BY <1>1
<1>4. 1 \in 1..Len(plan)
  BY <1>2
<1>5. Head(plan) \in Starts <=> Len(plan) = 1
  BY <1>1, <1>3, <1>4
<1> DEFINE q == Tail(plan)
<1>6. q \in Seq(Requests) /\ Len(q) = Len(plan) - 1
  BY <1>1, HeadTailProperties
<1> HIDE DEF q
<1>7. q = <<>> <=> Len(q) = 0
  BY <1>6, EmptySeq
<1>8. q = <<>> <=> Len(plan) = 1
  BY <1>2, <1>6, <1>7
<1> QED BY <1>3, <1>5, <1>8 DEF q

(* A set-up request is read whole, and was alone in its stream. *)
LEMMA RequestRead ==
  ASSUME TypeOK, PlanInv, OpenInv, SetupInv, NEW r \in Requests \ {"unknown"}, SetupRequest(r)
  PROVE  /\ Answered(r, <<"success">>) /\ end' = end
         /\ wire'["up"] = <<>> /\ r \in Heads
         /\ r \in Starts => server' = "start"
         /\ r \notin Starts => server' = "setup"
         /\ client' = client /\ plan' = plan
         /\ client # "done" => client = "reply" /\ Head(plan) = r /\ wire["down"] = <<>>
<1>1. Answered(r, <<"success">>)
  BY ServerEffects
<1>2. /\ server = "setup" /\ Size(r) <= Len(wire["up"])
      /\ r \in Starts => server' = "start"
      /\ r \notin Starts => server' = "setup"
      /\ client' = client /\ plan' = plan
  BY DEF SetupRequest, Whole, Starts, clientVars
<1>3. wire["up"] # <<>> /\ wire["up"][1] = r /\ end' = end /\ r \in Heads
  BY <1>1, KnownHeads DEF Answered, At
<1>4. wire["up"] = Message(r) => wire'["up"] = <<>>
  BY <1>1, <1>3, OnlyMessage DEF Answered
<1>5. CASE client = "done"
  <2>1. PICK j \in Requests : wire["up"] = Message(j) \/ wire["up"] = <<j>>
    BY <1>2, <1>3, <1>5 DEF SetupInv
  <2>2. j = r
    BY SMTT(30), <1>3, <2>1, MessageFacts, KnownHeads
  <2>3. CASE wire["up"] = <<r>>
    <3>1. Len(<<r>>) = 1 /\ Size(r) <= 1
      BY <1>2, <2>3
    <3> QED BY <1>1, <1>2, <1>3, <1>4, <1>5, <2>3, <3>1 DEF Message, Size
  <2> QED BY <1>1, <1>2, <1>3, <1>4, <1>5, <2>1, <2>2, <2>3
<1>6. CASE client # "done"
  <2>1. client = "reply" /\ wire["up"] = Message(Head(plan)) /\ wire["down"] = <<>>
    BY <1>2, <1>3, <1>6 DEF SetupInv, OpenInv, Running
  <2>2. Head(plan) = r
    BY <1>3, <2>1, PlanHead, MessageFacts, KnownHeads
  <2> QED BY <1>1, <1>2, <1>3, <1>4, <2>1, <2>2
<1> QED BY <1>5, <1>6

(* Output is written only behind the answer to the last call. *)
LEMMA Writing ==
  ASSUME SetupInv, StreamType, NEW k \in Heads, Wrote("down", k) \/ Still,
         server \in Running, server' \in Running, UNCHANGED <<client, plan>>
  PROVE  SetupInv'
<1>1. server # "setup" /\ server' # "setup" /\ server # "over" /\ server' # "over"
  BY DEF Running
<1>2. client = "reply" => /\ wire["up"] = <<>> /\ Head(plan) \in Starts
                          /\ At("down", "success") \/ (wire["down"] = <<>> /\ end["down"] # "open")
  BY <1>1 DEF SetupInv
<1>3. wire["down"] \in Seq(Tokens)
  BY DEF StreamType, Dirs
<1>4. wire'["up"] = wire["up"] /\ end' = end
  BY DEF Wrote, Still, Other
<1>5. At("down", "success") => wire'["down"] # <<>> /\ wire'["down"][1] = "success"
  BY <1>3, FirstStays DEF At, Wrote, Still
<1>6. end["down"] # "open" => wire'["down"] = wire["down"]
  BY DEF Wrote, Still
<1> QED BY <1>1, <1>2, <1>4, <1>5, <1>6 DEF SetupInv, At

LEMMA SetupCallStep ==
  ASSUME Inv, Next
  PROVE  SetupInv'
<1>0. TypeOK /\ PlanInv /\ OpenInv /\ SetupInv /\ RunInv /\ StreamType
  BY Typed DEF Inv
<1> USE <1>0
<1>1. ASSUME OpenChannel PROVE SetupInv'
  BY <1>1, ClientEffects DEF OpenChannel, SetupInv, OpenInv, Running, Wrote,
     Took, Still, Ended, Other, Kept, clientVars, serverVars
<1>2. ASSUME Confirmed PROVE SetupInv'
  <2>1. Took("down", "confirmation") /\ client = "confirm" /\ client' = "setup"
    BY <1>2, ClientEffects DEF Confirmed
  <2>2. wire["down"][1] = "confirmation" /\ wire["down"] # <<>> /\ 2 <= Len(wire["down"])
    BY <2>1 DEF Took, At, Size, WithBody
  <2>6. wire["down"] = <<"confirmation", Body>>
    <3>1. wire["down"] \in {<<>>, <<"confirmation">>, <<"confirmation", Body>>,
                           <<"failure-open">>, <<"failure-open", Body>>}
      BY <2>1 DEF OpenInv
    <3> QED BY <2>2, <3>1, WholeConfirmation
  <2>7. server \in {"setup", "over"}
    BY <2>1, <2>2 DEF OpenInv
  <2>3. wire["down"] = Message("confirmation") /\ server \in {"setup", "over"}
    BY <2>6, <2>7 DEF Message, WithBody
  <2>4. wire'["down"] = <<>> /\ wire'["up"] = wire["up"]
    BY <2>1, <2>3, OnlyMessage, KnownHeads DEF Took, Other
  <2>5. server = "setup" => wire["up"] = <<>>
    BY <2>1 DEF OpenInv
  <2> QED BY <1>2, <2>1, <2>3, <2>4, <2>5 DEF Confirmed, serverVars, SetupInv
<1>3. ASSUME SendRequest PROVE SetupInv'
  <2>1. Wrote("up", Head(plan)) /\ Head(plan) \in Heads
    BY <1>3, ClientEffects, PlanHead, KnownHeads DEF SendRequest
  <2>2. server = "setup" => wire'["up"] = Message(Head(plan))
    BY <1>3, <2>1, FirstMessage DEF Wrote, SendRequest, SetupInv
  <2>3. server \in {"setup", "over"} /\ wire'["down"] = <<>>
    BY <1>3, <2>1 DEF SendRequest, SetupInv, Wrote, Other
  <2>4. client' = "reply" /\ plan' = plan /\ server' = server
    BY <1>3 DEF SendRequest, serverVars
  <2> QED BY <2>2, <2>3, <2>4 DEF SetupInv, Message
<1>4. ASSUME ReadReply PROVE SetupInv'
  <2>1. PICK k \in {"success", "failure"} : Took("down", k)
    BY <1>4, ClientEffects
  <2>2. client = "reply" /\ plan' = Tail(plan) /\ server' = server
        /\ client' = IF plan' = <<>> THEN "run" ELSE "setup"
    BY <1>4 DEF ReadReply, serverVars
  <2>3. wire["down"] # <<>> /\ wire["down"][1] = k /\ wire'["up"] = wire["up"]
    BY <2>1 DEF Took, At, Other
  <2>4. CASE server \in {"setup", "over"} /\ wire["up"] = <<>> /\ Head(plan) \notin Starts
             /\ wire["down"] = <<Answer(Head(plan))>>
    <3>1. client' = "setup"
      BY <2>2, <2>4, PlanHead
    <3>2. wire["down"] = Message(k) /\ k \in Heads
      BY <2>3, <2>4, KnownHeads DEF Message, WithBody, Answer
    <3>3. wire'["down"] = <<>>
      BY <2>1, <3>2, OnlyMessage DEF Took
    <3> QED BY <2>2, <2>3, <2>4, <3>1, <3>3 DEF SetupInv
  <2>5. CASE server \in Running \cup {"over"} /\ Head(plan) \in Starts
    <3>1. client' = "run"
      BY <2>2, <2>5, PlanHead
    <3> QED BY <2>2, <2>5, <3>1 DEF SetupInv, Running
  <2> QED BY <2>2, <2>3, <2>4, <2>5 DEF SetupInv
<1>5. ASSUME SendInput PROVE SetupInv'
  BY <1>5, ClientEffects DEF SendInput, SetupInv, OpenInv, Running, Wrote,
     Took, Still, Ended, Other, Kept, clientVars, serverVars
<1>6. ASSUME SendResize PROVE SetupInv'
  BY <1>6, ClientEffects DEF SendResize, SetupInv, OpenInv, Running, Wrote,
     Took, Still, Ended, Other, Kept, clientVars, serverVars
<1>7. ASSUME StdinEnds PROVE SetupInv'
  BY <1>7, ClientEffects DEF StdinEnds, SetupInv, OpenInv, Running, Wrote,
     Took, Still, Ended, Other, Kept, clientVars, serverVars
<1>8. ASSUME SendLast("eof", "close") PROVE SetupInv'
  BY <1>8, ClientEffects DEF SendLast, SetupInv, OpenInv, Running, Wrote, Took,
     Still, Ended, Other, Kept, clientVars, serverVars
<1>9. ASSUME SendLast("close", "shutdown") PROVE SetupInv'
  BY <1>9, ClientEffects DEF SendLast, SetupInv, OpenInv, Running, Wrote, Took,
     Still, Ended, Other, Kept, clientVars, serverVars
<1>10. ASSUME ShutdownWriter PROVE SetupInv'
  BY <1>10, ClientEffects DEF ShutdownWriter, SetupInv, OpenInv, Running,
     Wrote, Took, Still, Ended, Other, Kept, clientVars, serverVars
<1>11. ASSUME NEW k \in Output, ShowOutput(k) PROVE SetupInv'
  BY <1>11, OutputEffects DEF ShowOutput, SetupInv, OpenInv, Running, Wrote,
     Took, Still, Ended, Other, Kept, clientVars, serverVars
<1>12. ASSUME ReadExit PROVE SetupInv'
  BY <1>12, OutputEffects DEF ReadExit, SetupInv, OpenInv, Running, Wrote,
     Took, Still, Ended, Other, Kept, clientVars, serverVars
<1>13. ASSUME SkipEvent PROVE SetupInv'
  BY <1>13, OutputEffects DEF SkipEvent, SetupInv, OpenInv, Running, Wrote,
     Took, Still, Ended, Other, Kept, clientVars, serverVars
<1>14. ASSUME NEW q \in Failures, NEW cut \in SUBSET Heads, Leaves(q, cut) PROVE SetupInv'
  <2>1. client' = "done" /\ server' = server /\ Dropped("up", cut) /\ client # "done"
    BY <1>14 DEF Leaves, serverVars
  <2>2. ASSUME server = "setup"
        PROVE  \/ wire'["up"] = <<>>
               \/ \E r \in Requests : wire'["up"] = Message(r)
               \/ \E r \in Requests : wire'["up"] = <<r>> /\ end'["up"] # "open"
    <3>1. CASE client = "setup"
      <4>1. wire["up"] = <<>> /\ cut \subseteq {Head(plan)} /\ Head(plan) \in Requests
        BY <1>14, <2>2, <3>1, PlanHead DEF SetupInv, Leaves
      <4>2. <<>> \o <<Head(plan)>> = <<Head(plan)>>
        BY <4>1, FirstMessage, KnownHeads
      <4> QED BY <2>1, <4>1, <4>2 DEF Dropped, Kept
    <3>2. CASE client \in {"confirm", "reply"}
      <4>1. cut = {}
        BY <1>14, <3>2 DEF Leaves
      <4>2. wire'["up"] = wire["up"]
        BY <2>1, <4>1 DEF Dropped, Kept
      <4>3. client = "confirm" => wire["up"] = <<>>
        BY <2>2 DEF OpenInv
      <4>4. client = "reply" => wire["up"] \in {<<>>, Message(Head(plan))}
        BY <2>2 DEF SetupInv, Running
      <4>5. Head(plan) \in Requests
        BY <3>2, PlanHead
      <4> QED BY <3>2, <4>2, <4>3, <4>4, <4>5
    <3> QED BY <2>1, <2>2, <3>1, <3>2 DEF SetupInv
  <2> QED BY <2>1, <2>2 DEF SetupInv, Message
<1>15. ASSUME AcceptChannel PROVE SetupInv'
  BY <1>15, ServerEffects DEF AcceptChannel, SetupInv, OpenInv, Running, Wrote,
     Took, Still, Ended, Other, Kept, clientVars, serverVars
<1>16. ASSUME Accept PROVE SetupInv'
  <2>1. server' = "setup" /\ client' = client /\ client \in {"confirm", "done"}
        /\ wire["up"] = <<>> /\ wire'["up"] = wire["up"]
    BY <1>16, ServerEffects DEF Accept, clientVars, OpenInv, Wrote, Other
  <2> QED BY <2>1 DEF SetupInv
<1>17. ASSUME Reject PROVE SetupInv'
  BY <1>17, ServerEffects DEF Reject, SetupInv, OpenInv, Running, Wrote, Took,
     Still, Ended, Other, Kept, clientVars, serverVars
<1>18. ASSUME NEW r \in Requests \ {"unknown"}, SetupRequest(r) PROVE SetupInv'
  <2>1. /\ Answered(r, <<"success">>) /\ end' = end
        /\ wire'["up"] = <<>> /\ r \in Heads
        /\ r \in Starts => server' = "start"
        /\ r \notin Starts => server' = "setup"
        /\ client' = client /\ plan' = plan
        /\ client # "done" => client = "reply" /\ Head(plan) = r /\ wire["down"] = <<>>
    BY <1>18, RequestRead
  <2>3. CASE client = "done"
    <3>5. client' = "done" /\ server' \in {"start", "setup"}
      BY <2>1, <2>3
    <3> QED BY <2>1, <3>5 DEF SetupInv
  <2>4. CASE client # "done"
    <3>1. client = "reply" /\ Head(plan) = r /\ wire["down"] = <<>>
      BY <2>1, <2>4
    <3>3. wire'["up"] = <<>>
      BY <2>1
    <3>4. Message("success") = <<"success">> /\ "success" \in Heads
      BY KnownHeads DEF Message, WithBody
    <3>5. wire'["down"] = IF end["down"] = "open" THEN <<"success">> ELSE <<>>
      BY <2>1, <3>1, <3>4, FirstMessage DEF Answered
    <3>6. Answer(r) = "success" /\ Head(plan') = r
      BY <2>1, <3>1 DEF Answer
    <3>7. CASE r \in Starts
      <4>1. client' = "reply" /\ server' = "start" /\ Head(plan') = r
        BY <2>1, <3>1, <3>6, <3>7
      <4>2. (wire'["down"] # <<>> /\ wire'["down"][1] = "success")
            \/ (wire'["down"] = <<>> /\ end'["down"] # "open")
        BY <2>1, <3>5
      <4> QED BY <3>3, <3>7, <4>1, <4>2 DEF SetupInv, At, Running
    <3>8. CASE r \notin Starts
      <4>1. client' = "reply" /\ server' = "setup" /\ Head(plan') = r
        BY <2>1, <3>1, <3>6, <3>8
      <4>2. wire'["down"] = <<Answer(r)>> \/ (wire'["down"] = <<>> /\ end'["down"] # "open")
        BY <2>1, <3>5, <3>6
      <4> QED BY <3>3, <3>8, <4>1, <4>2 DEF SetupInv
    <3> QED BY <3>7, <3>8
  <2> QED BY <2>3, <2>4
<1>19. ASSUME SetupIgnores PROVE SetupInv'
  <2>1. wire["up"] = <<"unknown">> /\ Answered("unknown", <<"failure">>)
        /\ server = "setup" /\ server' = "setup" /\ UNCHANGED <<client, plan>>
    BY <1>19, ServerEffects DEF SetupIgnores, clientVars, serverVars
  <2>2. "unknown" \in Heads /\ Message("unknown") = <<"unknown">> /\ "failure" \in Heads
        /\ Message("failure") = <<"failure">>
    BY KnownHeads DEF Message, WithBody, Requests
  <2>3. wire'["up"] = <<>> /\ end' = end
    BY <2>1, <2>2, OnlyMessage DEF Answered
  <2>4. CASE client = "done"
    BY <2>1, <2>3, <2>4 DEF SetupInv
  <2>5. CASE client # "done"
    <3>1. client = "reply" /\ wire["up"] = Message(Head(plan)) /\ wire["down"] = <<>>
      BY <2>1, <2>5 DEF SetupInv, OpenInv, Running
    <3>2. Head(plan) = "unknown"
      BY SMTT(30), <2>1, <3>1, PlanHead, MessageFacts, KnownHeads
    <3>3. wire'["down"] = IF end["down"] = "open" THEN <<"failure">> ELSE <<>>
      BY <2>1, <2>2, <3>1, FirstMessage DEF Answered
    <3>4. Answer("unknown") = "failure" /\ "unknown" \notin Starts
      BY DEF Answer, Starts
    <3>5. client' = "reply" /\ Head(plan') = "unknown"
      BY <2>1, <3>1, <3>2
    <3>6. wire'["down"] = <<Answer("unknown")>> \/ (wire'["down"] = <<>> /\ end'["down"] # "open")
      BY <2>3, <3>3, <3>4
    <3> QED BY <2>1, <2>3, <3>4, <3>5, <3>6 DEF SetupInv
  <2> QED BY <2>4, <2>5
<1>20. ASSUME StartCommand PROVE SetupInv'
  <2>1. (Wrote("down", "data") \/ Still) /\ "data" \in Heads
        /\ server \in Running /\ server' \in Running /\ UNCHANGED <<client, plan>>
    BY <1>20, ServerEffects, KnownHeads DEF StartCommand, clientVars, Running,
       Later, Output
  <2> QED BY <2>1, Writing
<1>21. ASSUME NEW k \in Output, WriteOutput(k) PROVE SetupInv'
  <2>1. (Wrote("down", k)) /\ k \in Heads
        /\ server \in Running /\ server' \in Running /\ UNCHANGED <<client, plan>>
    BY <1>21, ServerEffects, KnownHeads DEF WriteOutput, clientVars, Running,
       Later, Output
  <2> QED BY <2>1, Writing
<1>22. ASSUME WriteExit PROVE SetupInv'
  <2>1. (Wrote("down", "exit")) /\ "exit" \in Heads
        /\ server \in Running /\ server' \in Running /\ UNCHANGED <<client, plan>>
    BY <1>22, ServerEffects, KnownHeads DEF WriteExit, clientVars, Running,
       Later, Output
  <2> QED BY <2>1, Writing
<1>23. ASSUME WriteEof PROVE SetupInv'
  <2>1. (Wrote("down", "eof")) /\ "eof" \in Heads
        /\ server \in Running /\ server' \in Running /\ UNCHANGED <<client, plan>>
    BY <1>23, ServerEffects, KnownHeads DEF WriteEof, clientVars, Running,
       Later, Output
  <2> QED BY <2>1, Writing
<1>24. ASSUME WriteClose PROVE SetupInv'
  <2>1. (Wrote("down", "close")) /\ "close" \in Heads
        /\ server \in Running /\ server' \in Running /\ UNCHANGED <<client, plan>>
    BY <1>24, ServerEffects, KnownHeads DEF WriteClose, clientVars, Running,
       Later, Output
  <2> QED BY <2>1, Writing
<1>25. ASSUME FinishStream PROVE SetupInv'
  <2>1. wire' = wire /\ UNCHANGED <<client, plan>> /\ end'["down"] # "open"
        /\ server \in Running /\ server' \in Running /\ end'["up"] = end["up"]
        /\ server \notin {"setup", "over"} /\ server' \notin {"setup", "over"}
    BY <1>25, ServerEffects DEF FinishStream, clientVars, Running, Ended, Other
  <2>2. CASE client = "reply"
    <3>1. At("down", "success") \/ wire["down"] = <<>>
      BY <2>1, <2>2 DEF SetupInv
    <3>2. wire["up"] = <<>> /\ Head(plan) \in Starts
      BY <2>1, <2>2 DEF SetupInv
    <3> QED BY <2>1, <2>2, <3>1, <3>2 DEF SetupInv, At
  <2> QED BY <2>1, <2>2 DEF SetupInv
<1>26. ASSUME Complete PROVE SetupInv'
  <2>1. Still /\ UNCHANGED <<client, plan>>
    BY <1>26, ServerEffects DEF Complete, clientVars
  <2>2. server' = server \/ (server \in Running /\ server' = "over")
    BY <1>26 DEF Complete, Running
  <2> QED BY <2>1, <2>2 DEF SetupInv, At, Message, Still, Running
<1>27. ASSUME NEW cut \in SUBSET WithBody, GivesUp(cut) PROVE SetupInv'
  <2>1. server' = "over" /\ Dropped("down", cut) /\ UNCHANGED <<client, plan>>
        /\ wire'["up"] = wire["up"] /\ cut \subseteq Heads /\ wire["down"] \in Seq(Tokens)
    BY <1>27, <1>0 DEF GivesUp, clientVars, Dropped, Kept, Other, Heads,
       StreamType, Dirs
  <2>2. server = "setup" => wire'["down"] = wire["down"]
    BY <1>27, <2>1 DEF GivesUp, Dropped, Kept
  <2>3. wire["down"] # <<>> => wire'["down"] # <<>> /\ wire'["down"][1] = wire["down"][1]
    BY <2>1, FirstStays DEF Dropped, Kept
  <2>4. end["down"] # "open" => wire'["down"] = wire["down"] /\ end'["down"] # "open"
    BY <2>1 DEF Dropped, Kept
  <2>5. client = "setup" => wire["down"] = <<>> /\ server = "setup"
    BY <1>27 DEF SetupInv, GivesUp
  <2>6. server # "over"
    BY <1>27 DEF GivesUp
  <2>7. CASE client # "reply"
    BY <2>1, <2>2, <2>5, <2>7 DEF SetupInv
  <2>8. CASE client = "reply" /\ server = "setup"
    BY <2>1, <2>2, <2>4, <2>8 DEF SetupInv, Running
  <2>9. CASE client = "reply" /\ server # "setup"
    BY <2>1, <2>3, <2>4, <2>6, <2>9 DEF SetupInv, At
  <2> QED BY <2>7, <2>8, <2>9
<1>28. ASSUME FeedData PROVE SetupInv'
  <2>1. server \in Running /\ wire["up"] # <<>> /\ UNCHANGED <<client, plan, server>>
    BY <1>28, FeedEffects DEF FeedData, InputTakes, None, RunInv, TypeOK,
       Running, Took, At, clientVars
  <2>2. end' = end /\ wire'["down"] = wire["down"]
    BY <1>28, FeedEffects DEF Took, Other
  <2> QED BY <2>1, <2>2 DEF SetupInv, Running
<1>29. ASSUME FeedResize PROVE SetupInv'
  <2>1. server \in Running /\ wire["up"] # <<>> /\ UNCHANGED <<client, plan, server>>
    BY <1>29, FeedEffects DEF FeedResize, InputTakes, None, RunInv, TypeOK,
       Running, Took, At, clientVars
  <2>2. end' = end /\ wire'["down"] = wire["down"]
    BY <1>29, FeedEffects DEF Took, Other
  <2> QED BY <2>1, <2>2 DEF SetupInv, Running
<1>30. ASSUME FeedEnds PROVE SetupInv'
  <2>1. Still /\ UNCHANGED <<client, plan>>
    BY <1>30, ServerEffects DEF FeedEnds, clientVars
  <2>2. server' = server \/ (server \in Running /\ server' = "over")
    BY <1>30 DEF FeedEnds, Running
  <2> QED BY <2>1, <2>2 DEF SetupInv, At, Message, Still, Running
<1>31. ASSUME FeedStops PROVE SetupInv'
  <2>1. Still /\ UNCHANGED <<client, plan>>
    BY <1>31, ServerEffects DEF FeedStops, clientVars
  <2>2. server' = server \/ (server \in Running /\ server' = "over")
    BY <1>31 DEF FeedStops, Running
  <2> QED BY <2>1, <2>2 DEF SetupInv, At, Message, Still, Running
<1>32. ASSUME LoseConnection PROVE SetupInv'
  <2>1. wire' = wire /\ UNCHANGED <<client, plan, server>> /\ end'["down"] # "open"
        /\ end'["up"] # "open"
    BY <1>32, FeedEffects DEF LoseConnection, clientVars, serverVars, Dirs
  <2> QED BY <2>1 DEF SetupInv, At, Message
<1>33. StreamType
  BY Typed DEF Inv
<1> QED
  BY <1>1, <1>2, <1>3, <1>4, <1>5, <1>6, <1>7, <1>8, <1>9, <1>10, <1>11, <1>12,
     <1>13, <1>14, <1>15, <1>16, <1>17, <1>18, <1>19, <1>20, <1>21, <1>22,
     <1>23, <1>24, <1>25, <1>26, <1>27, <1>28, <1>29, <1>30, <1>31, <1>32,
     <1>33,
     NextCases, LeavesStep, GivesUpStep
-----------------------------------------------------------------------------
(* What a step is to the stream from the server to the client: nothing, a  *)
(* message written or read, the end of its writer or that of its reader.   *)
Said == <<exited, exitSeen, shown, written, result>>
Spoke(k) ==
  /\ end["down"] = "open" /\ end'["down"] = "open"
  /\ wire'["down"] = wire["down"] \o Message(k)

Quiet ==
  /\ wire'["down"] = wire["down"] /\ UNCHANGED Said
  /\ end["down"] # "open" => end'["down"] = end["down"]
SpokeOther == \E k \in {"confirmation", "failure-open", "success", "failure", "eof"} :
                /\ Spoke(k) /\ UNCHANGED Said
                /\ server \notin {"shutdown", "join", "over"}
SpokeExit == /\ Spoke("exit") /\ server = "run" /\ server' = "run"
             /\ ~exited /\ exited' = TRUE /\ UNCHANGED <<exitSeen, shown, written, result>>
SpokeClose == Spoke("close") /\ server = "close" /\ server' = "shutdown" /\ UNCHANGED Said
SpokeOutput(k) == /\ Spoke(k) /\ server \in {"start", "run"} /\ server' = "run"
                  /\ written' = Append(written, k)
                  /\ UNCHANGED <<exited, exitSeen, shown, result>>
HeardOther == /\ \E k \in {"confirmation", "success", "failure", "eof"} : Took("down", k)
              /\ server' = server /\ UNCHANGED Said
HeardExit == /\ Took("down", "exit") /\ server' = server /\ client = "run"
             /\ exitSeen' = TRUE /\ UNCHANGED <<exited, shown, written, result>>
HeardOutput(k) == /\ Took("down", k) /\ server' = server /\ client = "run"
                  /\ shown' = Append(shown, k)
                  /\ UNCHANGED <<exited, exitSeen, written, result>>
Hangs(cut) == /\ Dropped("down", cut) /\ server' = "over" /\ UNCHANGED Said
              /\ server \in {"shutdown", "join", "over"} => cut = {}
Down == \/ Quiet \/ SpokeOther \/ SpokeExit \/ SpokeClose
        \/ (\E k \in Output : SpokeOutput(k) \/ HeardOutput(k)) \/ HeardOther \/ HeardExit
        \/ (\E cut \in SUBSET WithBody : Hangs(cut))
        \/ (\E q \in Failures, cut \in SUBSET Heads : Leaves(q, cut))

(* The server only goes on, and behind the exit notice it is done soon. *)
Onward ==
  /\ server \in {"run", "close", "shutdown", "join", "over"} =>
       server' \in {"run", "close", "shutdown", "join", "over"}
  /\ server \in {"shutdown", "join", "over"} => server' \in {"shutdown", "join", "over"}
  /\ server' \in {"close", "shutdown", "join"} => exited'

LEMMA DownStep ==
  ASSUME Inv, Next
  PROVE  Down /\ Onward
<1>0. TypeOK /\ PlanInv /\ OpenInv /\ SetupInv /\ RunInv /\ ExitInv /\ StreamType
  BY Typed DEF Inv
<1> USE <1>0
<1>1. ASSUME OpenChannel PROVE Down /\ Onward
  <2>1. Quiet
    BY <1>1, ClientEffects DEF OpenChannel, Quiet, Said, Spoke, Wrote, Took,
       Still, Ended, Other, Kept, clientVars, serverVars, Dirs
  <2>2. Onward
    BY <1>1 DEF OpenChannel, serverVars, Onward, ExitInv
  <2> QED BY <2>1, <2>2 DEF Down
<1>2. ASSUME Confirmed PROVE Down /\ Onward
  <2>1. HeardOther
    BY <1>2, ClientEffects DEF Confirmed, HeardOther, Said, Spoke, Wrote, Took,
       Still, Ended, Other, Kept, clientVars, serverVars, Dirs
  <2>2. Onward
    BY <1>2 DEF Confirmed, serverVars, Onward, ExitInv
  <2> QED BY <2>1, <2>2 DEF Down
<1>3. ASSUME SendRequest PROVE Down /\ Onward
  <2>1. Quiet
    BY <1>3, ClientEffects DEF SendRequest, Quiet, Said, Spoke, Wrote, Took,
       Still, Ended, Other, Kept, clientVars, serverVars, Dirs
  <2>2. Onward
    BY <1>3 DEF SendRequest, serverVars, Onward, ExitInv
  <2> QED BY <2>1, <2>2 DEF Down
<1>4. ASSUME ReadReply PROVE Down /\ Onward
  <2>1. HeardOther
    BY <1>4, ClientEffects DEF ReadReply, HeardOther, Said, Spoke, Wrote, Took,
       Still, Ended, Other, Kept, clientVars, serverVars, Dirs
  <2>2. Onward
    BY <1>4 DEF ReadReply, serverVars, Onward, ExitInv
  <2> QED BY <2>1, <2>2 DEF Down
<1>5. ASSUME SendInput PROVE Down /\ Onward
  <2>1. Quiet
    BY <1>5, ClientEffects DEF SendInput, Quiet, Said, Spoke, Wrote, Took,
       Still, Ended, Other, Kept, clientVars, serverVars, Dirs
  <2>2. Onward
    BY <1>5 DEF SendInput, serverVars, Onward, ExitInv
  <2> QED BY <2>1, <2>2 DEF Down
<1>6. ASSUME SendResize PROVE Down /\ Onward
  <2>1. Quiet
    BY <1>6, ClientEffects DEF SendResize, Quiet, Said, Spoke, Wrote, Took,
       Still, Ended, Other, Kept, clientVars, serverVars, Dirs
  <2>2. Onward
    BY <1>6 DEF SendResize, serverVars, Onward, ExitInv
  <2> QED BY <2>1, <2>2 DEF Down
<1>7. ASSUME StdinEnds PROVE Down /\ Onward
  <2>1. Quiet
    BY <1>7, ClientEffects DEF StdinEnds, Quiet, Said, Spoke, Wrote, Took,
       Still, Ended, Other, Kept, clientVars, serverVars, Dirs
  <2>2. Onward
    BY <1>7 DEF StdinEnds, serverVars, Onward, ExitInv
  <2> QED BY <2>1, <2>2 DEF Down
<1>8. ASSUME SendLast("eof", "close") PROVE Down /\ Onward
  <2>1. Quiet
    BY <1>8, ClientEffects DEF SendLast, Quiet, Said, Spoke, Wrote, Took,
       Still, Ended, Other, Kept, clientVars, serverVars, Dirs
  <2>2. Onward
    BY <1>8 DEF SendLast, serverVars, Onward, ExitInv
  <2> QED BY <2>1, <2>2 DEF Down
<1>9. ASSUME SendLast("close", "shutdown") PROVE Down /\ Onward
  <2>1. Quiet
    BY <1>9, ClientEffects DEF SendLast, Quiet, Said, Spoke, Wrote, Took,
       Still, Ended, Other, Kept, clientVars, serverVars, Dirs
  <2>2. Onward
    BY <1>9 DEF SendLast, serverVars, Onward, ExitInv
  <2> QED BY <2>1, <2>2 DEF Down
<1>10. ASSUME ShutdownWriter PROVE Down /\ Onward
  <2>1. Quiet
    BY <1>10, ClientEffects DEF ShutdownWriter, Quiet, Said, Spoke, Wrote,
       Took, Still, Ended, Other, Kept, clientVars, serverVars, Dirs
  <2>2. Onward
    BY <1>10 DEF ShutdownWriter, serverVars, Onward, ExitInv
  <2> QED BY <2>1, <2>2 DEF Down
<1>11. ASSUME NEW k \in Output, ShowOutput(k) PROVE Down /\ Onward
  <2>1. HeardOutput(k)
    BY <1>11, OutputEffects DEF ShowOutput, HeardOutput, Said, Spoke, Wrote,
       Took, Still, Ended, Other, Kept, clientVars, serverVars, Dirs
  <2>2. Onward
    BY <1>11 DEF ShowOutput, serverVars, Onward, ExitInv
  <2> QED BY <2>1, <2>2 DEF Down
<1>12. ASSUME ReadExit PROVE Down /\ Onward
  <2>1. HeardExit
    BY <1>12, OutputEffects DEF ReadExit, HeardExit, Said, Spoke, Wrote, Took,
       Still, Ended, Other, Kept, clientVars, serverVars, Dirs
  <2>2. Onward
    BY <1>12 DEF ReadExit, serverVars, Onward, ExitInv
  <2> QED BY <2>1, <2>2 DEF Down
<1>13. ASSUME SkipEvent PROVE Down /\ Onward
  <2>1. HeardOther
    BY <1>13, OutputEffects DEF SkipEvent, HeardOther, Said, Spoke, Wrote,
       Took, Still, Ended, Other, Kept, clientVars, serverVars, Dirs
  <2>2. Onward
    BY <1>13 DEF SkipEvent, serverVars, Onward, ExitInv
  <2> QED BY <2>1, <2>2 DEF Down
<1>14. ASSUME NEW q \in Failures, NEW cut \in SUBSET Heads, Leaves(q, cut) PROVE Down /\ Onward
  <2>1. server' = server /\ exited' = exited
    BY <1>14 DEF Leaves, serverVars
  <2> QED BY <1>14, <2>1 DEF Onward, Down, ExitInv
<1>15. ASSUME AcceptChannel PROVE Down /\ Onward
  <2>1. Quiet
    BY <1>15, ServerEffects DEF AcceptChannel, Quiet, Said, Spoke, Wrote, Took,
       Still, Ended, Other, Kept, clientVars, serverVars, Dirs
  <2>2. Onward
    BY <1>15 DEF AcceptChannel, serverVars, Onward, ExitInv
  <2> QED BY <2>1, <2>2 DEF Down
<1>16. ASSUME Accept PROVE Down /\ Onward
  <2>1. SpokeOther
    BY <1>16, ServerEffects DEF Accept, SpokeOther, Said, Spoke, Wrote, Took,
       Still, Ended, Other, Kept, clientVars, serverVars, Dirs
  <2>2. Onward
    BY <1>16 DEF Accept, serverVars, Onward, ExitInv
  <2> QED BY <2>1, <2>2 DEF Down
<1>17. ASSUME Reject PROVE Down /\ Onward
  <2>1. SpokeOther
    BY <1>17, ServerEffects DEF Reject, SpokeOther, Said, Spoke, Wrote, Took,
       Still, Ended, Other, Kept, clientVars, serverVars, Dirs
  <2>2. Onward
    BY <1>17 DEF Reject, serverVars, Onward, ExitInv
  <2> QED BY <2>1, <2>2 DEF Down
<1>18. ASSUME NEW r \in Requests \ {"unknown"}, SetupRequest(r) PROVE Down /\ Onward
  <2>1. server = "setup" /\ (Quiet \/ (Spoke("success") /\ UNCHANGED Said))
    <3>1. Answered(r, <<"success">>) /\ Message("success") = <<"success">> /\ UNCHANGED Said
          /\ server = "setup"
      BY <1>18, ServerEffects DEF SetupRequest, Said, clientVars, Message,
         WithBody
    <3> QED BY <3>1 DEF Answered, Quiet, Spoke
  <2>2. Onward
    BY <1>18 DEF SetupRequest, serverVars, Onward, ExitInv
  <2> QED BY <2>1, <2>2 DEF Down, SpokeOther
<1>19. ASSUME SetupIgnores PROVE Down /\ Onward
  <2>1. server = "setup" /\ (Quiet \/ (Spoke("failure") /\ UNCHANGED Said))
    <3>1. Answered("unknown", <<"failure">>) /\ Message("failure") = <<"failure">> /\ UNCHANGED Said
          /\ server = "setup"
      BY <1>19, ServerEffects DEF SetupIgnores, Said, clientVars, serverVars,
         Message, WithBody
    <3> QED BY <3>1 DEF Answered, Quiet, Spoke
  <2>2. Onward
    BY <1>19 DEF SetupIgnores, serverVars, Onward, ExitInv
  <2> QED BY <2>1, <2>2 DEF Down, SpokeOther
<1>20. ASSUME StartCommand PROVE Down /\ Onward
  <2>1. Quiet \/ SpokeOutput("data")
    BY <1>20, <1>0, PutStep, KnownHeads DEF StartCommand, Output, Said, Quiet,
       SpokeOutput, Spoke,
       clientVars, streams
  <2>2. Onward
    BY <1>20 DEF StartCommand, serverVars, Onward, ExitInv
  <2> QED BY <2>1, <2>2 DEF Down, Output
<1>21. ASSUME NEW k \in Output, WriteOutput(k) PROVE Down /\ Onward
  <2>1. SpokeOutput(k)
    BY <1>21, ServerEffects DEF WriteOutput, SpokeOutput, Said, Spoke, Wrote,
       Took, Still, Ended, Other, Kept, clientVars, serverVars, Dirs
  <2>2. Onward
    BY <1>21 DEF WriteOutput, serverVars, Onward, ExitInv
  <2> QED BY <2>1, <2>2 DEF Down
<1>22. ASSUME WriteExit PROVE Down /\ Onward
  <2>1. SpokeExit
    BY <1>22, ServerEffects DEF WriteExit, SpokeExit, Said, Spoke, Wrote, Took,
       Still, Ended, Other, Kept, clientVars, serverVars, Dirs
  <2>2. Onward
    BY <1>22 DEF WriteExit, serverVars, Onward, ExitInv
  <2> QED BY <2>1, <2>2 DEF Down
<1>23. ASSUME WriteEof PROVE Down /\ Onward
  <2>1. SpokeOther
    BY <1>23, ServerEffects DEF WriteEof, SpokeOther, Said, Spoke, Wrote, Took,
       Still, Ended, Other, Kept, clientVars, serverVars, Dirs
  <2>2. Onward
    BY <1>23 DEF WriteEof, serverVars, Onward, ExitInv
  <2> QED BY <2>1, <2>2 DEF Down
<1>24. ASSUME WriteClose PROVE Down /\ Onward
  <2>1. SpokeClose
    BY <1>24, ServerEffects DEF WriteClose, SpokeClose, Said, Spoke, Wrote,
       Took, Still, Ended, Other, Kept, clientVars, serverVars, Dirs
  <2>2. Onward
    BY <1>24 DEF WriteClose, serverVars, Onward, ExitInv
  <2> QED BY <2>1, <2>2 DEF Down
<1>25. ASSUME FinishStream PROVE Down /\ Onward
  <2>1. Quiet
    BY <1>25, ServerEffects DEF FinishStream, Quiet, Said, Spoke, Wrote, Took,
       Still, Ended, Other, Kept, clientVars, serverVars, Dirs
  <2>2. Onward
    BY <1>25 DEF FinishStream, serverVars, Onward, ExitInv
  <2> QED BY <2>1, <2>2 DEF Down
<1>26. ASSUME Complete PROVE Down /\ Onward
  <2>1. Quiet
    BY <1>26, ServerEffects DEF Complete, Quiet, Said, Spoke, Wrote, Took,
       Still, Ended, Other, Kept, clientVars, serverVars, Dirs
  <2>2. Onward
    BY <1>26 DEF Complete, serverVars, Onward, ExitInv
  <2> QED BY <2>1, <2>2 DEF Down
<1>27. ASSUME NEW cut \in SUBSET WithBody, GivesUp(cut) PROVE Down /\ Onward
  <2>1. Hangs(cut)
    BY <1>27 DEF GivesUp, Hangs, Said, clientVars
  <2> QED BY <2>1 DEF Hangs, Onward, Down
<1>28. ASSUME FeedData PROVE Down /\ Onward
  <2>1. Quiet
    BY <1>28, FeedEffects DEF FeedData, Quiet, Said, Spoke, Wrote, Took, Still,
       Ended, Other, Kept, clientVars, serverVars, Dirs
  <2>2. Onward
    BY <1>28 DEF FeedData, serverVars, Onward, ExitInv
  <2> QED BY <2>1, <2>2 DEF Down
<1>29. ASSUME FeedResize PROVE Down /\ Onward
  <2>1. Quiet
    BY <1>29, FeedEffects DEF FeedResize, Quiet, Said, Spoke, Wrote, Took,
       Still, Ended, Other, Kept, clientVars, serverVars, Dirs
  <2>2. Onward
    BY <1>29 DEF FeedResize, serverVars, Onward, ExitInv
  <2> QED BY <2>1, <2>2 DEF Down
<1>30. ASSUME FeedEnds PROVE Down /\ Onward
  <2>1. Quiet
    BY <1>30, ServerEffects DEF FeedEnds, Quiet, Said, Spoke, Wrote, Took,
       Still, Ended, Other, Kept, clientVars, serverVars, Dirs
  <2>2. Onward
    BY <1>30 DEF FeedEnds, serverVars, Onward, ExitInv
  <2> QED BY <2>1, <2>2 DEF Down
<1>31. ASSUME FeedStops PROVE Down /\ Onward
  <2>1. Quiet
    BY <1>31, ServerEffects DEF FeedStops, Quiet, Said, Spoke, Wrote, Took,
       Still, Ended, Other, Kept, clientVars, serverVars, Dirs
  <2>2. Onward
    BY <1>31 DEF FeedStops, serverVars, Onward, ExitInv
  <2> QED BY <2>1, <2>2 DEF Down
<1>32. ASSUME LoseConnection PROVE Down /\ Onward
  <2>1. Quiet
    BY <1>32, FeedEffects DEF LoseConnection, Quiet, Said, Spoke, Wrote, Took,
       Still, Ended, Other, Kept, clientVars, serverVars, Dirs
  <2>2. Onward
    BY <1>32 DEF LoseConnection, serverVars, Onward, ExitInv
  <2> QED BY <2>1, <2>2 DEF Down
<1>33. StreamType
  BY Typed DEF Inv
<1> QED
  BY <1>1, <1>2, <1>3, <1>4, <1>5, <1>6, <1>7, <1>8, <1>9, <1>10, <1>11, <1>12,
     <1>13, <1>14, <1>15, <1>16, <1>17, <1>18, <1>19, <1>20, <1>21, <1>22,
     <1>23, <1>24, <1>25, <1>26, <1>27, <1>28, <1>29, <1>30, <1>31, <1>32,
     <1>33,
     NextCases, LeavesStep, GivesUpStep
-----------------------------------------------------------------------------
(* The exit notice and the close. *)
Unclosed(s)  == \A n \in 1..Len(s) : s[n] # "close"
CloseLast(s) == \A n \in 1..Len(s) : s[n] = "close" => n = Len(s)

LEMMA ExitTake ==
  ASSUME NEW s \in Seq(Tokens), NEW n \in {1, 2}, n <= Len(s), n = 2 => s[2] = Body,
         CloseLast(s)
  PROVE  LET t == SubSeq(s, n + 1, Len(s)) IN
         /\ s[1] # "exit" => (HasExit(t) <=> HasExit(s))
         /\ HasExit(t) => HasExit(s)
         /\ s[1] = "exit" /\ n = 2 => HasExit(s)
         /\ CloseLast(t) /\ (Unclosed(s) => Unclosed(t))
<1> DEFINE t == SubSeq(s, n + 1, Len(s))
<1>1. n \in Nat /\ Len(s) \in Nat
  BY LenProperties
<1>2. Len(t) = Len(s) - n /\ \A m \in 1..Len(t) : t[m] = s[m + n]
  BY <1>1, TakeFacts
<1> HIDE DEF t
<1>3. Body # "exit" /\ Body # "close"
  BY DEF Body
<1>4. HasExit(t) => HasExit(s)
  <2> SUFFICES ASSUME NEW m \in 1..Len(t) - 1, t[m] = "exit" PROVE HasExit(s)
    BY DEF HasExit
  <2>1. m + n \in 1..Len(s) - 1 /\ s[m + n] = "exit"
    BY <1>1, <1>2
  <2> QED BY <2>1 DEF HasExit
<1>5. s[1] # "exit" /\ HasExit(s) => HasExit(t)
  <2> SUFFICES ASSUME s[1] # "exit", NEW m \in 1..Len(s) - 1, s[m] = "exit" PROVE HasExit(t)
    BY DEF HasExit
  <2>1. m > n
    BY <1>1, <1>3
  <2>2. m - n \in 1..Len(t) - 1 /\ m - n \in 1..Len(t)
    BY <1>1, <1>2, <2>1
  <2>3. t[m - n] = s[(m - n) + n] /\ (m - n) + n = m
    BY <1>1, <1>2, <2>2
  <2> QED BY <2>2, <2>3 DEF HasExit
<1>6. s[1] = "exit" /\ n = 2 => HasExit(s)
  BY <1>1 DEF HasExit
<1>7. ASSUME NEW m \in 1..Len(t) PROVE t[m] = s[m + n] /\ m + n \in 1..Len(s) /\ (m + n = Len(s) => m = Len(t))
  BY <1>1, <1>2
<1>8. CloseLast(t) /\ (Unclosed(s) => Unclosed(t))
  BY <1>7 DEF CloseLast, Unclosed
<1> QED BY <1>4, <1>5, <1>6, <1>8 DEF t

LEMMA ExitPut ==
  ASSUME NEW s \in Seq(Tokens), NEW k \in Heads, Framed(s, "open"), Unclosed(s)
  PROVE  LET t == s \o Message(k) IN
         /\ k # "exit" => (HasExit(t) <=> HasExit(s))
         /\ k = "exit" => HasExit(t)
         /\ CloseLast(t)
         /\ k # "close" => Unclosed(t)
<1> DEFINE t == s \o Message(k)
<1>1. /\ Len(t) = Len(s) + Size(k) /\ Len(s) \in Nat /\ Size(k) \in {1, 2}
      /\ \A i \in 1..Len(s) : t[i] = s[i]
      /\ t[Len(s) + 1] = k /\ (Size(k) = 2 => t[Len(s) + 2] = Body)
      /\ Size(k) = 2 <=> k \in WithBody
  BY PutFacts, LenProperties
<1> HIDE DEF t
<1>2. "exit" \in WithBody /\ "close" \notin WithBody /\ Body # "exit" /\ Body # "close"
  BY DEF WithBody, Body
<1>3. \A i \in 1..Len(s) : s[i] = "exit" => i < Len(s)
  BY <1>1, <1>2 DEF Framed
<1>4. ASSUME NEW i \in 1..Len(t)
      PROVE  \/ i \in 1..Len(s) /\ t[i] = s[i]
             \/ i = Len(s) + 1 /\ t[i] = k
             \/ i = Len(s) + 2 /\ t[i] = Body /\ Size(k) = 2
  BY <1>1
<1>5. HasExit(s) => HasExit(t)
  <2> SUFFICES ASSUME NEW m \in 1..Len(s) - 1, s[m] = "exit" PROVE HasExit(t)
    BY DEF HasExit
  <2>1. m \in 1..Len(t) - 1 /\ t[m] = "exit"
    BY <1>1
  <2> QED BY <2>1 DEF HasExit
<1>6. k # "exit" /\ HasExit(t) => HasExit(s)
  <2> SUFFICES ASSUME k # "exit", NEW m \in 1..Len(t) - 1, t[m] = "exit" PROVE HasExit(s)
    BY DEF HasExit
  <2>1. m \in 1..Len(s) /\ s[m] = "exit"
    BY <1>1, <1>2, <1>4
  <2>2. m \in 1..Len(s) - 1
    BY <1>1, <1>3, <2>1
  <2> QED BY <2>1, <2>2 DEF HasExit
<1>7. k = "exit" => HasExit(t)
  <2>1. k = "exit" => Len(s) + 1 \in 1..Len(t) - 1
    BY <1>1, <1>2
  <2> QED BY <1>1, <2>1 DEF HasExit
<1>8. CloseLast(t) /\ (k # "close" => Unclosed(t))
  BY <1>1, <1>2, <1>4 DEF CloseLast, Unclosed
<1> QED BY <1>5, <1>6, <1>7, <1>8 DEF t

LEMMA ExitCut ==
  ASSUME NEW s \in Seq(Tokens), NEW k \in WithBody, Framed(s, "open"), Unclosed(s)
  PROVE  LET t == s \o <<k>> IN (HasExit(t) <=> HasExit(s)) /\ Unclosed(t)
<1> DEFINE t == s \o <<k>>
<1>1. Len(t) = Len(s) + 1 /\ Len(s) \in Nat /\ t[Len(s) + 1] = k
      /\ \A i \in 1..Len(s) : t[i] = s[i]
  BY CutFacts, LenProperties DEF Heads
<1> HIDE DEF t
<1>2. "exit" \in WithBody /\ k # "close"
  BY DEF WithBody
<1>3. \A i \in 1..Len(s) : s[i] = "exit" => i \in 1..Len(s) - 1
  BY <1>1, <1>2 DEF Framed
<1>4. HasExit(t) <=> HasExit(s)
  BY <1>1, <1>3 DEF HasExit
<1>5. Unclosed(t)
  BY <1>1, <1>2 DEF Unclosed
<1> QED BY <1>4, <1>5 DEF t

LEMMA ExitParts ==
  ExitInv <=>
    /\ exited => server \in {"run", "close", "shutdown", "join", "over"}
    /\ server \in {"close", "shutdown", "join"} => exited
    /\ exited <=> exitSeen \/ HasExit(wire["down"])
    /\ CloseLast(wire["down"])
    /\ Unclosed(wire["down"]) \/ (exited /\ server \in {"shutdown", "join", "over"})
    /\ result = "exit" => exitSeen
    /\ result = "no exit" => ~exited /\ end["down"] # "open"
BY DEF ExitInv, CloseLast, Unclosed

(* What a reader takes whole has its body behind its head. *)
LEMMA TookWhole ==
  ASSUME StreamType, NEW d \in Dirs, NEW k \in Heads, Took(d, k), Framed(wire[d], end[d])
  PROVE  /\ wire[d] \in Seq(Tokens) /\ wire[d][1] = k /\ Size(k) <= Len(wire[d])
         /\ Size(k) \in {1, 2} /\ (Size(k) = 2 <=> k \in WithBody)
         /\ Size(k) = 2 => wire[d][2] = Body
         /\ wire'[d] = SubSeq(wire[d], Size(k) + 1, Len(wire[d]))
<1>1. /\ wire[d] \in Seq(Tokens) /\ wire[d][1] = k /\ Size(k) <= Len(wire[d])
      /\ Size(k) \in {1, 2} /\ (Size(k) = 2 <=> k \in WithBody)
      /\ wire'[d] = SubSeq(wire[d], Size(k) + 1, Len(wire[d]))
  BY KnownHeads DEF Took, At, StreamType
<1>2. Len(wire[d]) \in Nat
  BY <1>1, LenProperties
<1>3. Size(k) = 2 => wire[d][2] = Body
  BY <1>1, <1>2 DEF Framed
<1> QED BY <1>1, <1>3

LEMMA ExitStep ==
  ASSUME Inv, Next
  PROVE  ExitInv'
<1>0. TypeOK /\ RunInv /\ ExitInv /\ StreamType /\ Down /\ Onward
  BY Typed, DownStep DEF Inv
<1> DEFINE s == wire["down"]
           t == wire'["down"]
<1>1. /\ exited => server \in {"run", "close", "shutdown", "join", "over"}
      /\ server \in {"close", "shutdown", "join"} => exited
      /\ exited <=> exitSeen \/ HasExit(s)
      /\ CloseLast(s)
      /\ Unclosed(s) \/ (exited /\ server \in {"shutdown", "join", "over"})
      /\ result = "exit" => exitSeen
      /\ result = "no exit" => ~exited /\ end["down"] # "open"
  BY <1>0, ExitParts
<1>2. s \in Seq(Tokens) /\ Framed(s, end["down"]) /\ "down" \in Dirs /\ Len(s) \in Nat
  BY <1>0, LenProperties DEF StreamType, RunInv, Dirs
<1> DEFINE Goal ==
      /\ exited' => server' \in {"run", "close", "shutdown", "join", "over"}
      /\ server' \in {"close", "shutdown", "join"} => exited'
      /\ exited' <=> exitSeen' \/ HasExit(t)
      /\ CloseLast(t)
      /\ Unclosed(t) \/ (exited' /\ server' \in {"shutdown", "join", "over"})
      /\ result' = "exit" => exitSeen'
      /\ result' = "no exit" => ~exited' /\ end'["down"] # "open"
<1>3. Goal => ExitInv'
  BY DEF ExitInv, CloseLast, Unclosed, HasExit
<1> HIDE DEF s, t
<1>4. ASSUME Quiet PROVE Goal
  <2>1. t = s /\ exited' = exited /\ exitSeen' = exitSeen /\ result' = result
        /\ (end["down"] # "open" => end'["down"] = end["down"])
    BY <1>4 DEF Quiet, Said, s, t
  <2> QED BY <1>0, <1>1, <2>1 DEF Onward
<1>5. ASSUME NEW k \in {"confirmation", "failure-open", "success", "failure", "eof"},
             Spoke(k), UNCHANGED Said, server \notin {"shutdown", "join", "over"}
      PROVE  Goal
  <2>1. t = s \o Message(k) /\ exited' = exited /\ exitSeen' = exitSeen /\ result' = result
        /\ end["down"] = "open" /\ k \in Heads
    BY <1>5, KnownHeads DEF Spoke, Said, s, t, Later
  <2>2. (HasExit(t) <=> HasExit(s)) /\ CloseLast(t) /\ Unclosed(t)
    BY <1>1, <1>2, <1>5, <2>1, ExitPut
  <2> QED BY <1>0, <1>1, <2>1, <2>2 DEF Onward
<1>6. ASSUME SpokeExit PROVE Goal
  <2>1. t = s \o Message("exit") /\ exited' = TRUE /\ exitSeen' = exitSeen /\ result' = result
        /\ end["down"] = "open" /\ "exit" \in Heads /\ server = "run" /\ server' = "run" /\ ~exited
    BY <1>6, KnownHeads DEF SpokeExit, Spoke, s, t
  <2>2. HasExit(t) /\ CloseLast(t) /\ Unclosed(t)
    <3>1. Unclosed(s) /\ Framed(s, "open") /\ "exit" # "close"
      BY <1>1, <1>2, <2>1
    <3> QED BY <1>2, <2>1, <3>1, ExitPut
  <2> QED BY <1>1, <2>1, <2>2
<1>7. ASSUME SpokeClose PROVE Goal
  <2>1. t = s \o Message("close") /\ exited' = exited /\ exitSeen' = exitSeen /\ result' = result
        /\ end["down"] = "open" /\ "close" \in Heads /\ server = "close" /\ server' = "shutdown"
    BY <1>7, KnownHeads DEF SpokeClose, Spoke, Said, s, t, Later
  <2>2. (HasExit(t) <=> HasExit(s)) /\ CloseLast(t)
    BY <1>1, <1>2, <2>1, ExitPut
  <2> QED BY <1>1, <2>1, <2>2
<1>8. ASSUME NEW k \in Output, SpokeOutput(k) PROVE Goal
  <2>1. t = s \o Message(k) /\ exited' = exited /\ exitSeen' = exitSeen /\ result' = result
        /\ end["down"] = "open" /\ k \in Heads /\ k \notin {"exit", "close"}
        /\ server \in {"start", "run"} /\ server' = "run"
    BY <1>8, KnownHeads DEF SpokeOutput, Spoke, s, t, Output
  <2>2. (HasExit(t) <=> HasExit(s)) /\ CloseLast(t) /\ Unclosed(t)
    BY <1>1, <1>2, <2>1, ExitPut
  <2> QED BY <1>1, <2>1, <2>2
<1>9. ASSUME NEW k \in {"confirmation", "success", "failure", "eof"} \cup Output,
             Took("down", k), server' = server, UNCHANGED <<exited, exitSeen, result>>
      PROVE  Goal
  <2>1. k \in Heads /\ k # "exit"
    BY KnownHeads DEF Later, Output
  <2>2. /\ s[1] = k /\ Size(k) <= Len(s) /\ Size(k) \in {1, 2} /\ (Size(k) = 2 => s[2] = Body)
        /\ t = SubSeq(s, Size(k) + 1, Len(s)) /\ end' = end
    BY <1>0, <1>2, <1>9, <2>1, TookWhole DEF s, t, Took
  <2>3. (HasExit(t) <=> HasExit(s)) /\ CloseLast(t) /\ (Unclosed(s) => Unclosed(t))
    <3>1. s[1] # "exit" /\ CloseLast(s)
      BY <1>1, <2>1, <2>2
    <3> QED BY <1>2, <2>2, <3>1, ExitTake
  <2> QED BY <1>1, <1>9, <2>2, <2>3
<1>10. ASSUME HeardExit PROVE Goal
  <2>1. Took("down", "exit") /\ "exit" \in Heads /\ "exit" \in WithBody
    BY <1>10, KnownHeads DEF HeardExit, WithBody
  <2>2. /\ s[1] = "exit" /\ Size("exit") <= Len(s) /\ Size("exit") = 2 /\ s[2] = Body
        /\ t = SubSeq(s, 2 + 1, Len(s)) /\ end' = end
    BY <1>0, <1>2, <2>1, TookWhole DEF s, t, Took
  <2>3. HasExit(s) /\ CloseLast(t) /\ (Unclosed(s) => Unclosed(t))
    BY <1>1, <1>2, <2>2, ExitTake
  <2>4. server' = server /\ exitSeen' = TRUE /\ exited' = exited /\ result' = result
    BY <1>10 DEF HeardExit
  <2> QED BY <1>1, <2>2, <2>3, <2>4
<1>11. ASSUME NEW cut \in SUBSET WithBody, Hangs(cut) PROVE Goal
  <2>1. /\ exited' = exited /\ exitSeen' = exitSeen /\ result' = result /\ server' = "over"
        /\ end'["down"] # "open"
    BY <1>11 DEF Hangs, Said, Dropped
  <2>2. CASE t = s
    BY <1>1, <2>1, <2>2
  <2>3. CASE end["down"] = "open" /\ \E k \in cut : t = s \o <<k>>
    <3>1. PICK k \in cut : t = s \o <<k>>
      BY <2>3
    <3>2. Unclosed(s)
      BY <1>1, <1>11, <3>1 DEF Hangs
    <3>3. (HasExit(t) <=> HasExit(s)) /\ Unclosed(t)
      BY <1>2, <2>3, <3>1, <3>2, ExitCut
    <3>4. CloseLast(t)
      BY <3>3 DEF Unclosed, CloseLast
    <3> QED BY <1>1, <2>1, <3>3, <3>4
  <2> QED BY <1>11, <2>2, <2>3 DEF Hangs, Dropped, Kept, s, t
<1>12. ASSUME NEW r \in Failures, NEW cut \in SUBSET Heads, Leaves(r, cut) PROVE Goal
  <2>1. /\ exited' = exited /\ exitSeen' = exitSeen /\ result' = r /\ server' = server
        /\ t = s /\ end'["down"] = end["down"] /\ (r = "exit" => exitSeen)
    BY <1>12 DEF Leaves, serverVars, Dropped, Kept, Other, s, t
  <2>2. ASSUME r = "no exit" PROVE ~exited /\ end["down"] # "open"
    <3>1. /\ ~exitSeen
          /\ CleanEnd("down") \/ At("down", "close") \/ (Broken("down") /\ end["down"] = "fin")
      BY <1>12, <2>2 DEF Leaves
    <3>2. Len(s) <= 1 => ~HasExit(s)
      BY <1>2 DEF HasExit
    <3>3. CASE At("down", "close")
      <4>1. 1 \in 1..Len(s) /\ s[1] = "close"
        BY <1>2, <3>3, EmptySeq DEF At, s
      <4>2. Len(s) = 1 /\ exited
        BY <1>1, <4>1 DEF CloseLast, Unclosed
      <4>3. ~HasExit(s)
        BY <3>2, <4>2
      <4>4. ~exited
        BY <1>1, <3>1, <4>3
      <4> QED BY <4>2, <4>4
    <3>4. CASE CleanEnd("down")
      <4>1. Len(s) = 0 /\ end["down"] = "fin"
        BY <1>2, <3>4, EmptySeq DEF CleanEnd, s
      <4>3. ~HasExit(s)
        BY <3>2, <4>1
      <4>4. ~exited
        BY <1>1, <3>1, <4>3
      <4> QED BY <4>1, <4>4
    <3>5. CASE Broken("down") /\ end["down"] = "fin"
      <4>1. Len(s) = 1
        BY <3>5 DEF Broken, s
      <4>3. ~HasExit(s)
        BY <3>2, <4>1
      <4>4. ~exited
        BY <1>1, <3>1, <4>3
      <4> QED BY <3>5, <4>1, <4>4
    <3> QED BY <3>1, <3>3, <3>4, <3>5
  <2> QED BY <1>1, <2>1, <2>2
<1> HIDE DEF Goal
<1>13. SpokeOther => Goal
  BY <1>5 DEF SpokeOther
<1>14. HeardOther => Goal
  BY <1>9 DEF HeardOther, Said
<1>15. ASSUME NEW k \in Output, HeardOutput(k) PROVE Goal
  BY <1>9, <1>15 DEF HeardOutput
<1> QED BY <1>0, <1>3, <1>4, <1>6, <1>7, <1>8, <1>10, <1>11, <1>12, <1>13, <1>14, <1>15 DEF Down
-----------------------------------------------------------------------------
(* The output. *)
LEMMA DownFramed ==
  ASSUME Inv, Next
  PROVE  Framed(wire'["down"], end'["down"])
<1>0. RunInv /\ StreamType /\ Down
  BY Typed, DownStep DEF Inv
<1> DEFINE s == wire["down"]
<1>1. s \in Seq(Tokens) /\ Framed(s, end["down"]) /\ "down" \in Dirs
  BY <1>0 DEF StreamType, RunInv, Dirs
<1> DEFINE Goal == Framed(wire'["down"], end'["down"])
<1>2. ASSUME Quiet PROVE Goal
  BY <1>1, <1>2, FramedEnd DEF Quiet
<1>3. ASSUME NEW k \in Heads, Spoke(k) PROVE Goal
  BY <1>1, <1>3, FramedPut DEF Spoke
<1>4. ASSUME NEW k \in Heads, Took("down", k) PROVE Goal
  BY <1>0, <1>1, <1>4, FrameStep
<1>5. ASSUME NEW cut \in SUBSET WithBody, Hangs(cut) PROVE Goal
  <2>1. Dropped("down", cut) /\ cut \in SUBSET Heads
    BY <1>5 DEF Hangs, Heads
  <2> QED BY <1>0, <1>1, <2>1, FrameStep
<1>6. ASSUME NEW q \in Failures, NEW cut \in SUBSET Heads, Leaves(q, cut) PROVE Goal
  BY <1>1, <1>6 DEF Leaves, Dropped, Kept, Other
<1> HIDE DEF Goal
<1>7. SpokeOther \/ SpokeExit \/ SpokeClose \/ (\E k \in Output : SpokeOutput(k)) =>
        \E k \in Heads : Spoke(k)
  BY KnownHeads DEF SpokeOther, SpokeExit, SpokeClose, SpokeOutput, Later
<1>8. HeardOther \/ HeardExit \/ (\E k \in Output : HeardOutput(k)) =>
        \E k \in Heads : Took("down", k)
  BY KnownHeads DEF HeardOther, HeardExit, HeardOutput, Later
<1> QED BY <1>0, <1>2, <1>3, <1>4, <1>5, <1>6, <1>7, <1>8 DEF Down, Goal

LEMMA OutputStep ==
  ASSUME Inv, Next
  PROVE  OutputInv'
<1>0. TypeOK /\ RunInv /\ ExitInv /\ OutputInv /\ StreamType /\ Down /\ Onward
  BY Typed, DownStep DEF Inv
<1> DEFINE s == wire["down"]
           t == wire'["down"]
           m == Len(shown)
<1>1. /\ s \in Seq(Tokens) /\ Framed(s, end["down"]) /\ "down" \in Dirs /\ Len(s) \in Nat
      /\ written \in Seq(Output) /\ shown \in Seq(Output) /\ m \in Nat /\ Len(written) \in Nat
      /\ client = "done" <=> result # None
  BY <1>0, LenProperties DEF StreamType, RunInv, Dirs, TypeOK
<1>2. /\ m <= Len(written)
      /\ \A i \in 1..m : shown[i] = written[i]
      /\ Queued(s, written, m)
      /\ result \in {"exit", "no exit"} /\ end["down"] # "reset" =>
           Len(shown) = Len(written) /\ (end["down"] = "fin" \/ server \in {"shutdown", "join", "over"})
  BY <1>0 DEF OutputInv
<1>20. m \in Nat /\ Len(written) \in Nat /\ m <= Len(written)
  BY <1>1, <1>2
<1> DEFINE Goal ==
      /\ Len(shown') <= Len(written')
      /\ \A i \in 1..Len(shown') : shown'[i] = written'[i]
      /\ Queued(t, written', Len(shown'))
      /\ result' \in {"exit", "no exit"} /\ end'["down"] # "reset" =>
           /\ Len(shown') = Len(written')
           /\ end'["down"] = "fin" \/ server' \in {"shutdown", "join", "over"}
<1>3. Goal => OutputInv'
  BY DEF OutputInv
<1> HIDE DEF s, t
<1>4. ASSUME UNCHANGED <<shown, written, result>>, Queued(t, written, m),
             end["down"] # "open" => end'["down"] = end["down"]
      PROVE  Goal
  <2>1. shown' = shown /\ written' = written /\ result' = result
    BY <1>4
  <2>2. server \in {"shutdown", "join", "over"} => server' \in {"shutdown", "join", "over"}
    BY <1>0 DEF Onward
  <2>3. Len(shown') <= Len(written') /\ (\A i \in 1..Len(shown') : shown'[i] = written'[i])
        /\ Queued(t, written', Len(shown'))
    BY <1>2, <1>4, <2>1
  <2>4. ASSUME result' \in {"exit", "no exit"}, end'["down"] # "reset"
        PROVE  /\ Len(shown') = Len(written')
               /\ end'["down"] = "fin" \/ server' \in {"shutdown", "join", "over"}
    BY <1>2, <1>4, <2>1, <2>2, <2>4
  <2> QED BY <2>3, <2>4
<1>5. ASSUME Quiet PROVE Goal
  <2>1. t = s /\ UNCHANGED <<shown, written, result>>
        /\ (end["down"] # "open" => end'["down"] = end["down"])
    BY <1>5 DEF Quiet, Said, s, t
  <2>2. Queued(t, written, m)
    BY <1>2, <2>1
  <2> QED BY <1>4, <2>1, <2>2
<1>6. ASSUME NEW k \in Heads \ Output, Spoke(k), UNCHANGED <<shown, written, result>> PROVE Goal
  <2>1. t = s \o Message(k) /\ end["down"] = "open"
    BY <1>6 DEF Spoke, s, t
  <2>2. Queued(t, written, m)
    BY <1>1, <1>2, <2>1, QueuedPut
  <2> QED BY <1>4, <1>6, <2>1, <2>2
<1>7. ASSUME NEW k \in Output, SpokeOutput(k) PROVE Goal
  <2>1. /\ t = s \o Message(k) /\ end["down"] = "open" /\ end'["down"] = "open"
        /\ shown' = shown /\ result' = result /\ written' = Append(written, k)
        /\ server \in {"start", "run"}
    BY <1>7 DEF SpokeOutput, Spoke, s, t
  <2>2. Queued(t, written', m)
    BY <1>1, <1>2, <2>1, QueuedWrite
  <2>3. Len(written') = Len(written) + 1 /\ \A i \in 1..Len(written) : written'[i] = written[i]
    BY <1>1, <2>1, AppendProperties
  <2>4. result \notin {"exit", "no exit"}
    BY <1>2, <2>1
  <2>5. ASSUME NEW i \in 1..m PROVE shown[i] = written'[i]
    <3>1. i \in 1..Len(written)
      BY <1>20
    <3> QED BY <1>2, <2>3, <3>1
  <2>6. m <= Len(written')
    BY <1>20, <2>3
  <2> QED BY <2>1, <2>2, <2>4, <2>5, <2>6
<1>8. ASSUME NEW k \in Heads \ Output, Took("down", k), UNCHANGED <<shown, written, result>>
      PROVE  Goal
  <2>1. /\ s[1] = k /\ Size(k) <= Len(s) /\ Size(k) \in {1, 2} /\ (Size(k) = 2 => s[2] = Body)
        /\ t = SubSeq(s, Size(k) + 1, Len(s)) /\ end' = end
    BY <1>0, <1>1, <1>8, TookWhole DEF s, t, Took
  <2>2. Queued(t, written, m)
    <3>1. s[1] \notin Output
      BY <2>1
    <3> QED BY <1>1, <1>2, <2>1, <3>1, QueuedTake
  <2> QED BY <1>4, <1>8, <2>1, <2>2
<1>9. ASSUME NEW k \in Output, HeardOutput(k) PROVE Goal
  <2>0. k \in Heads /\ k \in WithBody /\ Took("down", k)
    BY <1>9, KnownHeads DEF HeardOutput, Output, WithBody
  <2>1. /\ s[1] = k /\ 2 <= Len(s) /\ s[2] = Body
        /\ t = SubSeq(s, 3, Len(s))
    <3>1. /\ s[1] = k /\ Size(k) <= Len(s) /\ Size(k) = 2 /\ s[2] = Body
          /\ t = SubSeq(s, Size(k) + 1, Len(s))
      BY <1>0, <1>1, <2>0, TookWhole DEF s, t
    <3> QED BY <3>1
  <2>2. m < Len(written) /\ written[m + 1] = k /\ Queued(t, written, m + 1)
    <3>1. s[1] \in Output
      BY <2>1
    <3> QED BY <1>1, <1>2, <2>1, <3>1, QueuedShow
  <2>3. /\ shown' = Append(shown, k) /\ written' = written /\ result' = result /\ client = "run"
    BY <1>9 DEF HeardOutput
  <2>4. Len(shown') = m + 1 /\ shown'[m + 1] = k /\ \A i \in 1..m : shown'[i] = shown[i]
    BY <1>1, <2>3, AppendProperties
  <2>5. result \notin {"exit", "no exit"}
    BY <1>1, <2>3 DEF None
  <2>6. ASSUME NEW i \in 1..Len(shown') PROVE shown'[i] = written'[i]
    <3>1. i \in 1..m \/ i = m + 1
      BY <1>1, <2>4
    <3> QED BY <1>2, <2>2, <2>3, <2>4, <3>1
  <2>7. Queued(t, written', Len(shown'))
    BY <2>2, <2>3, <2>4
  <2>8. Len(shown') <= Len(written')
    BY <1>1, <2>2, <2>3, <2>4
  <2> QED BY <2>3, <2>5, <2>6, <2>7, <2>8
<1>10. ASSUME NEW cut \in SUBSET WithBody, Hangs(cut) PROVE Goal
  <2>1. /\ UNCHANGED <<shown, written, result>>
        /\ end["down"] # "open" => end'["down"] = end["down"]
    BY <1>10 DEF Hangs, Said, Dropped, Kept
  <2>2. CASE t = s
    <3>1. Queued(t, written, m)
      BY <1>2, <2>2
    <3> QED BY <1>4, <2>1, <3>1
  <2>3. CASE end["down"] = "open" /\ \E k \in cut : t = s \o <<k>>
    <3>1. PICK k \in cut : t = s \o <<k>>
      BY <2>3
    <3>2. k \in Heads
      BY DEF Heads
    <3>3. Queued(t, written, m)
      BY <1>1, <1>2, <2>3, <3>1, <3>2, QueuedCut
    <3> QED BY <1>4, <2>1, <3>3
  <2> QED BY <1>10, <2>2, <2>3 DEF Hangs, Dropped, Kept, s, t
<1>11. ASSUME NEW r \in Failures, NEW cut \in SUBSET Heads, Leaves(r, cut) PROVE Goal
  <2>1. /\ shown' = shown /\ written' = written /\ result' = r /\ server' = server
        /\ t = s /\ end'["down"] = end["down"]
    BY <1>11 DEF Leaves, serverVars, Dropped, Kept, Other, s, t
  <2>2. ASSUME r \in {"exit", "no exit"}, end["down"] # "reset"
        PROVE  m = Len(written) /\ (end["down"] = "fin" \/ server \in {"shutdown", "join", "over"})
    <3>1. CleanEnd("down") \/ At("down", "close") \/ Broken("down") \/ Misplaced("down", Heads)
      BY <1>11, <2>2 DEF Leaves
    <3>2. Len(s) <= 1 => m = Len(written)
      <4>1. Len(s) <= 1 => \A n \in 1..Len(s) - 1 : s[n] \notin Output
        BY <1>1
      <4> QED BY <1>1, <1>2, <4>1, QueuedNone
    <3>3. CASE CleanEnd("down")
      <4>1. Len(s) = 0 /\ end["down"] = "fin"
        BY <1>1, <3>3, EmptySeq DEF CleanEnd, s
      <4> QED BY <3>2, <4>1
    <3>4. CASE At("down", "close")
      <4>1. 1 \in 1..Len(s) /\ s[1] = "close"
        BY <1>1, <3>4, EmptySeq DEF At, s
      <4>2. Len(s) = 1 /\ server \in {"shutdown", "join", "over"}
        BY <1>0, <4>1 DEF ExitInv, s
      <4> QED BY <3>2, <4>2
    <3>5. CASE Broken("down")
      <4>1. Len(s) = 1 /\ end["down"] = "fin"
        BY <2>2, <3>5 DEF Broken, s
      <4> QED BY <3>2, <4>1
    <3>6. CASE Misplaced("down", Heads)
      <4>1. s # <<>> /\ s[1] \notin Heads
        BY <3>6 DEF Misplaced, s
      <4>2. 1 \in 1..Len(s)
        BY <1>1, <4>1, EmptySeq
      <4>3. s[1] \in Tokens
        BY <1>1, <4>2
      <4>4. s[1] = Body
        BY <4>1, <4>3 DEF Tokens
      <4> QED BY <1>1, <4>2, <4>4 DEF Framed
    <3> QED BY <3>1, <3>3, <3>4, <3>5, <3>6
  <2>3. Len(shown') <= Len(written') /\ (\A i \in 1..Len(shown') : shown'[i] = written'[i])
        /\ Queued(t, written', Len(shown'))
    BY <1>2, <2>1
  <2>4. ASSUME result' \in {"exit", "no exit"}, end'["down"] # "reset"
        PROVE  /\ Len(shown') = Len(written')
               /\ end'["down"] = "fin" \/ server' \in {"shutdown", "join", "over"}
    BY <2>1, <2>2, <2>4
  <2> QED BY <2>3, <2>4
<1> HIDE DEF Goal
<1>12. SpokeOther \/ SpokeExit \/ SpokeClose => Goal
  <2>1. {"confirmation", "failure-open", "success", "failure", "eof", "exit", "close"}
          \subseteq Heads \ Output
    BY KnownHeads DEF Later, Output
  <2> QED BY <1>6, <2>1 DEF SpokeOther, SpokeExit, SpokeClose, Said
<1>13. HeardOther \/ HeardExit => Goal
  <2>1. {"confirmation", "success", "failure", "eof", "exit"} \subseteq Heads \ Output
    BY KnownHeads DEF Later, Output
  <2> QED BY <1>8, <2>1 DEF HeardOther, HeardExit, Said
<1> QED BY <1>0, <1>3, <1>5, <1>7, <1>9, <1>10, <1>11, <1>12, <1>13 DEF Down
-----------------------------------------------------------------------------
(* The stream from the client to the server: pure facts. *)
OnlyInput(s) == \A n \in 1..Len(s) : s[n] \in Later \cup {Body}

LEMMA InputTake ==
  ASSUME NEW s \in Seq(Tokens), NEW n \in {1, 2}, n <= Len(s)
  PROVE  LET t == SubSeq(s, n + 1, Len(s)) IN
         /\ OnlyInput(s) => OnlyInput(t)
         /\ DataWhole(s) => DataWhole(t)
         /\ \A i \in 1..Len(t) : i + n \in 1..Len(s) /\ t[i] = s[i + n]
<1> DEFINE t == SubSeq(s, n + 1, Len(s))
<1>1. Len(t) = Len(s) - n /\ (\A i \in 1..Len(t) : t[i] = s[i + n]) /\ Len(s) \in Nat
  BY TakeFacts, LenProperties
<1> HIDE DEF t
<1>2. ASSUME NEW i \in 1..Len(t)
      PROVE  i + n \in 1..Len(s) /\ t[i] = s[i + n] /\ (i + n < Len(s) => i < Len(t))
  BY <1>1
<1>3. OnlyInput(s) => OnlyInput(t)
  BY <1>2 DEF OnlyInput
<1>4. DataWhole(s) => DataWhole(t)
  BY <1>2 DEF DataWhole
<1> QED BY <1>2, <1>3, <1>4 DEF t

LEMMA InputPut ==
  ASSUME NEW s \in Seq(Tokens), NEW k \in Heads
  PROVE  LET t == s \o Message(k) IN
         /\ OnlyInput(s) /\ k \in Later => OnlyInput(t)
         /\ DataWhole(s) => DataWhole(t)
         /\ \A i \in 1..Len(t) : \/ i \in 1..Len(s) /\ t[i] = s[i]
                                 \/ i = Len(s) + 1 /\ t[i] = k
                                 \/ i = Len(s) + 2 /\ t[i] = Body
<1> DEFINE t == s \o Message(k)
<1>1. /\ Len(t) = Len(s) + Size(k) /\ Len(s) \in Nat /\ Size(k) \in {1, 2}
      /\ \A i \in 1..Len(s) : t[i] = s[i]
      /\ t[Len(s) + 1] = k /\ (k \in WithBody => t[Len(s) + 2] = Body)
      /\ Size(k) = 2 <=> k \in WithBody
  BY PutFacts, LenProperties
<1> HIDE DEF t
<1>2. "data" \in WithBody /\ Body # "data"
  BY DEF WithBody, Body
<1>3. ASSUME NEW i \in 1..Len(t)
      PROVE  \/ i \in 1..Len(s) /\ t[i] = s[i]
             \/ i = Len(s) + 1 /\ t[i] = k
             \/ i = Len(s) + 2 /\ t[i] = Body
  BY <1>1
<1>4. OnlyInput(s) /\ k \in Later => OnlyInput(t)
  BY <1>3 DEF OnlyInput
<1>5. DataWhole(s) => DataWhole(t)
  BY <1>1, <1>2, <1>3 DEF DataWhole
<1> QED BY <1>3, <1>4, <1>5 DEF t

LEMMA InputCut ==
  ASSUME NEW s \in Seq(Tokens), NEW k \in Heads
  PROVE  LET t == s \o <<k>> IN
         /\ OnlyInput(s) /\ k \in Later => OnlyInput(t)
         /\ \A i \in 1..Len(t) : \/ i \in 1..Len(s) /\ t[i] = s[i]
                                 \/ i = Len(s) + 1 /\ t[i] = k
<1> DEFINE t == s \o <<k>>
<1>1. /\ Len(t) = Len(s) + 1 /\ Len(s) \in Nat
      /\ (\A i \in 1..Len(s) : t[i] = s[i]) /\ t[Len(s) + 1] = k
  BY CutFacts, LenProperties
<1> HIDE DEF t
<1>2. ASSUME NEW i \in 1..Len(t)
      PROVE  \/ i \in 1..Len(s) /\ t[i] = s[i]
             \/ i = Len(s) + 1 /\ t[i] = k
  BY <1>1
<1>3. OnlyInput(s) /\ k \in Later => OnlyInput(t)
  BY <1>2 DEF OnlyInput
<1> QED BY <1>2, <1>3 DEF t

LEMMA NothingLeft == Len(<<>>) = 0 /\ Chunks(<<>>) = {} /\ Cardinality(Chunks(<<>>)) = 0
                     /\ OnlyInput(<<>>) /\ DataWhole(<<>>) /\ Framed(<<>>, "open") 
<1>1. Len(<<>>) = 0
  OBVIOUS
<1>2. Chunks(<<>>) = {}
  BY <1>1 DEF Chunks
<1> QED BY <1>1, <1>2, FS_EmptySet DEF OnlyInput, DataWhole, Framed

(* Steps that leave that stream alone, or only end it. *)
UpStill ==
  /\ wire'["up"] = wire["up"] /\ typed' = typed /\ fed' = fed /\ inputEof' = inputEof
  /\ end["up"] # "open" => end'["up"] = end["up"]
  /\ server' \in Running /\ input' # "done" => server \in Running /\ input # "done"
  /\ input = "done" => input' = "done"
Idle ==
  /\ UpStill
  /\ client \in {"run", "done"} => client' = client
  /\ client \notin {"run", "done"} => client' \notin {"run", "done"}
  /\ stdin # "read" => stdin' # "read"
  /\ stdin \notin {"read", "eof"} => stdin' \notin {"read", "eof"}

Up == \/ Idle \/ ReadReply \/ OpenChannel \/ SendRequest \/ SendInput \/ SendResize
      \/ SendLast("eof", "close") \/ SendLast("close", "shutdown")
      \/ (\E q \in Failures, cut \in SUBSET Heads : Leaves(q, cut))
      \/ AcceptChannel \/ (\E r \in Requests \ {"unknown"} : SetupRequest(r)) \/ SetupIgnores
      \/ FeedData \/ FeedResize \/ FeedEnds

LEMMA UpStep ==
  ASSUME Inv, Next
  PROVE  Up
<1>0. TypeOK /\ PlanInv /\ OpenInv /\ SetupInv /\ RunInv /\ StreamType
  BY Typed DEF Inv
<1> USE <1>0
<1>1. ASSUME OpenChannel PROVE Up
  BY <1>1 DEF Up
<1>2. ASSUME Confirmed PROVE Up
  <2>1. Idle
    BY <1>2, ClientEffects DEF Confirmed, Idle, UpStill, Wrote, Took, Still,
       Ended, Other, Kept, clientVars, serverVars, Dirs, Running, RunInv,
       TypeOK, None
  <2> QED BY <2>1 DEF Up
<1>3. ASSUME SendRequest PROVE Up
  BY <1>3 DEF Up
<1>4. ASSUME ReadReply PROVE Up
  BY <1>4 DEF Up
<1>5. ASSUME SendInput PROVE Up
  BY <1>5 DEF Up
<1>6. ASSUME SendResize PROVE Up
  BY <1>6 DEF Up
<1>7. ASSUME StdinEnds PROVE Up
  <2>1. Idle
    BY <1>7, ClientEffects DEF StdinEnds, Idle, UpStill, Wrote, Took, Still,
       Ended, Other, Kept, clientVars, serverVars, Dirs, Running, RunInv,
       TypeOK, None
  <2> QED BY <2>1 DEF Up
<1>8. ASSUME SendLast("eof", "close") PROVE Up
  BY <1>8 DEF Up
<1>9. ASSUME SendLast("close", "shutdown") PROVE Up
  BY <1>9 DEF Up
<1>10. ASSUME ShutdownWriter PROVE Up
  <2>1. Idle
    BY <1>10, ClientEffects DEF ShutdownWriter, Idle, UpStill, Wrote, Took,
       Still, Ended, Other, Kept, clientVars, serverVars, Dirs, Running,
       RunInv, TypeOK, None
  <2> QED BY <2>1 DEF Up
<1>11. ASSUME NEW k \in Output, ShowOutput(k) PROVE Up
  <2>1. Idle
    BY <1>11, OutputEffects DEF ShowOutput, Idle, UpStill, Wrote, Took, Still,
       Ended, Other, Kept, clientVars, serverVars, Dirs, Running, RunInv,
       TypeOK, None
  <2> QED BY <2>1 DEF Up
<1>12. ASSUME ReadExit PROVE Up
  <2>1. Idle
    BY <1>12, OutputEffects DEF ReadExit, Idle, UpStill, Wrote, Took, Still,
       Ended, Other, Kept, clientVars, serverVars, Dirs, Running, RunInv,
       TypeOK, None
  <2> QED BY <2>1 DEF Up
<1>13. ASSUME SkipEvent PROVE Up
  <2>1. Idle
    BY <1>13, OutputEffects DEF SkipEvent, Idle, UpStill, Wrote, Took, Still,
       Ended, Other, Kept, clientVars, serverVars, Dirs, Running, RunInv,
       TypeOK, None
  <2> QED BY <2>1 DEF Up
<1>14. ASSUME NEW q \in Failures, NEW cut \in SUBSET Heads, Leaves(q, cut) PROVE Up
  BY <1>14 DEF Up
<1>15. ASSUME AcceptChannel PROVE Up
  BY <1>15 DEF Up
<1>16. ASSUME Accept PROVE Up
  <2>1. Idle
    BY <1>16, ServerEffects DEF Accept, Idle, UpStill, Wrote, Took, Still,
       Ended, Other, Kept, clientVars, serverVars, Dirs, Running, RunInv,
       TypeOK, None
  <2> QED BY <2>1 DEF Up
<1>17. ASSUME Reject PROVE Up
  <2>1. Idle
    BY <1>17, ServerEffects DEF Reject, Idle, UpStill, Wrote, Took, Still,
       Ended, Other, Kept, clientVars, serverVars, Dirs, Running, RunInv,
       TypeOK, None
  <2> QED BY <2>1 DEF Up
<1>18. ASSUME NEW r \in Requests \ {"unknown"}, SetupRequest(r) PROVE Up
  BY <1>18 DEF Up
<1>19. ASSUME SetupIgnores PROVE Up
  BY <1>19 DEF Up
<1>20. ASSUME StartCommand PROVE Up
  <2>1. Idle
    BY <1>20, ServerEffects DEF StartCommand, Idle, UpStill, Wrote, Took,
       Still, Ended, Other, Kept, clientVars, serverVars, Dirs, Running,
       RunInv, TypeOK, None
  <2> QED BY <2>1 DEF Up
<1>21. ASSUME NEW k \in Output, WriteOutput(k) PROVE Up
  <2>1. Idle
    BY <1>21, ServerEffects DEF WriteOutput, Idle, UpStill, Wrote, Took, Still,
       Ended, Other, Kept, clientVars, serverVars, Dirs, Running, RunInv,
       TypeOK, None
  <2> QED BY <2>1 DEF Up
<1>22. ASSUME WriteExit PROVE Up
  <2>1. Idle
    BY <1>22, ServerEffects DEF WriteExit, Idle, UpStill, Wrote, Took, Still,
       Ended, Other, Kept, clientVars, serverVars, Dirs, Running, RunInv,
       TypeOK, None
  <2> QED BY <2>1 DEF Up
<1>23. ASSUME WriteEof PROVE Up
  <2>1. Idle
    BY <1>23, ServerEffects DEF WriteEof, Idle, UpStill, Wrote, Took, Still,
       Ended, Other, Kept, clientVars, serverVars, Dirs, Running, RunInv,
       TypeOK, None
  <2> QED BY <2>1 DEF Up
<1>24. ASSUME WriteClose PROVE Up
  <2>1. Idle
    BY <1>24, ServerEffects DEF WriteClose, Idle, UpStill, Wrote, Took, Still,
       Ended, Other, Kept, clientVars, serverVars, Dirs, Running, RunInv,
       TypeOK, None
  <2> QED BY <2>1 DEF Up
<1>25. ASSUME FinishStream PROVE Up
  <2>1. Idle
    BY <1>25, ServerEffects DEF FinishStream, Idle, UpStill, Wrote, Took,
       Still, Ended, Other, Kept, clientVars, serverVars, Dirs, Running,
       RunInv, TypeOK, None
  <2> QED BY <2>1 DEF Up
<1>26. ASSUME Complete PROVE Up
  <2>1. Idle
    BY <1>26, ServerEffects DEF Complete, Idle, UpStill, Wrote, Took, Still,
       Ended, Other, Kept, clientVars, serverVars, Dirs, Running, RunInv,
       TypeOK, None
  <2> QED BY <2>1 DEF Up
<1>27. ASSUME NEW cut \in SUBSET WithBody, GivesUp(cut) PROVE Up
  <2>1. Idle
    BY <1>27 DEF GivesUp, Idle, UpStill, Dropped, Kept, Other, clientVars,
       Running
  <2> QED BY <2>1 DEF Up
<1>28. ASSUME FeedData PROVE Up
  BY <1>28 DEF Up
<1>29. ASSUME FeedResize PROVE Up
  BY <1>29 DEF Up
<1>30. ASSUME FeedEnds PROVE Up
  BY <1>30 DEF Up
<1>31. ASSUME FeedStops PROVE Up
  <2>1. Idle
    BY <1>31, ServerEffects DEF FeedStops, Idle, UpStill, Wrote, Took, Still,
       Ended, Other, Kept, clientVars, serverVars, Dirs, Running, RunInv,
       TypeOK, None
  <2> QED BY <2>1 DEF Up
<1>32. ASSUME LoseConnection PROVE Up
  <2>1. Idle
    BY <1>32, FeedEffects DEF LoseConnection, Idle, UpStill, Wrote, Took,
       Still, Ended, Other, Kept, clientVars, serverVars, Dirs, Running,
       RunInv, TypeOK, None
  <2> QED BY <2>1 DEF Up
<1>33. StreamType
  BY Typed DEF Inv
<1> QED
  BY <1>1, <1>2, <1>3, <1>4, <1>5, <1>6, <1>7, <1>8, <1>9, <1>10, <1>11, <1>12,
     <1>13, <1>14, <1>15, <1>16, <1>17, <1>18, <1>19, <1>20, <1>21, <1>22,
     <1>23, <1>24, <1>25, <1>26, <1>27, <1>28, <1>29, <1>30, <1>31, <1>32,
     <1>33,
     NextCases, LeavesStep, GivesUpStep

(* The relays of the server run between the start of the command and the   *)
(* end of its task.                                                        *)
RelayInv ==
  /\ input = None <=> server \in {"listen", "accept", "reject", "rejected", "setup", "start"}
  /\ server = "over" => input = "done"
  /\ server \in {"join", "over"} => end["down"] # "open"
  /\ server \in Running => client \in {"reply", "run", "done"}

LEMMA RelayStep ==
  ASSUME Inv, Next
  PROVE  RelayInv'
<1>0. TypeOK /\ PlanInv /\ OpenInv /\ SetupInv /\ RelayInv /\ StreamType
  BY Typed DEF Inv, RunInv, RelayInv
<1> USE <1>0
<1>1. ASSUME OpenChannel PROVE RelayInv'
  BY <1>1, ClientEffects DEF OpenChannel, RelayInv, Wrote, Took, Still, Ended,
     Other, Kept, clientVars, serverVars, Dirs, Running, None, TypeOK,
     InputTakes, OpenInv, SetupInv
<1>2. ASSUME Confirmed PROVE RelayInv'
  <2>1. client = "confirm" /\ server' = server /\ input' = input /\ end' = end
    BY <1>2 DEF Confirmed, serverVars
  <2> QED BY <2>1 DEF RelayInv, Running
<1>3. ASSUME SendRequest PROVE RelayInv'
  BY <1>3, ClientEffects DEF SendRequest, RelayInv, Wrote, Took, Still, Ended,
     Other, Kept, clientVars, serverVars, Dirs, Running, None, TypeOK,
     InputTakes, OpenInv, SetupInv
<1>4. ASSUME ReadReply PROVE RelayInv'
  <2>1. client = "reply" /\ plan' = Tail(plan) /\ server' = server /\ input' = input /\ end' = end
        /\ client' = IF plan' = <<>> THEN "run" ELSE "setup"
    BY <1>4 DEF ReadReply, serverVars
  <2>2. server \in Running => client' = "run"
    BY <1>4, <2>1, PlanHead DEF SetupInv, Running, ReadReply
  <2> QED BY <2>1, <2>2 DEF RelayInv
<1>5. ASSUME SendInput PROVE RelayInv'
  BY <1>5, ClientEffects DEF SendInput, RelayInv, Wrote, Took, Still, Ended,
     Other, Kept, clientVars, serverVars, Dirs, Running, None, TypeOK,
     InputTakes
<1>6. ASSUME SendResize PROVE RelayInv'
  BY <1>6, ClientEffects DEF SendResize, RelayInv, Wrote, Took, Still, Ended,
     Other, Kept, clientVars, serverVars, Dirs, Running, None, TypeOK,
     InputTakes
<1>7. ASSUME StdinEnds PROVE RelayInv'
  BY <1>7, ClientEffects DEF StdinEnds, RelayInv, Wrote, Took, Still, Ended,
     Other, Kept, clientVars, serverVars, Dirs, Running, None, TypeOK,
     InputTakes
<1>8. ASSUME SendLast("eof", "close") PROVE RelayInv'
  BY <1>8, ClientEffects DEF SendLast, RelayInv, Wrote, Took, Still, Ended,
     Other, Kept, clientVars, serverVars, Dirs, Running, None, TypeOK,
     InputTakes
<1>9. ASSUME SendLast("close", "shutdown") PROVE RelayInv'
  BY <1>9, ClientEffects DEF SendLast, RelayInv, Wrote, Took, Still, Ended,
     Other, Kept, clientVars, serverVars, Dirs, Running, None, TypeOK,
     InputTakes
<1>10. ASSUME ShutdownWriter PROVE RelayInv'
  BY <1>10, ClientEffects DEF ShutdownWriter, RelayInv, Wrote, Took, Still,
     Ended, Other, Kept, clientVars, serverVars, Dirs, Running, None, TypeOK,
     InputTakes
<1>11. ASSUME NEW k \in Output, ShowOutput(k) PROVE RelayInv'
  BY <1>11, OutputEffects DEF ShowOutput, RelayInv, Wrote, Took, Still, Ended,
     Other, Kept, clientVars, serverVars, Dirs, Running, None, TypeOK,
     InputTakes
<1>12. ASSUME ReadExit PROVE RelayInv'
  BY <1>12, OutputEffects DEF ReadExit, RelayInv, Wrote, Took, Still, Ended,
     Other, Kept, clientVars, serverVars, Dirs, Running, None, TypeOK,
     InputTakes
<1>13. ASSUME SkipEvent PROVE RelayInv'
  BY <1>13, OutputEffects DEF SkipEvent, RelayInv, Wrote, Took, Still, Ended,
     Other, Kept, clientVars, serverVars, Dirs, Running, None, TypeOK,
     InputTakes
<1>14. ASSUME NEW q \in Failures, NEW cut \in SUBSET Heads, Leaves(q, cut) PROVE RelayInv'
  <2>1. server' = server /\ input' = input /\ client' = "done" /\ end'["down"] = end["down"]
    BY <1>14 DEF Leaves, Dropped, Kept, Other, serverVars
  <2> QED BY <2>1 DEF RelayInv
<1>15. ASSUME AcceptChannel PROVE RelayInv'
  BY <1>15, ServerEffects DEF AcceptChannel, RelayInv, Wrote, Took, Still,
     Ended, Other, Kept, clientVars, serverVars, Dirs, Running, None, TypeOK,
     InputTakes
<1>16. ASSUME Accept PROVE RelayInv'
  BY <1>16, ServerEffects DEF Accept, RelayInv, Wrote, Took, Still, Ended,
     Other, Kept, clientVars, serverVars, Dirs, Running, None, TypeOK,
     InputTakes
<1>17. ASSUME Reject PROVE RelayInv'
  BY <1>17, ServerEffects DEF Reject, RelayInv, Wrote, Took, Still, Ended,
     Other, Kept, clientVars, serverVars, Dirs, Running, None, TypeOK,
     InputTakes
<1>18. ASSUME NEW r \in Requests \ {"unknown"}, SetupRequest(r) PROVE RelayInv'
  <2>1. server = "setup" /\ server' \in {"start", "setup"} /\ client \in {"reply", "done"}
        /\ client' = client /\ input' = input
    BY <1>18, RequestRead DEF SetupRequest, clientVars
  <2> QED BY <2>1 DEF RelayInv, None
<1>19. ASSUME SetupIgnores PROVE RelayInv'
  BY <1>19, ServerEffects DEF SetupIgnores, Answered, RelayInv, Wrote, Took,
     Still, Ended, Other, Kept, clientVars, serverVars, Dirs, Running, None,
     TypeOK, InputTakes
<1>20. ASSUME StartCommand PROVE RelayInv'
  BY <1>20, ServerEffects DEF StartCommand, RelayInv, Wrote, Took, Still,
     Ended, Other, Kept, clientVars, serverVars, Dirs, Running, None, TypeOK,
     InputTakes
<1>21. ASSUME NEW k \in Output, WriteOutput(k) PROVE RelayInv'
  BY <1>21, ServerEffects DEF WriteOutput, RelayInv, Wrote, Took, Still, Ended,
     Other, Kept, clientVars, serverVars, Dirs, Running, None, TypeOK,
     InputTakes
<1>22. ASSUME WriteExit PROVE RelayInv'
  BY <1>22, ServerEffects DEF WriteExit, RelayInv, Wrote, Took, Still, Ended,
     Other, Kept, clientVars, serverVars, Dirs, Running, None, TypeOK,
     InputTakes
<1>23. ASSUME WriteEof PROVE RelayInv'
  BY <1>23, ServerEffects DEF WriteEof, RelayInv, Wrote, Took, Still, Ended,
     Other, Kept, clientVars, serverVars, Dirs, Running, None, TypeOK,
     InputTakes
<1>24. ASSUME WriteClose PROVE RelayInv'
  BY <1>24, ServerEffects DEF WriteClose, RelayInv, Wrote, Took, Still, Ended,
     Other, Kept, clientVars, serverVars, Dirs, Running, None, TypeOK,
     InputTakes
<1>25. ASSUME FinishStream PROVE RelayInv'
  BY <1>25, ServerEffects DEF FinishStream, RelayInv, Wrote, Took, Still,
     Ended, Other, Kept, clientVars, serverVars, Dirs, Running, None, TypeOK,
     InputTakes
<1>26. ASSUME Complete PROVE RelayInv'
  BY <1>26, ServerEffects DEF Complete, RelayInv, Wrote, Took, Still, Ended,
     Other, Kept, clientVars, serverVars, Dirs, Running, None, TypeOK,
     InputTakes
<1>27. ASSUME NEW cut \in SUBSET WithBody, GivesUp(cut) PROVE RelayInv'
  <2>1. server' = "over" /\ input' = "done" /\ end'["down"] # "open"
    BY <1>27 DEF GivesUp, Dropped
  <2> QED BY <2>1 DEF RelayInv, Running, None
<1>28. ASSUME FeedData PROVE RelayInv'
  BY <1>28, FeedEffects DEF FeedData, RelayInv, Wrote, Took, Still, Ended,
     Other, Kept, clientVars, serverVars, Dirs, Running, None, TypeOK,
     InputTakes
<1>29. ASSUME FeedResize PROVE RelayInv'
  BY <1>29, FeedEffects DEF FeedResize, RelayInv, Wrote, Took, Still, Ended,
     Other, Kept, clientVars, serverVars, Dirs, Running, None, TypeOK,
     InputTakes
<1>30. ASSUME FeedEnds PROVE RelayInv'
  BY <1>30, ServerEffects DEF FeedEnds, RelayInv, Wrote, Took, Still, Ended,
     Other, Kept, clientVars, serverVars, Dirs, Running, None, TypeOK,
     InputTakes
<1>31. ASSUME FeedStops PROVE RelayInv'
  BY <1>31, ServerEffects DEF FeedStops, RelayInv, Wrote, Took, Still, Ended,
     Other, Kept, clientVars, serverVars, Dirs, Running, None, TypeOK,
     InputTakes
<1>32. ASSUME LoseConnection PROVE RelayInv'
  BY <1>32, FeedEffects DEF LoseConnection, RelayInv, Wrote, Took, Still,
     Ended, Other, Kept, clientVars, serverVars, Dirs, Running, None, TypeOK,
     InputTakes
<1>33. StreamType
  BY Typed DEF Inv
<1> QED
  BY <1>1, <1>2, <1>3, <1>4, <1>5, <1>6, <1>7, <1>8, <1>9, <1>10, <1>11, <1>12,
     <1>13, <1>14, <1>15, <1>16, <1>17, <1>18, <1>19, <1>20, <1>21, <1>22,
     <1>23, <1>24, <1>25, <1>26, <1>27, <1>28, <1>29, <1>30, <1>31, <1>32,
     <1>33,
     NextCases, LeavesStep, GivesUpStep

(* Only input is under way to the input relay, message by message. *)
LEMMA UpFramed ==
  ASSUME Inv, Next, server' \in Running, input' # "done"
  PROVE  Framed(wire'["up"], end'["up"]) /\ OnlyInput(wire'["up"])
<1>0. TypeOK /\ PlanInv /\ OpenInv /\ SetupInv /\ RunInv /\ StreamType /\ Up
  BY Typed, UpStep DEF Inv
<1> DEFINE s == wire["up"]
           Goal == Framed(wire'["up"], end'["up"]) /\ OnlyInput(wire'["up"])
<1>1. s \in Seq(Tokens) /\ "up" \in Dirs /\ Later \subseteq Heads
  BY <1>0, KnownHeads DEF StreamType
<1>2. server \in Running /\ input # "done" => Framed(s, end["up"]) /\ OnlyInput(s)
  BY <1>0 DEF RunInv, OnlyInput
<1>3. ASSUME wire'["up"] = wire["up"], end["up"] # "open" => end'["up"] = end["up"],
             server \in Running, input # "done"
      PROVE  Goal
  BY <1>1, <1>2, <1>3, FramedEnd
<1>4. ASSUME NEW k \in Later, Wrote("up", k), server' = server, input' = input PROVE Goal
  <2>1. Framed(s, end["up"]) /\ OnlyInput(s) /\ k \in Heads
    BY <1>1, <1>2, <1>4
  <2>2. wire'["up"] = s \o Message(k)
    BY <1>4 DEF Wrote
  <2>3. Framed(wire'["up"], end'["up"])
    BY <1>0, <1>1, <1>4, <2>1, FrameStep
  <2> QED BY <1>1, <2>1, <2>2, <2>3, InputPut
<1>5. ASSUME NEW k \in Later, Took("up", k), server' = server, input # "done" PROVE Goal
  <2>1. Framed(s, end["up"]) /\ OnlyInput(s) /\ k \in Heads
    BY <1>1, <1>2, <1>5
  <2>2. Size(k) \in {1, 2} /\ Size(k) <= Len(s) /\ wire'["up"] = SubSeq(s, Size(k) + 1, Len(s))
    BY <1>0, <1>1, <1>5, <2>1, TookWhole
  <2>3. Framed(wire'["up"], end'["up"])
    BY <1>0, <1>1, <1>5, <2>1, FrameStep
  <2> QED BY <1>1, <2>1, <2>2, <2>3, InputTake
<1>6. CASE Idle
  BY <1>3, <1>6 DEF Idle, UpStill
<1>7. CASE ReadReply
  <2>1. wire'["up"] = wire["up"] /\ end' = end /\ server' = server /\ input' = input
    BY <1>0, <1>7, ClientEffects DEF ReadReply, serverVars, Took, Other
  <2> QED BY <1>3, <2>1
<1>8. CASE OpenChannel \/ SendRequest
  <2>1. server \in {"listen", "setup", "over"} /\ server' = server
    BY <1>0, <1>8 DEF OpenChannel, SendRequest, OpenInv, SetupInv, serverVars
  <2> QED BY <2>1 DEF Running
<1>9. CASE SendInput \/ SendResize
  <2>1. server' = server /\ input' = input
    BY <1>9 DEF SendInput, SendResize, serverVars
  <2>2. Wrote("up", "data") \/ Wrote("up", "window-change") \/ Still
    BY <1>0, <1>9, ClientEffects
  <2>3. "data" \in Later /\ "window-change" \in Later
    BY DEF Later
  <2> QED BY <1>3, <1>4, <2>1, <2>2, <2>3 DEF Still
<1>10. CASE SendLast("eof", "close") \/ SendLast("close", "shutdown")
  <2>1. server' = server /\ input' = input
    BY <1>10 DEF SendLast, serverVars
  <2>2. Wrote("up", "eof") \/ Wrote("up", "close") \/ Still
    BY <1>0, <1>10, ClientEffects
  <2>3. "eof" \in Later /\ "close" \in Later
    BY DEF Later
  <2> QED BY <1>3, <1>4, <2>1, <2>2, <2>3 DEF Still
<1>11. ASSUME NEW q \in Failures, NEW cut \in SUBSET Heads, Leaves(q, cut) PROVE Goal
  <2>1. /\ server \in Running /\ input # "done" /\ Dropped("up", cut) /\ client # "done"
    BY <1>11 DEF Leaves, serverVars
  <2>2. client \in {"reply", "run"}
    BY <1>0, <2>1 DEF RunInv
  <2>3. cut \subseteq Later
    BY <1>11, <2>2 DEF Leaves, Later
  <2>4. Framed(s, end["up"]) /\ OnlyInput(s)
    BY <1>2, <2>1
  <2>5. Framed(wire'["up"], end'["up"])
    BY <1>0, <1>1, <2>1, <2>4, FrameStep
  <2>6. wire'["up"] = s \/ \E k \in cut : wire'["up"] = s \o <<k>>
    BY <2>1 DEF Dropped, Kept
  <2>7. OnlyInput(wire'["up"])
    BY <1>1, <2>3, <2>4, <2>6, InputCut
  <2> QED BY <2>5, <2>7
<1>12. CASE AcceptChannel \/ SetupIgnores
  <2>1. server' \in {"accept", "reject", "setup"}
    BY <1>12 DEF AcceptChannel, SetupIgnores, serverVars
  <2> QED BY <2>1 DEF Running
<1>13. ASSUME NEW r \in Requests \ {"unknown"}, SetupRequest(r) PROVE Goal
  <2>1. wire'["up"] = <<>>
    BY <1>0, <1>13, RequestRead
  <2> QED BY <2>1 DEF Framed, OnlyInput
<1>14. CASE FeedData
  <2>1. Took("up", "data") /\ server' = server /\ input # "done" /\ "data" \in Later
    BY <1>0, <1>14, FeedEffects DEF FeedData, InputTakes, Later
  <2> QED BY <1>5, <2>1
<1>15. CASE FeedResize
  <2>1. Took("up", "window-change") /\ server' = server /\ input # "done" /\ "window-change" \in Later
    BY <1>0, <1>15, FeedEffects DEF FeedResize, InputTakes, Later
  <2> QED BY <1>5, <2>1
<1>16. CASE FeedEnds
  BY <1>16 DEF FeedEnds
<1> HIDE DEF Goal
<1> QED BY <1>0, <1>6, <1>7, <1>8, <1>9, <1>10, <1>11, <1>12, <1>13, <1>14, <1>15, <1>16 DEF Up, Goal

LEMMA RunStep ==
  ASSUME Inv, Next
  PROVE  RunInv'
BY RelayStep, UpFramed, DownFramed DEF RunInv, RelayInv, OnlyInput
-----------------------------------------------------------------------------
(* The input. *)
LEMMA FeedStep ==
  ASSUME Inv, Next
  PROVE  FeedInv'
<1>0. TypeOK /\ PlanInv /\ OpenInv /\ SetupInv /\ RunInv /\ FeedInv /\ StreamType /\ Up
  BY Typed, UpStep DEF Inv
<1> DEFINE s == wire["up"]
           t == wire'["up"]
           p == Cardinality(Chunks(s))
           q == Cardinality(Chunks(t))
           Off == client = "done" \/ (client = "run" /\ stdin \notin {"read", "eof"})
           Ends(n) == /\ typed = fed + p
                      /\ \A m \in Chunks(s) : m < n
                      /\ Off
<1>1. /\ s \in Seq(Tokens) /\ p \in Nat /\ fed \in Nat /\ typed \in Nat /\ Len(s) \in Nat
      /\ "up" \in Dirs /\ {"data", "window-change", "eof", "close"} \subseteq Heads
  <2>1. s \in Seq(Tokens) /\ fed \in 0..MaxStdin /\ typed \in 0..MaxStdin
    BY <1>0 DEF StreamType, Dirs, TypeOK
  <2>2. fed \in Nat /\ typed \in Nat
    BY <2>1, ChannelAssumption
  <2> QED BY <2>1, <2>2, ChunksFinite, LenProperties, KnownHeads DEF Later
<1>2. /\ fed + p <= typed
      /\ end["up"] = "open" => DataWhole(s)
      /\ client \notin {"run", "done"} => typed = 0
      /\ server \in Running /\ input # "done" /\ end["up"] = "open" /\ client = "run" =>
           typed = fed + p
      /\ \A n \in 1..Len(s) : s[n] \in {"eof", "close"} /\ input # "done" => Ends(n)
      /\ inputEof => /\ fed = typed /\ input = "done"
                     /\ client = "done" \/ (client = "run" /\ stdin # "read")
  BY <1>0 DEF FeedInv, Pending
<1> DEFINE Off1 == client' = "done" \/ (client' = "run" /\ stdin' \notin {"read", "eof"})
           G1 == fed' + q <= typed'
           G2 == end'["up"] = "open" => DataWhole(t)
           G3 == client' \notin {"run", "done"} => typed' = 0
           G4 == server' \in Running /\ input' # "done" /\ end'["up"] = "open" /\ client' = "run" =>
                   typed' = fed' + q
           G5 == \A n \in 1..Len(t) : t[n] \in {"eof", "close"} /\ input' # "done" =>
                   /\ typed' = fed' + q
                   /\ \A m \in Chunks(t) : m < n
                   /\ Off1
           G6 == inputEof' => /\ fed' = typed' /\ input' = "done"
                              /\ client' = "done" \/ (client' = "run" /\ stdin' # "read")
           Goal == G1 /\ G2 /\ G3 /\ G4 /\ G5 /\ G6
<1>3. Goal => FeedInv'
  BY DEF FeedInv, Pending, Chunks, DataWhole
<1> HIDE DEF s, t
(* Before the input relay is there, nothing is typed. *)
<1>4. ASSUME client \notin {"run", "done"} PROVE typed = 0 /\ fed = 0 /\ p = 0 /\ ~inputEof
  BY <1>1, <1>2, <1>4
<1>5. ASSUME Idle PROVE Goal
  <2>1. /\ t = s /\ typed' = typed /\ fed' = fed /\ inputEof' = inputEof
        /\ end["up"] # "open" => end'["up"] = end["up"]
        /\ server' \in Running /\ input' # "done" => server \in Running /\ input # "done"
        /\ input = "done" => input' = "done"
        /\ client \in {"run", "done"} => client' = client
        /\ client \notin {"run", "done"} => client' \notin {"run", "done"}
        /\ stdin # "read" => stdin' # "read"
        /\ stdin \notin {"read", "eof"} => stdin' \notin {"read", "eof"}
    BY <1>5 DEF Idle, UpStill, s, t
  <2>2. G1 /\ G3 /\ G4 /\ G6
    BY <1>2, <2>1
  <2>3. G2
    BY <1>2, <2>1
  <2>4. G5
    BY <1>2, <2>1
  <2> HIDE DEF G1, G2, G3, G4, G5, G6
  <2> QED BY <2>2, <2>3, <2>4
<1>6. ASSUME ReadReply PROVE Goal
  <2>1. /\ t = s /\ typed' = typed /\ fed' = fed /\ inputEof' = inputEof /\ end' = end
        /\ client = "reply" /\ input' = input
    BY <1>0, <1>6, ClientEffects DEF ReadReply, serverVars, Took, Other, s, t
  <2>2. typed = 0 /\ fed = 0 /\ p = 0 /\ ~inputEof
    BY <1>4, <2>1
  <2>3. \A n \in 1..Len(s) : s[n] \in {"eof", "close"} => input = "done"
    BY <1>2, <2>1
  <2>4. G1 /\ G3 /\ G4 /\ G6 /\ G2
    BY <1>1, <1>2, <2>1, <2>2
  <2>5. G5
    BY <2>1, <2>3
  <2> HIDE DEF G1, G2, G3, G4, G5, G6
  <2> QED BY <2>4, <2>5
<1>7. ASSUME OpenChannel \/ SendRequest PROVE Goal
  <2>1. PICK k \in Heads \ {"data", "eof", "close"} : Wrote("up", k)
    <3>1. OpenChannel => Wrote("up", kind) /\ kind \in Heads \ {"data", "eof", "close"}
      BY <1>0, KnownHeads, ClientEffects DEF TypeOK
    <3>2. SendRequest => Wrote("up", Head(plan)) /\ Head(plan) \in Heads \ {"data", "eof", "close"}
      BY <1>0, KnownHeads, ClientEffects, PlanHead DEF SendRequest, Requests
    <3> QED BY <1>7, <3>1, <3>2
  <2>2. /\ t = s \o Message(k) /\ typed' = typed /\ fed' = fed /\ inputEof' = inputEof
        /\ end' = end /\ end["up"] = "open" /\ input' = input
        /\ client \notin {"run", "done"} /\ client' \notin {"run", "done"}
    BY <1>7, <2>1 DEF OpenChannel, SendRequest, Wrote, serverVars, s, t
  <2>3. typed = 0 /\ fed = 0 /\ p = 0 /\ ~inputEof
    BY <1>4, <2>2
  <2>4. DataWhole(s) /\ Chunks(t) = Chunks(s) /\ DataWhole(t)
    BY <1>1, <1>2, <2>1, <2>2, ChunksPut, InputPut
  <2>5. \A n \in 1..Len(s) : s[n] \in {"eof", "close"} => input = "done"
    BY <1>2, <2>2
  <2>6. \A n \in 1..Len(t) : t[n] \in {"eof", "close"} => n \in 1..Len(s) /\ t[n] = s[n]
    BY <1>1, <2>1, <2>2, InputPut DEF Body
  <2>7. G5
    BY <2>2, <2>5, <2>6
  <2>8. G1 /\ G2 /\ G3 /\ G4 /\ G6
    BY <1>2, <2>2, <2>3, <2>4
  <2> HIDE DEF G1, G2, G3, G4, G5, G6
  <2> QED BY <2>7, <2>8
<1>8. ASSUME client = "run", stdin = "read" \/ stdin = "eof"
      PROVE  \A n \in 1..Len(s) : s[n] \in {"eof", "close"} => input = "done"
  BY <1>2, <1>8
<1>9. ASSUME SendInput \/ SendResize PROVE Goal
  <2>1. /\ client = "run" /\ stdin = "read" /\ client' = client /\ fed' = fed /\ inputEof' = inputEof
        /\ input' = input /\ server' = server
    BY <1>9 DEF SendInput, SendResize, serverVars
  <2>2. ~inputEof /\ ~inputEof'
    BY <1>2, <2>1
  <2>3. CASE Wrote("up", "data") /\ typed' = typed + 1
    <3>1. t = s \o Message("data") /\ end' = end /\ end["up"] = "open"
      BY <2>3 DEF Wrote, s, t
    <3>2. q = p + 1 /\ DataWhole(t)
      BY <1>1, <1>2, <3>1, ChunksPut, InputPut
    <3>3. \A n \in 1..Len(t) : t[n] \in {"eof", "close"} => n \in 1..Len(s) /\ t[n] = s[n]
      BY <1>1, <3>1, InputPut DEF Body
    <3>4. G5
      BY <1>8, <2>1, <3>3
    <3>6. server \in Running /\ input # "done" => typed = fed + p
      BY <1>2, <2>1, <3>1
    <3>7. fed + p <= typed
      BY <1>2
    <3> HIDE DEF p, q
    <3>5. G1 /\ G4
      BY <1>1, <2>1, <2>3, <3>2, <3>6, <3>7
    <3>9. G2 /\ G3 /\ G6
      BY <2>1, <2>2, <3>2
    <3> HIDE DEF G1, G2, G3, G4, G5, G6
    <3> QED BY <3>4, <3>5, <3>9
  <2>4. CASE Wrote("up", "window-change") /\ typed' = typed
    <3>1. t = s \o Message("window-change") /\ end' = end /\ end["up"] = "open"
      BY <2>4 DEF Wrote, s, t
    <3>2. Chunks(t) = Chunks(s) /\ DataWhole(t)
      BY <1>1, <1>2, <3>1, ChunksPut, InputPut
    <3>3. \A n \in 1..Len(t) : t[n] \in {"eof", "close"} => n \in 1..Len(s) /\ t[n] = s[n]
      BY <1>1, <3>1, InputPut DEF Body
    <3>4. G5
      BY <1>8, <2>1, <3>3
    <3>5. G1 /\ G4
      BY <1>1, <1>2, <2>1, <2>4, <3>1, <3>2
    <3>9. G2 /\ G3 /\ G6
      BY <2>1, <2>2, <3>2
    <3> HIDE DEF G1, G2, G3, G4, G5, G6
    <3> QED BY <3>4, <3>5, <3>9
  <2>5. CASE Still /\ (typed' = typed \/ typed' = typed + 1) /\ (end["up"] = "reset" \/ server = "over")
    <3>1. t = s /\ end' = end
      BY <2>5 DEF Still, s, t
    <3>2. server = "over" => server \notin Running
      BY DEF Running
    <3>3. G1 /\ G4
      BY <1>1, <1>2, <2>1, <2>5, <3>1, <3>2
    <3>4. G5
      BY <1>8, <2>1, <3>1
    <3>9. G2 /\ G3 /\ G6
      BY <1>2, <2>1, <2>2, <3>1
    <3> HIDE DEF G1, G2, G3, G4, G5, G6
    <3> QED BY <3>3, <3>4, <3>9
  <2>6. SendInput => (Wrote("up", "data") \/ (Still /\ WriteFails)) /\ typed' = typed + 1
    BY <1>0, <1>1, WroteStep DEF SendInput, Still, streams
  <2>7. SendResize => (Wrote("up", "window-change") \/ (Still /\ WriteFails)) /\ typed' = typed
    BY <1>0, <1>1, WroteStep DEF SendResize, Still, streams
  <2> QED BY <1>9, <2>3, <2>4, <2>5, <2>6, <2>7 DEF WriteFails
<1>10. ASSUME NEW from \in {"eof", "close"}, NEW to \in {"close", "shutdown"}, SendLast(from, to)
       PROVE  Goal
  <2>1. /\ client = "run" /\ stdin = from /\ client' = client /\ stdin' = to
        /\ typed' = typed /\ fed' = fed /\ inputEof' = inputEof
        /\ input' = input /\ server' = server
        /\ from \in Heads /\ from # "data"
    BY <1>1, <1>10 DEF SendLast, serverVars
  <2>2. server \in Running \cup {"over"}
    BY <1>0, <2>1 DEF SetupInv
  <2>3. G6 /\ G3
    BY <1>2, <2>1
  <2>4. CASE end["up"] = "open" /\ server # "over"
    <3>1. t = s \o Message(from) /\ end' = end
      BY <1>0, <1>10, <2>4, ClientEffects DEF Wrote, s, t
    <3>2. Chunks(t) = Chunks(s) /\ DataWhole(t)
      BY <1>1, <1>2, <2>1, <2>4, <3>1, ChunksPut, InputPut
    <3>3. input # "done" => typed = fed + p
      BY <1>2, <2>1, <2>2, <2>4
    <3>4. \A m \in Chunks(s) : m < Len(s) + 1
      BY <1>1 DEF Chunks
    <3>5. ASSUME NEW n \in 1..Len(t), t[n] \in {"eof", "close"}, input' # "done"
          PROVE  typed' = fed' + q /\ (\A m \in Chunks(t) : m < n) /\ Off1
      <4>1. typed' = fed' + q /\ Off1
        BY <2>1, <3>2, <3>3, <3>5
      <4>2. (n \in 1..Len(s) /\ t[n] = s[n]) \/ n = Len(s) + 1
        BY <1>1, <2>1, <3>1, <3>5, InputPut DEF Body
      <4>3. \A m \in Chunks(s) : m < n
        BY <1>2, <2>1, <3>4, <3>5, <4>2
      <4> QED BY <3>2, <4>1, <4>3
    <3>6. G1 /\ G4
      BY <1>2, <2>1, <3>1, <3>2
    <3>7. G2 /\ G5
      BY <3>2, <3>5
    <3> HIDE DEF G1, G2, G3, G4, G5, G6
    <3> QED BY <2>3, <3>6, <3>7
  <2>5. CASE ~(end["up"] = "open" /\ server # "over")
    <3>1. t = s /\ end' = end
      BY <1>0, <1>10, <2>5, ClientEffects DEF Still, s, t
    <3>2. G5
      BY <1>2, <2>1, <3>1
    <3>3. G1 /\ G2 /\ G4
      BY <1>2, <2>1, <3>1
    <3> HIDE DEF G1, G2, G3, G4, G5, G6
    <3> QED BY <2>3, <3>2, <3>3
  <2> QED BY <2>4, <2>5
<1>11. ASSUME NEW r \in Failures, NEW cut \in SUBSET Heads, Leaves(r, cut) PROVE Goal
  <2>1. /\ client' = "done" /\ typed' = typed /\ fed' = fed /\ inputEof' = inputEof /\ input' = input
        /\ Dropped("up", cut) /\ end'["up"] # "open"
    BY <1>11 DEF Leaves, serverVars, Dropped
  <2>2. CASE t = s
    <3>1. G1 /\ G2 /\ G3 /\ G4 /\ G5 /\ G6
      BY <1>2, <2>1, <2>2
    <3> HIDE DEF G1, G2, G3, G4, G5, G6
    <3> QED BY <3>1
  <2>3. CASE end["up"] = "open" /\ \E k \in cut : t = s \o <<k>>
    <3>1. PICK k \in cut : t = s \o <<k>>
      BY <2>3
    <3>2. k \notin {"eof", "close"}
      <4>1. client = "setup" => Head(plan) \in Requests
        BY <1>0, PlanHead
      <4>2. client = "setup" \/ client = "run"
        BY <1>11, <3>1 DEF Leaves
      <4> QED BY <1>11, <4>1, <4>2 DEF Leaves, Requests
    <3>3. Chunks(t) = Chunks(s)
      BY <1>1, <1>2, <2>3, <3>1, ChunksCut
    <3>4. \A n \in 1..Len(t) : t[n] \in {"eof", "close"} => n \in 1..Len(s) /\ t[n] = s[n]
      BY <1>1, <3>1, <3>2, InputCut
    <3>5. G5
      BY <1>2, <2>1, <3>3, <3>4
    <3>6. G1 /\ G2 /\ G3 /\ G4 /\ G6
      BY <1>2, <2>1, <3>3
    <3> HIDE DEF G1, G2, G3, G4, G5, G6
    <3> QED BY <3>5, <3>6
  <2> QED BY <2>1, <2>2, <2>3 DEF Dropped, Kept, s, t
<1>12. ASSUME t = <<>>, typed' = typed, fed' = fed, inputEof' = inputEof, client' = client,
              input' = input, stdin' = stdin, client # "run"
       PROVE  Goal
  <2>1. q = 0 /\ Len(t) = 0 /\ DataWhole(t)
    BY <1>12, NothingLeft
  <2>2. G5
    BY <2>1
  <2>3. G1
    BY <1>1, <1>2, <1>12, <2>1
  <2>4. G2 /\ G3 /\ G4 /\ G6
    BY <1>2, <1>12, <2>1
  <2> HIDE DEF G1, G2, G3, G4, G5, G6
  <2> QED BY <2>2, <2>3, <2>4
<1>13. ASSUME AcceptChannel PROVE Goal
  <2>1. /\ t = <<>> /\ typed' = typed /\ fed' = fed /\ inputEof' = inputEof /\ client' = client
        /\ input' = input /\ stdin' = stdin /\ client # "run"
    BY <1>0, <1>13, ServerEffects DEF AcceptChannel, clientVars, OpenInv, t
  <2> HIDE DEF Goal
  <2> QED BY <1>12, <2>1
<1>14. ASSUME NEW r \in Requests \ {"unknown"}, SetupRequest(r) PROVE Goal
  <2>1. t = <<>> /\ client # "run"
    BY <1>0, <1>14, RequestRead DEF t
  <2>2. /\ typed' = typed /\ fed' = fed /\ inputEof' = inputEof /\ client' = client
        /\ input' = input /\ stdin' = stdin
    BY <1>14 DEF SetupRequest, clientVars
  <2> HIDE DEF Goal
  <2> QED BY <1>12, <2>1, <2>2
<1>15. ASSUME SetupIgnores PROVE Goal
  <2>1. wire["up"] = <<"unknown">> /\ Answered("unknown", <<"failure">>)
    BY <1>0, <1>15, ServerEffects
  <2>2. t = <<>>
    BY <2>1, OnlyMessage, KnownHeads DEF Answered, Size, WithBody, Requests, t
  <2>3. client # "run"
    BY <1>0, <1>15 DEF SetupIgnores, SetupInv, Running
  <2>4. /\ typed' = typed /\ fed' = fed /\ inputEof' = inputEof /\ client' = client
        /\ input' = input /\ stdin' = stdin
    BY <1>15 DEF SetupIgnores, clientVars, serverVars
  <2> HIDE DEF Goal
  <2> QED BY <1>12, <2>2, <2>3, <2>4
<1>16. ASSUME NEW k \in {"data", "window-change"}, Took("up", k), input # "done", server \in Running,
              client' = client, stdin' = stdin, typed' = typed, inputEof' = inputEof, server' = server,
              \/ k = "data" /\ fed' = fed + 1 /\ input' = input
              \/ k # "data" /\ fed' = fed /\ input' = input
              \/ fed' = fed /\ input' = "done"
       PROVE  Goal
  <2>0. Framed(s, end["up"]) /\ k \in Heads /\ Size(k) = 2
    BY <1>0, <1>1, <1>16 DEF RunInv, s, Size, WithBody
  <2>1. s[1] = k /\ 2 <= Len(s) /\ s[2] = Body /\ t = SubSeq(s, 2 + 1, Len(s)) /\ end' = end
    BY <1>0, <1>1, <1>16, <2>0, TookWhole DEF s, t, Took
  <2>2. /\ k # "data" => q = p
        /\ k = "data" => q = p - 1
        /\ \A m \in Chunks(t) : m + 2 \in Chunks(s)
    BY <1>1, <2>1, ChunksTake
  <2>3. /\ DataWhole(s) => DataWhole(t)
        /\ \A i \in 1..Len(t) : i + 2 \in 1..Len(s) /\ t[i] = s[i + 2]
    BY <1>1, <2>1, InputTake
  <2>4. ~inputEof
    BY <1>2, <1>16
  <2>5. fed' + q <= typed /\ (input' # "done" => fed' + q = fed + p)
    BY <1>1, <1>2, <1>16, <2>2
  <2>6. ASSUME NEW n \in 1..Len(t), t[n] \in {"eof", "close"}, input' # "done"
        PROVE  typed' = fed' + q /\ (\A m \in Chunks(t) : m < n) /\ Off1
    <3>1. Ends(n + 2)
      BY <1>2, <1>16, <2>3, <2>6
    <3>2. ASSUME NEW m \in Chunks(t) PROVE m < n
      <4>1. m + 2 < n + 2 /\ m \in Nat /\ n \in Nat
        BY <2>2, <3>1, <3>2 DEF Chunks
      <4> QED BY <4>1
    <3>3. typed' = fed' + q /\ Off1
      BY <1>16, <2>5, <2>6, <3>1
    <3> QED BY <3>2, <3>3
  <2>7. G4
    BY <1>2, <1>16, <2>1, <2>5
  <2>8. G3
    BY <1>2, <1>16
  <2>9. G2
    BY <1>2, <2>1, <2>3
  <2>10. G1 /\ G6
    BY <1>16, <2>4, <2>5
  <2>11. G5
    BY <2>6
  <2> HIDE DEF G1, G2, G3, G4, G5, G6
  <2> QED BY <2>7, <2>8, <2>9, <2>10, <2>11
<1>17. input = "select" => server \in Running
  BY <1>0 DEF RunInv, Running, TypeOK, None
<1>18. ASSUME FeedData PROVE Goal
  <2>1. /\ Took("up", "data") /\ input # "done" /\ server \in Running
        /\ client' = client /\ stdin' = stdin /\ typed' = typed /\ inputEof' = inputEof
        /\ server' = server
        /\ (fed' = fed + 1 /\ input' = input) \/ (fed' = fed /\ input' = "done")
    BY <1>0, <1>17, <1>18, FeedEffects DEF FeedData, InputTakes, clientVars
  <2> HIDE DEF Goal
  <2> QED BY <1>16, <2>1
<1>19. ASSUME FeedResize PROVE Goal
  <2>1. CASE pty
    <3>1. /\ Took("up", "window-change") /\ input # "done" /\ server \in Running
          /\ client' = client /\ stdin' = stdin /\ typed' = typed /\ inputEof' = inputEof
          /\ server' = server /\ fed' = fed /\ input' = input
      BY <1>0, <1>17, <1>19, <2>1, FeedEffects DEF FeedResize, InputTakes, clientVars
    <3> HIDE DEF Goal
    <3> QED BY <1>16, <3>1
  <2>2. CASE ~pty
    <3>1. /\ t = SubSeq(s, 1 + 1, Len(s)) /\ s # <<>> /\ end' = end /\ input' = "done"
          /\ client' = client /\ typed' = typed /\ fed' = fed /\ inputEof' = inputEof
          /\ s[1] = "window-change" /\ input # "done" /\ stdin' = stdin
      BY <1>0, <1>19, <2>2, FeedEffects DEF FeedResize, s, t, clientVars, Whole, At, InputTakes
    <3>2. 1 <= Len(s)
      BY <1>1, <3>1, EmptySeq
    <3>3. q = p /\ (DataWhole(s) => DataWhole(t))
      BY <1>1, <3>1, <3>2, ChunksTake, InputTake
    <3>4. G1 /\ G2 /\ G3 /\ G4 /\ G5 /\ G6
      BY <1>2, <3>1, <3>3
    <3> HIDE DEF G1, G2, G3, G4, G5, G6
    <3> QED BY <3>4
  <2> QED BY <2>1, <2>2
<1>20. ASSUME FeedEnds PROVE Goal
  <2>1. /\ t = s /\ end' = end /\ input = "select" /\ input' = "done" /\ client' = client
        /\ typed' = typed /\ fed' = fed /\ stdin' = stdin
        /\ inputEof' => At("up", "eof") \/ At("up", "close")
    BY <1>20 DEF FeedEnds, InputTakes, clientVars, streams, s, t
  <2>2. ASSUME inputEof' PROVE typed = fed /\ Off
    <3>1. s # <<>> /\ s[1] \in {"eof", "close"}
      BY <2>1, <2>2 DEF At, s
    <3>2. 1 \in 1..Len(s)
      BY <1>1, <3>1, EmptySeq
    <3>3. Ends(1)
      BY <1>2, <2>1, <3>1, <3>2
    <3>4. Chunks(s) = {}
      BY <3>3 DEF Chunks
    <3>5. p = 0
      BY <3>4, FS_EmptySet
    <3> QED BY <1>1, <3>3, <3>5
  <2>3. G1 /\ G2 /\ G3 /\ G4 /\ G5
    BY <1>2, <2>1
  <2>4. G6
    BY <2>1, <2>2
  <2> HIDE DEF G1, G2, G3, G4, G5, G6
  <2> QED BY <2>3, <2>4
<1> HIDE DEF Goal
<1> QED BY <1>0, <1>3, <1>5, <1>6, <1>7, <1>9, <1>10, <1>11, <1>13, <1>14, <1>15, <1>18, <1>19, <1>20 DEF Up
-----------------------------------------------------------------------------
LEMMA InitInv ==
  ASSUME Init
  PROVE  Inv
<1>1. /\ kind \in {"session", "other"} /\ plan \in Plans
      /\ client = "open" /\ stdin = None /\ typed = 0 /\ resized = 0
      /\ exitSeen = FALSE /\ shown = <<>> /\ result = None
      /\ server = "listen" /\ pty = FALSE /\ isShell = FALSE
      /\ written = <<>> /\ exited = FALSE
      /\ input = None /\ fed = 0 /\ inputEof = FALSE
      /\ wire \in [Dirs -> {<<>>}] /\ end \in [Dirs -> {"open"}]
      /\ wire["up"] = <<>> /\ wire["down"] = <<>> /\ end["up"] = "open" /\ end["down"] = "open"
  BY DEF Init, Dirs
<1>2. /\ plan \in Seq(Requests) /\ plan # <<>>
      /\ \A n \in 1..Len(plan) : plan[n] \in Starts <=> n = Len(plan)
  BY <1>1, ChannelAssumption DEF Starts
<1>3. 0 \in 0..MaxStdin /\ 0 \in 0..MaxResize
  BY ChannelAssumption
<1>4. wire \in [Dirs -> Seq(Heads \cup {Body})] /\ end \in [Dirs -> {"open", "fin", "reset"}]
      /\ <<>> \in Seq(Output)
  <2>1. <<>> \in Seq(Output) /\ <<>> \in Seq(Heads \cup {Body})
    OBVIOUS
  <2> QED BY <1>1, <2>1
<1>5. TypeOK
  BY <1>1, <1>2, <1>3, <1>4 DEF TypeOK, None
<1>6. PlanInv
  BY <1>2 DEF PlanInv
<1>7. OpenInv /\ SetupInv
  BY <1>1 DEF OpenInv, SetupInv
<1>8. RunInv
  BY <1>1, NothingLeft DEF RunInv, Running, None
<1>9. ~HasExit(<<>>)
  BY NothingLeft DEF HasExit
<1>10. ExitInv
  BY <1>1, <1>9, NothingLeft DEF ExitInv, None
<1>11. Queued(<<>>, <<>>, 0)
  <2> DEFINE f == [i \in 0 + 1..0 |-> 0]
  <2>1. 0 + 1..0 = {} /\ f \in [0 + 1..0 -> Nat]
    OBVIOUS
  <2> HIDE DEF f
  <2>2. Places(f, <<>>, <<>>, 0)
    BY <2>1, NothingLeft DEF Places
  <2> QED BY <2>1, <2>2, NothingLeft DEF Queued
<1>12. OutputInv
  BY <1>1, <1>11, NothingLeft DEF OutputInv, None
<1>13. FeedInv
  BY <1>1, NothingLeft DEF FeedInv, Pending
<1> QED BY <1>5, <1>6, <1>7, <1>8, <1>10, <1>12, <1>13 DEF Inv

LEMMA Stutter ==
  ASSUME Inv, UNCHANGED vars
  PROVE  Inv'
<1>1. /\ kind' = kind /\ plan' = plan /\ client' = client /\ stdin' = stdin /\ typed' = typed
      /\ resized' = resized /\ exitSeen' = exitSeen /\ shown' = shown /\ result' = result
      /\ server' = server /\ pty' = pty /\ isShell' = isShell /\ written' = written
      /\ exited' = exited /\ input' = input /\ fed' = fed /\ inputEof' = inputEof
      /\ wire' = wire /\ end' = end
  BY DEF vars, clientVars, serverVars, streams
<1>2. TypeOK' /\ PlanInv' /\ OpenInv'
  <2>1. TypeOK'
    <3>1. ClientType /\ ServerType /\ StreamType
      BY TypeParts DEF Inv
    <3>2. ClientType'
      BY <1>1, <3>1 DEF ClientType
    <3>3. ServerType' /\ StreamType'
      BY <1>1, <3>1 DEF ServerType, StreamType
    <3> QED BY <3>2, <3>3 DEF TypeOK, ClientType, ServerType, StreamType, Tokens
  <2>2. PlanInv'
    BY <1>1 DEF Inv, PlanInv
  <2>3. OpenInv'
    BY <1>1 DEF Inv, OpenInv
  <2> QED BY <2>1, <2>2, <2>3
<1>3. SetupInv'
  BY <1>1 DEF Inv, SetupInv, At, Message
<1>4. RunInv'
  BY <1>1 DEF Inv, RunInv, Framed
<1>5. ExitInv'
  BY <1>1 DEF Inv, ExitInv, HasExit
<1>6. OutputInv'
  BY <1>1 DEF Inv, OutputInv
<1>7. FeedInv'
  BY <1>1 DEF Inv, FeedInv, Pending, Chunks, DataWhole
<1> QED BY <1>2, <1>3, <1>4, <1>5, <1>6, <1>7 DEF Inv

(* The parts of Inv hold in every state the two sides and their streams    *)
(* can get into: whatever the set-up calls, the interleaving of the relays *)
(* with each other, and where a call is dropped or a stream is lost.       *)
THEOREM Invariance == Spec => []Inv
<1>1. Init => Inv
  BY InitInv
<1>2. Inv /\ [Next]_vars => Inv'
  <2> SUFFICES ASSUME Inv, [Next]_vars PROVE Inv'
    OBVIOUS
  <2>1. CASE Next
    <3>1. TypeOK /\ PlanInv
      BY DEF Inv
    <3>2. TypeOK' /\ OpenInv' /\ SetupInv'
      BY <2>1, TypeStep, OpenStep, SetupCallStep
    <3>3. RunInv' /\ ExitInv' /\ OutputInv' /\ FeedInv'
      BY <2>1, RunStep, ExitStep, OutputStep, FeedStep
    <3>4. PlanInv'
      BY <2>1, <3>1, PlanStep
    <3> QED BY <3>2, <3>3, <3>4 DEF Inv
  <2>2. CASE UNCHANGED vars
    BY <2>2, Stutter
  <2> QED BY <2>1, <2>2
<1> QED BY <1>1, <1>2, PTL DEF Spec
-----------------------------------------------------------------------------
(* What follows from Inv. *)
LEMMA FirstIsHead ==
  ASSUME NEW s \in Seq(Tokens), NEW e, Framed(s, e), s # <<>>
  PROVE  s[1] # Body
<1>1. 1 \in 1..Len(s)
  BY LenProperties, EmptySeq
<1> QED BY <1>1 DEF Framed

LEMMA SelectRuns ==
  ASSUME Inv, server = "start" \/ input = "select"
  PROVE  server \in Running /\ input # "done"
BY DEF Inv, RunInv, TypeOK, Running, None

LEMMA InvPlace ==
  ASSUME Inv
  PROVE  ReadersKeepPlace
<1>0. TypeOK /\ PlanInv /\ OpenInv /\ SetupInv /\ RunInv /\ StreamType
  BY Typed DEF Inv
<1>1. wire["up"] \in Seq(Tokens) /\ wire["down"] \in Seq(Tokens)
  BY <1>0 DEF StreamType, Dirs
<1>2. ~At("down", Body)
  BY <1>0, <1>1, FirstIsHead DEF RunInv, At
<1>3. ASSUME server = "setup" PROVE ~At("up", Body)
  <2>1. wire["up"] = <<>> \/ \E r \in Requests : wire["up"] = Message(r) \/ wire["up"] = <<r>>
    <3>1. CASE client = "done"
      BY <1>0, <1>3, <3>1 DEF SetupInv
    <3>2. CASE client = "reply"
      <4>1. Head(plan) \in Requests
        BY <1>0, <3>2, PlanHead
      <4>2. wire["up"] = <<>> \/ wire["up"] = Message(Head(plan))
        BY <1>0, <1>3, <3>2 DEF SetupInv, Running
      <4> QED BY <4>1, <4>2
    <3>3. CASE client \in {"confirm", "setup"}
      BY <1>0, <1>3, <3>3 DEF SetupInv, OpenInv
    <3> QED BY <1>0, <1>3, <3>1, <3>2, <3>3 DEF SetupInv
  <2>2. \A r \in Requests : r # Body /\ r \in Heads
    BY KnownHeads DEF Requests, Body
  <2> QED BY <2>1, <2>2, MessageFacts DEF At
<1>4. ASSUME server = "start" \/ input = "select" PROVE ~At("up", Body)
  <2>1. Framed(wire["up"], end["up"])
    BY <1>0, <1>4, SelectRuns DEF RunInv
  <2> QED BY <1>1, <2>1, FirstIsHead DEF At
<1> QED BY <1>0, <1>2, <1>3, <1>4 DEF ReadersKeepPlace

LEMMA InvReplies ==
  ASSUME Inv
  PROVE  RepliesFitRequests
<1>0. TypeOK /\ SetupInv /\ RunInv /\ StreamType
  BY Typed DEF Inv
<1>1. ASSUME client = "reply", wire["down"] # <<>>
      PROVE  At("down", IF Head(plan) = "unknown" THEN "failure" ELSE "success")
  <2>1. \/ wire["down"] = <<Answer(Head(plan))>>
        \/ Head(plan) \in Starts /\ At("down", "success")
    BY <1>0, <1>1 DEF SetupInv
  <2>2. Head(plan) \in Starts => Head(plan) # "unknown"
    BY DEF Starts
  <2> QED BY <2>1, <2>2 DEF At, Answer
<1>2. ASSUME input = "select", NEW r \in Requests, At("up", r) PROVE FALSE
  <2>1. wire["up"] \in Seq(Tokens) /\ wire["up"] # <<>> /\ wire["up"][1] = r
    BY <1>0, <1>2 DEF StreamType, Dirs, At
  <2>2. 1 \in 1..Len(wire["up"])
    BY <2>1, LenProperties, EmptySeq
  <2>3. wire["up"][1] \in Later \cup {Body}
    BY <1>0, <1>2, <2>2, SelectRuns DEF RunInv
  <2> QED BY <2>1, <2>3 DEF Later, Requests, Body
<1> QED BY <1>1, <1>2 DEF RepliesFitRequests

LEMMA InvResult ==
  ASSUME Inv
  PROVE  RunReturnsTheResult
<1>0. TypeOK /\ ExitInv /\ OutputInv
  BY DEF Inv
<1>1. shown \in Seq(Output) /\ written \in Seq(Output) /\ Len(shown) \in Nat /\ Len(written) \in Nat
  BY <1>0, LenProperties DEF TypeOK
<1>2. Len(shown) <= Len(written) /\ \A m \in 1..Len(shown) : shown[m] = written[m]
  BY <1>0 DEF OutputInv
<1> DEFINE u == SubSeq(written, 1, Len(shown))
<1>3. u \in Seq(Output) /\ Len(u) = Len(shown) /\ \A m \in 1..Len(shown) : u[m] = written[m]
  <2>1. CASE Len(shown) = 0
    <3>1. u = <<>>
      BY <1>1, <2>1, SubSeqEmpty
    <3> QED BY <2>1, <3>1
  <2>2. CASE Len(shown) > 0
    <3>1. 1 \in 1..Len(written) + 1 /\ Len(shown) \in (1 - 1)..Len(written)
      BY <1>1, <1>2, <2>2
    <3>2. u \in Seq(Output) /\ Len(u) = Len(shown) /\ \A m \in 1..Len(shown) : u[m] = written[1 + m - 1]
      BY <1>1, <1>2, <2>2, <3>1, SubSeqProperties, SMT
    <3>3. \A m \in 1..Len(shown) : 1 + m - 1 = m
      BY <1>1
    <3> QED BY <3>2, <3>3
  <2> QED BY <1>1, <2>1, <2>2
<1> HIDE DEF u
<1>4. shown = u
  BY <1>1, <1>2, <1>3, SeqEqual
<1>5. Len(shown) = Len(written) => shown = written
  BY <1>1, <1>2, SeqEqual
<1>6. result \in {"exit", "no exit"} /\ end["down"] # "reset" => shown = written
  BY <1>0, <1>5 DEF OutputInv
<1>7. (result = "exit" => exited) /\ (result = "no exit" => ~exited)
  BY <1>0 DEF ExitInv
<1> QED BY <1>2, <1>4, <1>6, <1>7 DEF RunReturnsTheResult, u

LEMMA InvFed ==
  ASSUME Inv
  PROVE  InputIsFed
<1>1. FeedInv /\ wire["up"] \in Seq(Tokens) /\ fed \in 0..MaxStdin /\ typed \in 0..MaxStdin
  BY Typed DEF Inv, TypeOK, StreamType, Dirs
<1>2. Pending \in Nat
  BY <1>1, ChunksFinite DEF Pending
<1>3. fed + Pending <= typed /\ (inputEof => fed = typed)
  BY <1>1 DEF FeedInv
<1> HIDE DEF Pending
<1> QED BY <1>1, <1>2, <1>3 DEF InputIsFed

(* No reader of a session channel loses its place, with any set-up calls   *)
(* and any amount of input and output: session_setup, the input relay,     *)
(* request() and relay_output always begin with a message.                 *)
THEOREM ReadersStayInPlace == Spec => []ReadersKeepPlace
BY Invariance, InvPlace, PTL

(* Each set-up call of ClientSession gets its own reply and nothing else,  *)
(* and the server's input relay never meets a request.                     *)
THEOREM EachCallHasItsReply == Spec => []RepliesFitRequests
BY Invariance, InvReplies, PTL

(* ClientSession::run returns the exit the server sent, none only if it    *)
(* sent none, and all of the output with it unless the stream was reset.   *)
THEOREM RunTellsTheTruth == Spec => []RunReturnsTheResult
BY Invariance, InvResult, PTL

(* The command's input ends on the client's EOF only behind all that       *)
(* relay_stdin has read.                                                   *)
THEOREM InputComesFirst == Spec => []InputIsFed
BY Invariance, InvFed, PTL
=============================================================================
