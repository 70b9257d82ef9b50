----------------------------- MODULE ConfigFile -----------------------------
(***************************************************************************)
(* The configuration reader: the line grammar of src/src/config/parser.rs, *)
(* the locations and tokens of src/src/config.rs, and the typed arguments  *)
(* and patterns of src/src/config/directives.rs.                           *)
(*                                                                         *)
(* These are pure functions; the state is only their input, which grows    *)
(* one character or token at a time so that every short input is met.      *)
(* A character is a member of a class the code tells apart: a letter "a",  *)
(* a digit "1", other text "-", a blank " ", and those with a meaning; it  *)
(* is one byte of the file.                                                *)
(* Offsets count from 0, as in the code.                                   *)
(***************************************************************************)
EXTENDS Naturals, Sequences, FiniteSets, FiniteSetsExt, SequencesExt

CONSTANTS
  FileChars,     (* characters of a file                                  *)
  Beginnings,    (* how a file may begin                                  *)
  MaxTyped,      (* characters typed behind that                          *)
  GlobChars,     (* characters of a pattern and of the text it is for     *)
  MaxGlob,       (* bound on the length of each                           *)
  MatchTokens,   (* tokens of the arguments of Match                      *)
  MaxMatch       (* bound on their number                                 *)

VARIABLES
  file,     (* the content of a file                                      *)
  typed,    (* how many characters were added                             *)
  glob,     (* a pattern and a text                                       *)
  match     (* arguments of Match                                         *)

vars == <<file, typed, glob, match>>

Type(c) ==
  /\ typed < MaxTyped /\ glob.pat = <<>> /\ glob.txt = <<>> /\ match = <<>>
  /\ file' = Append(file, c) /\ typed' = typed + 1
  /\ UNCHANGED <<glob, match>>

TypePattern(c) ==
  /\ file = <<>> /\ match = <<>> /\ glob.txt = <<>> /\ Len(glob.pat) < MaxGlob
  /\ glob' = [glob EXCEPT !.pat = Append(@, c)]
  /\ UNCHANGED <<file, typed, match>>

TypeText(c) ==
  /\ file = <<>> /\ match = <<>> /\ Len(glob.txt) < MaxGlob
  /\ glob' = [glob EXCEPT !.txt = Append(@, c)]
  /\ UNCHANGED <<file, typed, match>>

TypeCriterion(t) ==
  /\ file = <<>> /\ glob.pat = <<>> /\ glob.txt = <<>> /\ Len(match) < MaxMatch
  /\ match' = Append(match, t)
  /\ UNCHANGED <<file, typed, glob>>

Init ==
  /\ file \in Beginnings /\ typed = 0
  /\ glob = [pat |-> <<>>, txt |-> <<>>]
  /\ match = <<>>

Next ==
  \/ \E c \in FileChars : Type(c)
  \/ \E c \in GlobChars : TypePattern(c)
  \/ \E c \in GlobChars \ {"*", "?"} : TypeText(c)
  \/ \E t \in MatchTokens : TypeCriterion(t)

Spec == Init /\ [][Next]_vars
-----------------------------------------------------------------------------
(* Scanning. *)
Size == Len(file)
At(p, chars) == p < Size /\ file[p + 1] \in chars

(* The end of the longest run of chars that begins at p. *)
Run(p, chars) == Min({q \in p..Size : ~At(q, chars)})
Blank == {" "}
EndOfLine == {"\n", "\r"}
Text == FileChars \ EndOfLine
Trimmed(p, q) == Max({p} \cup {r \in p + 1..q : ~At(r - 1, Blank)})
-----------------------------------------------------------------------------
(* The grammar.  A rule gives the entry and `next', the position behind    *)
(* what it has matched.                                                    *)
Span(start, end) == [start |-> start, end |-> end]
RawEntry(kind, start, end, args, next) ==
  [kind |-> kind, span |-> Span(start, end), args |-> args, next |-> next]

Newline(p) ==
  IF At(p, {"\r"}) /\ At(p + 1, {"\n"}) THEN p + 2
  ELSE IF At(p, EndOfLine) THEN p + 1 ELSE p

AtLineEnd(p) == p = Size \/ At(p, EndOfLine)

Keyword(p) == IF At(p, {"a"}) THEN Run(p, {"a", "1"}) ELSE p

(* `_ "=" _' or blanks; the position itself when there is neither. *)
Separator(p) ==
  LET q == Run(p, Blank) IN IF At(q, {"="}) THEN Run(q + 1, Blank) ELSE q

EmptyLine(p) ==
  LET q == Run(p, Blank)
  IN IF AtLineEnd(q) THEN {RawEntry("empty", p, q, Span(q, q), q)} ELSE {}

Comment(p) ==
  LET q == Run(p, Blank) IN
  IF At(q, {"#"})
  THEN {RawEntry("comment", p, Run(q, Text), Span(q, q), Run(q, Text))} ELSE {}

(* Without a separator only the keyword and blanks are matched, whatever   *)
(* stands behind them.                                                     *)
Directive(p) ==
  LET k == Run(p, Blank)
      e == Keyword(k)
      s == Separator(e)
  IN IF e = k THEN {}
     ELSE IF s > e
          THEN {RawEntry("directive", k, e, Span(s, Trimmed(s, Run(s, Text))), Run(s, Text))}
          ELSE {RawEntry("directive", k, e, Span(e, e), e)}

UnknownLine(p) == {RawEntry("unknown", p, Run(p, Text), Span(p, p), Run(p, Text))}

Line(p) ==
  CHOOSE e \in IF EmptyLine(p) # {} THEN EmptyLine(p)
               ELSE IF Comment(p) # {} THEN Comment(p)
               ELSE IF Directive(p) # {} THEN Directive(p) ELSE UnknownLine(p) : TRUE

(* config: lines with line ends between them, up to the end of the file;   *)
(* a line that ends early leaves the rest unread.                          *)
Config ==
  LET from[p \in 0..Size] ==
        LET e == Line(p) IN
        IF Newline(e.next) = e.next THEN [entries |-> <<e>>, read |-> e.next]
        ELSE LET more == from[Newline(e.next)]
             IN [entries |-> <<e>> \o more.entries, read |-> more.read]
  IN from[0]

(* parse: one Unknown entry for everything, when the grammar does not      *)
(* match the whole file.                                                   *)
Parse ==
  LET config == Config IN
  IF config.read = Size THEN config.entries
  ELSE <<RawEntry("unknown", 0, Size, Span(0, 0), Size)>>
-----------------------------------------------------------------------------
(* Locations. *)
LineStarts == {0} \cup {p \in 1..Size : At(p - 1, {"\n"})}

(* Mutant: partition_point with < for <=. *)
LineCol_Strict(offset) ==
  LET before == {s \in LineStarts : s < offset} \cup {0}
  IN [line |-> Cardinality(before), column |-> offset - Max(before) + 1]

LineCol(offset) ==
  LET before == {s \in LineStarts : s <= offset}
  IN [line |-> Cardinality(before), column |-> offset - Max(before) + 1]

(* Tokens of the arguments with span args: the span and the column, which  *)
(* is counted on from that of the arguments.                               *)
Token(args, start, end) ==
  [span |-> Span(start, end), column |-> LineCol(args.start).column + (start - args.start)]

(* Mutant: a quoted token ends at a blank. *)
ClosingQuote_AtBlank(args, i) ==
  Min({q \in i + 1..args.end : q = args.end \/ At(q, {"\"", " "})})

(* Where the quote that opens at i is closed, or the end of the arguments. *)
ClosingQuote(args, i) ==
  Min({q \in i + 1..args.end : q = args.end \/ At(q, {"\""})})

QuotedToken(args, i) == Token(args, i + 1, ClosingQuote(args, i))

PlainEnd(args, i) == Min({q \in i..args.end : q = args.end \/ At(q, Blank \cup {"\""})})

Tokenize(args) ==
  LET from[i \in args.start..args.end + 2] ==
        IF i >= args.end THEN <<>>
        ELSE IF At(i, Blank) THEN from[i + 1]
        ELSE IF At(i, {"\""})
             THEN <<QuotedToken(args, i)>> \o from[ClosingQuote(args, i) + 1]
             ELSE <<Token(args, i, PlainEnd(args, i))>> \o from[PlainEnd(args, i)]
  IN from[args.start]
-----------------------------------------------------------------------------
(* Typed arguments: the tokens a directive's type takes, or an error that  *)
(* is located at the arguments or at one token.                            *)
Taken(values) == [ok |-> TRUE, values |-> values, at |-> Span(0, 0)]
Refused(span) == [ok |-> FALSE, values |-> <<>>, at |-> span]

TokenizeSingle(args) ==
  LET tokens == Tokenize(args) IN IF Len(tokens) # 1 THEN Refused(args) ELSE Taken(tokens)
TokenizePair(args) ==
  LET tokens == Tokenize(args) IN IF Len(tokens) # 2 THEN Refused(args) ELSE Taken(tokens)
TokenizeAtLeastOne(args) ==
  LET tokens == Tokenize(args) IN IF tokens = <<>> THEN Refused(args) ELSE Taken(tokens)

IsInteger(span) == span.end > span.start /\ Run(span.start, {"1"}) >= span.end
ParseSingleInteger(args) ==
  LET tokens == Tokenize(args) IN
  IF Len(tokens) # 1 THEN Refused(args)
  ELSE IF ~IsInteger(tokens[1].span) THEN Refused(tokens[1].span) ELSE Taken(tokens)

RemoteForwardArgs(args) ==
  LET tokens == Tokenize(args)
  IN IF tokens = <<>> \/ Len(tokens) > 2 THEN Refused(args) ELSE Taken(tokens)

(* The argument types, by the tokens they ask for: Host, Include and       *)
(* MultiArg; HostName, User, IdentityFile, CertificateFile,                *)
(* DynamicForward, ProxyJump and SingleArg; LocalForward; Port and the     *)
(* intervals, counts and timeouts; RemoteForward.                          *)
MultiArg(args) == TokenizeAtLeastOne(args)
SingleArg(args) == TokenizeSingle(args)
LocalForwardArgs(args) == TokenizePair(args)
PortArgs(args) == ParseSingleInteger(args)

ParseArguments(type, args) ==
  CASE type = "many"    -> MultiArg(args)
    [] type = "one"     -> SingleArg(args)
    [] type = "two"     -> LocalForwardArgs(args)
    [] type = "integer" -> PortArgs(args)
    [] type = "remote"  -> RemoteForwardArgs(args)

ArgumentTypes == {"many", "one", "two", "integer", "remote"}
-----------------------------------------------------------------------------
(* Patterns. *)
Lower(c) == IF c = "A" THEN "a" ELSE c

(* Mutant: a star stands for one character at least. *)
GlobMatch_StarNeedsOne(pat, txt) ==
  LET m[i \in 1..Len(pat) + 1, j \in 1..Len(txt) + 1] ==
        IF i > Len(pat) THEN j > Len(txt)
        ELSE IF pat[i] = "*" THEN j <= Len(txt) /\ (m[i + 1, j + 1] \/ m[i, j + 1])
        ELSE /\ j <= Len(txt)
             /\ pat[i] = "?" \/ Lower(pat[i]) = Lower(txt[j])
             /\ m[i + 1, j + 1]
  IN m[1, 1]

GlobMatch(pat, txt) ==
  LET m[i \in 1..Len(pat) + 1, j \in 1..Len(txt) + 1] ==
        IF i > Len(pat) THEN j > Len(txt)
        ELSE IF pat[i] = "*" THEN m[i + 1, j] \/ (j <= Len(txt) /\ m[i, j + 1])
        ELSE /\ j <= Len(txt)
             /\ pat[i] = "?" \/ Lower(pat[i]) = Lower(txt[j])
             /\ m[i + 1, j + 1]
  IN m[1, 1]
-----------------------------------------------------------------------------
(* Match. *)
Bare(token) == IF token = "!all" THEN "all" ELSE token
Flags == {"all", "canonical", "final"}
WithArgument == {"host", "exec"}

(* Mutant: an argument is read again as a criterion. *)
Criteria_NoAdvance ==
  LET from[i \in 1..Len(match) + 2] ==
        IF i > Len(match) THEN [error |-> "none", at |-> <<>>]
        ELSE IF Bare(match[i]) \notin Flags \cup WithArgument
             THEN [error |-> "unknown", at |-> <<>>]
        ELSE IF Bare(match[i]) \in WithArgument /\ i = Len(match)
             THEN [error |-> "missing", at |-> <<>>]
        ELSE LET more == from[i + 1] IN [more EXCEPT !.at = <<i>> \o @]
  IN from[1]

(* The loop over the tokens: where the criteria are, and its first error. *)
Criteria ==
  LET from[i \in 1..Len(match) + 2] ==
        IF i > Len(match) THEN [error |-> "none", at |-> <<>>]
        ELSE IF Bare(match[i]) \notin Flags \cup WithArgument
             THEN [error |-> "unknown", at |-> <<>>]
        ELSE IF Bare(match[i]) \in WithArgument /\ i = Len(match)
             THEN [error |-> "missing", at |-> <<>>]
        ELSE LET more == from[IF Bare(match[i]) \in WithArgument THEN i + 2 ELSE i + 1]
             IN [more EXCEPT !.at = <<i>> \o @]
  IN from[1]

(* Before the first `all' there is nothing but `canonical' and `final'; no *)
(* more is asked of what follows it.                                       *)
AllPlaced(at) ==
  \A k \in DOMAIN at :
    /\ Bare(match[at[k]]) = "all"
    /\ \A j \in 1..k - 1 : Bare(match[at[j]]) # "all"
    => \A j \in 1..k - 1 : match[at[j]] \in {"canonical", "final"}

MatchArgs ==
  IF match = <<>> THEN [error |-> "empty", at |-> <<>>]
  ELSE LET c == Criteria
       IN IF c.error = "none" /\ ~AllPlaced(c.at) THEN [c EXCEPT !.error = "placement"] ELSE c
-----------------------------------------------------------------------------
(* What the parser promises, in words that do not mention the parser. *)

(* Lines, by any of the three line ends, and their first character. *)
Lines ==
  {0} \cup {p \in 1..Size : At(p - 1, {"\n"}) \/ (At(p - 1, {"\r"}) /\ ~At(p, {"\n"}))}
LineNumber(p) == Cardinality({l \in Lines : l <= p})

(* A line whose keyword runs into a character that separates nothing. *)
Glued(l) ==
  LET k == Run(l, Blank) IN
  At(k, {"a"}) /\ At(Run(k, {"a", "1"}), FileChars \ ({" ", "="} \cup EndOfLine))

LoneCr == \E p \in 0..Size : At(p, {"\r"}) /\ ~At(p + 1, {"\n"})

(* Words of an argument string: what stands between a quote and its        *)
(* partner, and the runs of text outside quotes.                           *)
Quotes(args, p) == Cardinality({q \in args.start..p - 1 : At(q, {"\""})})
Outside(args, p) == Quotes(args, p) % 2 = 0 /\ ~At(p, Blank \cup {"\""})
Words(args) ==
  LET places == args.start..args.end - 1 IN
  {w \in [start : args.start..args.end, end : args.start..args.end] :
     \/ /\ w.start < w.end
        /\ \A p \in w.start..w.end - 1 : Outside(args, p)
        /\ w.start - 1 \in places => ~Outside(args, w.start - 1)
        /\ w.end \in places => ~Outside(args, w.end)
     \/ /\ w.start - 1 \in places /\ At(w.start - 1, {"\""})
        /\ Quotes(args, w.start - 1) % 2 = 0
        /\ w.start <= w.end
        /\ \A p \in w.start..w.end - 1 : ~At(p, {"\""})
        /\ w.end = args.end \/ At(w.end, {"\""})}

Directives(entries) == {e \in Range(entries) : e.kind = "directive"}

(* Every entry and every token lies in the file.  The slices the code      *)
(* makes of it would panic otherwise.                                      *)
TypeOK ==
  /\ typed \in 0..MaxTyped
  /\ \A e \in Range(Parse) :
       /\ 0 <= e.span.start /\ e.span.start <= e.span.end /\ e.span.end <= Size
       /\ \A i \in DOMAIN Tokenize(e.args) :
            LET s == Tokenize(e.args)[i].span
            IN s.start <= s.end /\ s.end <= e.args.end

(* "Unparseable lines are captured" (parse), "a line that could not be     *)
(* parsed (error recovery)" (Entry::Unknown): a file is read line by line, *)
(* one entry per line, in order, each with the whole of its line.          *)
(* Excepted is a file with a keyword that runs into another character:     *)
(* there the code does not do what these words say, for the rule of a      *)
(* directive matches the keyword alone, the file is not matched to its end *)
(* and no line of it is read.                                              *)
(* And the line and column by which an entry and each of its tokens are    *)
(* reported are those at which a reader finds them, in a file without a    *)
(* carriage return alone: line_col does not count that as a line end,      *)
(* although the grammar does.                                              *)
EntriesFollowLines ==
  \A entries \in {Parse} :
    /\ (\A l \in Lines : ~Glued(l)) =>
         /\ Len(entries) = Cardinality(Lines)
         /\ \A i \in DOMAIN entries :
              /\ LineNumber(entries[i].span.start) = i
              /\ AtLineEnd(entries[i].next) /\ entries[i].next >= entries[i].span.end
    /\ ~LoneCr => \A e \in Range(entries) :
         LET column(p) == p - Max({l \in Lines : l <= p}) + 1 IN
         /\ LineCol(e.span.start) =
              [line |-> LineNumber(e.span.start), column |-> column(e.span.start)]
         /\ e.kind = "directive" =>
              \A token \in Range(Tokenize(e.args)) :
                /\ LineNumber(token.span.start) = LineNumber(e.span.start)
                /\ token.column = column(token.span.start)

(* A directive's type is given the words of its line, quoted blanks and    *)
(* empty quotes included, in order, and refuses a wrong number of them.    *)
(* Every entry and token lies in the file besides.                         *)
ArgumentsAreWords ==
  /\ TypeOK
  /\ \A e \in Directives(Parse), type \in ArgumentTypes :
       LET words == Words(e.args)
           result == ParseArguments(type, e.args)
           fits == CASE type = "many" -> words # {}
                     [] type = "two" -> Cardinality(words) = 2
                     [] type = "remote" -> Cardinality(words) \in {1, 2}
                     [] OTHER -> Cardinality(words) = 1
       IN /\ result.ok => /\ fits
                          /\ {v.span : v \in Range(result.values)} = words
                          /\ \A i, j \in DOMAIN result.values :
                               i < j => result.values[i].span.end < result.values[j].span.end
          /\ fits /\ type # "integer" => result.ok

(* A pattern matches a text exactly when the text can be cut into pieces,  *)
(* one per character of the pattern: any piece for a star, one character   *)
(* for a question mark, itself in either case for a letter.  (Characters   *)
(* are single bytes here; the question mark takes one byte of a longer     *)
(* one.)                                                                   *)
GlobMatchesCuts ==
  LET n == Len(glob.pat)
      m == Len(glob.txt)
      piece(c, k) == SubSeq(glob.txt, (IF k = 1 THEN 0 ELSE c[k - 1]) + 1, c[k])
  IN GlobMatch(glob.pat, glob.txt) =
       IF n = 0 THEN m = 0
       ELSE \E c \in [1..n -> 0..m] :
              /\ c[n] = m
              /\ \A k \in 1..n - 1 : c[k] <= c[k + 1]
              /\ \A k \in 1..n :
                   \/ glob.pat[k] = "*"
                   \/ /\ Len(piece(c, k)) = 1
                      /\ glob.pat[k] = "?" \/ Lower(glob.pat[k]) = Lower(piece(c, k)[1])

(* What Match accepts is cut into criteria in one way: a token is an       *)
(* argument exactly when it follows a criterion that takes one, so that a  *)
(* host called `all' is not the criterion; and nothing but canonical and   *)
(* final precedes the first `all'.  What follows it is not restricted.     *)
MatchIsCutOnce ==
  MatchArgs.error = "none" =>
    LET at == Range(MatchArgs.at) IN
    /\ \A i \in DOMAIN match :
         i \notin at <=> i - 1 \in at /\ Bare(match[i - 1]) \in WithArgument
    /\ \A i \in at : Bare(match[i]) = "all" =>
         \A j \in at : j < i => Bare(match[j]) \in Flags \/ \E k \in at : k < j /\ Bare(match[k]) = "all"
=============================================================================
