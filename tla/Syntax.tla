------------------------------- MODULE Syntax -------------------------------
(***************************************************************************)
(* Header patterns: Parser.c, Parameter.c, URI.c and the header files.     *)
(*                                                                         *)
(* A pattern lists the elements of a line, each with the separators around *)
(* it; ONE table reads the line into an object and writes it back.  The    *)
(* tables of a URI and of a contact header are put together for each text, *)
(* from the look of its beginning.                                         *)
(*                                                                         *)
(* A text is a sequence of tokens: a token is one separator character, or  *)
(* a word without separators.  Positions count from 1; the position after  *)
(* the last token is the NUL that ends the C string, position 0 is NULL.   *)
(***************************************************************************)
EXTENDS SequencesExt, Integers

CONSTANT Numbers    \* bound: the integers whose decimals occur in a text

ASSUME NumbersAssumption == Numbers \subseteq Nat /\ 0 \in Numbers

NULL == 0
EMPTY == "EMPTY"    \* no separator here: the text begins or ends
ANY == "ANY"        \* whichever separator comes next

Pattern(start, end, field, kind) ==
    [start |-> start, end |-> end, field |-> field, kind |-> kind,
     format |-> "*", mandatory |-> FALSE]

Mandatory(p) == [p EXCEPT !.mandatory = TRUE]

\* Format "*^": a place between two separators that holds no element.
Placeholder(start, end, field) == [Pattern(start, end, field, "none") EXCEPT !.format = "*^"]

-----------------------------------------------------------------------------
(* Parser.c, reading *)

End(t) == Len(t) + 1

SkipSpaces(t, p) == Min({i \in p .. End(t) : i = End(t) \/ t[i] # " "})

\* strchr: also the NUL may be asked for.
Strchr(t, p, c) == IF c = EMPTY THEN End(t) ELSE SelectInSubSeq(t, p, Len(t), LAMBDA x : x = c)

NextSeparator(t, p) ==
    Min({i \in p .. End(t) : i = End(t) \/ t[i] \in {" ", ";", ":", "@", "?", "\""}})

\* The end of an element that begins at p.  Format "//" looks behind a slash.
FindEndSeparator(t, p, pattern) ==
    LET first == SkipSpaces(t, p)
        end   == Strchr(t, first, pattern.end)
    IN  CASE pattern.end = ANY -> NextSeparator(t, first)
          [] pattern.format = "//" -> Strchr(t, Strchr(t, first, "/") + 1, pattern.end)
          [] OTHER -> IF end = NULL /\ pattern.mandatory THEN End(t) ELSE end

\* An element that does not begin with its separator is absent.
FindNextComponent(t, p, pattern) ==
    IF p = NULL \/ pattern.start = EMPTY
    THEN IF p = NULL THEN NULL ELSE FindEndSeparator(t, p, pattern)
    ELSE LET end == FindEndSeparator(t, p + 1, pattern)
             begins == p < End(t) /\ t[p] = pattern.start
         IN  IF begins /\ end # NULL THEN end ELSE p

\* FAULT: the separator in front of an element is taken for a part of it.
SkipLeadingSeparatorNever(first, p) == p

SkipLeadingSeparator(first, p) == IF p = first THEN p ELSE p + 1

\* The loop of Parse: the text of every element, by its field.
Elements(t, patterns) ==
    LET ends[i \in 0 .. Len(patterns)] ==
            IF i = 0 THEN SkipSpaces(t, 1)
            ELSE FindNextComponent(t, ends[i - 1], patterns[i])
        Element(i) == SubSeq(t, SkipLeadingSeparator(ends[0], ends[i - 1]), ends[i] - 1)
        Place(f) == CHOOSE i \in DOMAIN patterns : patterns[i].field = f /\ patterns[i].kind # "none"
    IN  [f \in {p.field : p \in {q \in Range(patterns) : q.kind # "none"}} |-> Element(Place(f))]

\* Without the spaces around it.
Trim(t) ==
    LET words == {i \in DOMAIN t : t[i] # " "}
    IN  IF words = {} THEN <<>> ELSE SubSeq(t, Min(words), Max(words))

\* ParseString: also empty when the skipping of leading spaces comes to the last
\* character of the text, which is thereby lost.
ParseString(t) ==
    LET one == Len(Trim(t)) = 1 /\ Len(Head(Trim(t))) = 1
    IN  IF one /\ Head(t) = " " /\ Last(t) # " " THEN <<>> ELSE Trim(t)

\* sprintf with %d.
Decimal(n) == <<ToString(n)>>

\* ParseInteger (atoi): what does not begin with a number is 0.
ParseInteger(t) ==
    LET s == Trim(t) IN
    IF \E n \in Numbers : IsPrefix(Decimal(n), s)
    THEN CHOOSE n \in Numbers : IsPrefix(Decimal(n), s) ELSE 0

-----------------------------------------------------------------------------
(* Parser.c, writing *)

Separator(p) == IF p.start = EMPTY THEN <<>> ELSE <<p.start>>

\* String2String: without an element there is no separator either.
String2String(v, p) ==
    IF v = <<>> THEN <<>> ELSE Separator(p) \o (IF p.format = "*^" THEN <<>> ELSE v)

\* FAULT: an integer is written whatever its value.
Integer2StringAlways(v, p) == Separator(p) \o Decimal(v)

Integer2String(v, p) ==
    IF v = 0 /\ ~p.mandatory THEN <<>> ELSE Separator(p) \o Decimal(v)

-----------------------------------------------------------------------------
(* Parameter.c: a list of names with values. *)

Parameter(name, value) == [name |-> name, value |-> value]

ParameterPattern ==
    <<Mandatory(Pattern(EMPTY, "=", "name", "string")), Pattern("=", EMPTY, "value", "string")>>

ParseParameter(t) ==
    LET e == Elements(t, ParameterPattern)
    IN  Parameter(ParseString(e["name"]), ParseString(e["value"]))

\* strtok_r until NULL: the pieces between the separators, but the empty ones.
Strtok(t, c) ==
    LET cuts == SetToSortSeq({0, End(t)} \cup {i \in DOMAIN t : t[i] = c}, <)
        piece == [k \in 1 .. Len(cuts) - 1 |-> SubSeq(t, cuts[k] + 1, cuts[k + 1] - 1)]
    IN  SelectSeq(piece, LAMBDA s : s # <<>>)

\* FAULT: parameters are separated by semicolons only.
ParseParametersExtSemicolon(t) ==
    LET pieces == Strtok(t, ";") IN [k \in DOMAIN pieces |-> ParseParameter(pieces[k])]

\* ParseParametersExt: commas separate where no semicolon does.
ParseParametersExt(t) ==
    LET pieces == Strtok(t, IF ";" \in Range(t) THEN ";" ELSE ",")
    IN  [k \in DOMAIN pieces |-> ParseParameter(pieces[k])]

NoValue == <<"NULL">>

\* GetParameter: the first of that name, NULL if there is none.
GetParameter(ps, name) ==
    LET i == SelectInSeq(ps, LAMBDA p : p.name = name)
    IN  IF i = 0 THEN NoValue ELSE ps[i].value

\* AddParameter: over the last of that name, if there is one.
AddParameter(ps, name, value) ==
    LET i == SelectLastInSeq(ps, LAMBDA p : p.name = name)
    IN  IF i = 0 THEN Append(ps, Parameter(name, value)) ELSE [ps EXCEPT ![i].value = value]

\* Parameters2StringExt: the pattern's separator before the first, then semicolons.
Parameters2String(ps, start) ==
    FlattenSeq([i \in DOMAIN ps |->
        <<IF i = 1 THEN start ELSE ";">>
            \o String2String(ps[i].name, ParameterPattern[1])
            \o String2String(ps[i].value, ParameterPattern[2])])

\* ParametersDup: added one after the other to an empty list.
ParametersDup(ps) ==
    FoldLeft(LAMBDA copy, p : AddParameter(copy, p.name, p.value), <<>>, ps)

-----------------------------------------------------------------------------
(* URI.c *)

Uri(scheme, user, host, port, parameters) ==
    [scheme |-> scheme, user |-> user, host |-> host, port |-> port,
     parameters |-> parameters, headers |-> <<>>]

EmptyUri == Uri(<<>>, <<>>, <<>>, 0, <<>>)

IsSipOrSipsScheme(t, p) == p < End(t) /\ t[p] \in {"sip", "sips"}

\* FAULT: the host's separator is the one of the last URI that had a user.
GetURIPatternStale(hasUser, hasScheme) ==
    (IF hasScheme THEN <<Pattern(EMPTY, ":", "scheme", "string")>> ELSE <<>>)
    \o (IF hasUser THEN <<Pattern(":", "@", "user", "string")>> ELSE <<>>)
    \o <<Pattern("@", ANY, "host", "string"), Pattern(":", ANY, "port", "integer"),
         Pattern(";", ANY, "parameters", "parameters"), Pattern("?", ANY, "headers", "parameters")>>

\* GetURIPattern: the separator before the host depends on what comes before it.
GetURIPattern(hasUser, hasScheme) ==
    LET beforeHost == IF hasUser THEN "@" ELSE IF hasScheme THEN ":" ELSE EMPTY IN
    (IF hasScheme THEN <<Pattern(EMPTY, ":", "scheme", "string")>> ELSE <<>>)
    \o (IF hasUser THEN <<Pattern(":", "@", "user", "string")>> ELSE <<>>)
    \o <<Pattern(beforeHost, ANY, "host", "string"), Pattern(":", ANY, "port", "integer"),
         Pattern(";", ANY, "parameters", "parameters"), Pattern("?", ANY, "headers", "parameters")>>

\* What the parse function of a pattern makes of its element.
SimpleValue(t, kind) ==
    CASE kind = "string" -> ParseString(t)
      [] kind = "integer" -> ParseInteger(t)
      [] kind = "parameters" -> ParseParametersExt(t)

KindOf(patterns, f) == (CHOOSE p \in Range(patterns) : p.field = f /\ p.kind # "none").kind

\* ParseUri, into an empty URI.  The scheme is looked for at the very beginning.
ParseUri(t) ==
    LET patterns == GetURIPattern("@" \in Range(t), IsSipOrSipsScheme(t, 1))
        e == Elements(t, patterns)
    IN  [f \in DOMAIN e |-> SimpleValue(e[f], KindOf(patterns, f))] @@ EmptyUri

SimpleText(v, p) ==
    CASE p.kind \in {"string", "none"} -> String2String(v, p)
      [] p.kind = "integer" -> Integer2String(v, p)
      [] p.kind = "parameters" -> Parameters2String(v, p.start)

\* Uri2StringExt.
Uri2String(uri) ==
    LET patterns == GetURIPattern(uri.user # <<>>, uri.scheme # <<>>)
    IN  FlattenSeq([i \in DOMAIN patterns |-> SimpleText(uri[patterns[i].field], patterns[i])])

\* UriDup.
UriDup(uri) ==
    [uri EXCEPT !.parameters = ParametersDup(@), !.headers = ParametersDup(@)]

-----------------------------------------------------------------------------
(* Parse and ToString over the table of a header or of a start line. *)

\* Parse into an object that holds "empty": what no pattern fills keeps its value.
Parse(t, patterns, empty) ==
    LET e == Elements(t, patterns)
        Value(f) == IF KindOf(patterns, f) = "uri" THEN ParseUri(e[f])
                    ELSE SimpleValue(e[f], KindOf(patterns, f))
    IN  [f \in DOMAIN e |-> Value(f)] @@ empty

\* ToString of Parser.c.
Text(object, patterns) ==
    FlattenSeq([i \in DOMAIN patterns |->
        LET p == patterns[i]
            v == object[p.field]
        IN  IF p.kind = "uri" THEN Separator(p) \o Uri2String(v) ELSE SimpleText(v, p)])

Name == Pattern(EMPTY, ":", "name", "string")

RequestLinePattern ==
    <<Pattern(EMPTY, " ", "method", "string"), Pattern(" ", " ", "requestUri", "uri"),
      Pattern(" ", EMPTY, "sipVersion", "string")>>

StatusLinePattern ==
    <<Pattern(EMPTY, " ", "sipVersion", "string"), Pattern(" ", " ", "statusCode", "integer"),
      Pattern(" ", EMPTY, "reasonPhrase", "string")>>

ViaHeaderPattern ==
    <<Name, [Pattern(":", " ", "transport", "string") EXCEPT !.format = "//"],
      Mandatory(Pattern(" ", ";", "uri", "uri")), Pattern(";", EMPTY, "parameters", "parameters")>>

CSeqHeaderPattern ==
    <<Name, Pattern(":", " ", "seq", "integer"), Pattern(" ", EMPTY, "method", "string")>>

CallIdHeaderPattern == <<Name, Pattern(":", EMPTY, "id", "string")>>

\* Expires and Max-Forwards.
IntegerHeaderPattern == <<Name, Pattern(":", EMPTY, "value", "integer")>>

ContentLengthHeaderPattern == <<Mandatory(Name), Mandatory(Pattern(":", EMPTY, "value", "integer"))>>

AuthHeaderPattern ==
    <<Name, Pattern(":", " ", "mechanism", "string"), Pattern(" ", EMPTY, "parameters", "parameters")>>

\* ContactHeader.c: three tables.
DisplayName(start, end) == Pattern(start, end, "displayName", "string")
BracketedUri == Pattern("<", ">", "uri", "uri")
HeaderParameters == Pattern(";", EMPTY, "parameters", "parameters")

BuildQuotedDisplayNamePattern ==
    <<Name, Placeholder(":", "\"", "name"), DisplayName("\"", "\""),
      Placeholder("\"", "<", "displayName"), BracketedUri, Placeholder(">", ";", "name"),
      HeaderParameters>>

BuildContactPattern ==
    <<Name, DisplayName(":", "<"), BracketedUri, Placeholder(">", ";", "name"), HeaderParameters>>

BuildNoDisplayNamePattern ==
    <<Name, Mandatory(Pattern(":", ";", "uri", "uri")), HeaderParameters>>

\* FAULT: a display name is never taken for a quoted one.
GetContactHeaderPatternUnquoted(t) ==
    LET token == SkipSpaces(t, NextSeparator(t, SkipSpaces(t, 1)) + 1) IN
    IF IsSipOrSipsScheme(t, token) THEN BuildNoDisplayNamePattern ELSE BuildContactPattern

\* Which of them, from the first word behind the name of the header.
GetContactHeaderPattern(t) ==
    LET token == SkipSpaces(t, NextSeparator(t, SkipSpaces(t, 1)) + 1)
        next  == NextSeparator(t, token)
    IN  CASE IsSipOrSipsScheme(t, token) -> BuildNoDisplayNamePattern
          [] OTHER -> IF next < End(t) /\ t[next] = "\"" THEN BuildQuotedDisplayNamePattern
                      ELSE BuildContactPattern

EmptyContactHeader(name) ==
    [name |-> name, displayName |-> <<>>, uri |-> EmptyUri, parameters |-> <<>>]

ParseContactHeader(t) == Parse(t, GetContactHeaderPattern(t), EmptyContactHeader(<<"Contact">>))

ContactHeader2String(header) == Text(header, BuildQuotedDisplayNamePattern)

\* ContactHeaderDup and ViaHeaderDup.
HeaderDup(header) ==
    [header EXCEPT !.uri = UriDup(@), !.parameters = ParametersDup(@)]

\* AuthHeader2String: every semicolon of the line becomes a comma.
AuthHeader2String(header) == ReplaceAll(Text(header, AuthHeaderPattern), ";", ",")
=============================================================================
