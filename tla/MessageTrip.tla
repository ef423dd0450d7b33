---------------------------- MODULE MessageTrip ----------------------------
(***************************************************************************)
(* A message on its way between programs.  What its author meant is        *)
(* written, by a peer in one of the forms of Written, by the phone in its  *)
(* own; it is read at the other end; an answer to it is built from what    *)
(* was read, and goes the same way back.  Some of the forms of Written the *)
(* phone misreads: Readable names them.                                    *)
(***************************************************************************)
EXTENDS MessageText

CONSTANTS Builds,       \* the messages that the phone builds from nothing
          StatusCodes   \* of the responses it builds

VARIABLES
    stage,      \* of the message: "built", "sent" or "read"
    wire,       \* the text that was sent last
    message,    \* the object that was built or read last
    meant,      \* the message that its author meant
    style,      \* how its author writes it
    asked       \* the message it answers, as its author meant it

vars == <<stage, wire, message, meant, style, asked>>

-----------------------------------------------------------------------------
(* How a peer writes: a style is the form of its From and To, the blanks   *)
(* it leaves around separators, where the grammar lets it, and the blanks  *)
(* in front of the colon of an address header, a case of its own.          *)

Styles == [form : {"bare", "plain", "quoted"},
           blanks : {<<>>, <<" ">>}, colon : {<<>>, <<" ">>}]

Tidy(display) ==
    [form |-> IF display = <<>> THEN "plain" ELSE "quoted", blanks |-> <<>>, colon |-> <<>>]

\* No header of the phone's own has a display name or a blank.
OwnStyle == Tidy(<<>>)

WrittenParameters(ps, separator, how) ==
    FlattenSeq([i \in DOMAIN ps |->
        how.blanks \o <<separator>> \o how.blanks \o ps[i].name
            \o (IF ps[i].value = <<>> THEN <<>> ELSE <<"=">> \o ps[i].value)])

WrittenUri(uri) ==
    (IF uri.scheme = <<>> THEN <<>> ELSE uri.scheme \o <<":">>)
    \o (IF uri.user = <<>> THEN <<>> ELSE uri.user \o <<"@">>)
    \o uri.host
    \o (IF uri.port = 0 THEN <<>> ELSE <<":">> \o Decimal(uri.port))
    \o WrittenParameters(uri.parameters, ";", Tidy(<<>>))

WrittenContact(h, how) ==
    LET display == CASE how.form = "quoted" -> <<"\"">> \o h.displayName \o <<"\"">> \o how.blanks
                     [] how.form = "plain" -> h.displayName \o how.blanks
                     [] how.form = "bare" -> <<>>
    IN  h.name \o how.colon \o <<":">> \o how.blanks \o display
        \o (IF how.form = "bare" THEN WrittenUri(h.uri) ELSE <<"<">> \o WrittenUri(h.uri) \o <<">">>)
        \o WrittenParameters(h.parameters, ";", how)

\* A To, which has no display name here, is not quoted.
WrittenHeader(h, how) ==
    LET value == CASE h.name = <<"Via">> -> h.transport \o <<" ">> \o how.blanks
                                             \o WrittenUri(h.uri) \o WrittenParameters(h.parameters, ";", how)
                   [] h.name = <<"Call-ID">> -> h.id
                   [] h.name = <<"CSeq">> -> Decimal(h.seq) \o <<" ">> \o h.method
                   [] h.name \in AuthHeaders ->
                        h.mechanism \o <<" ">> \o Tail(WrittenParameters(h.parameters, ",", [how EXCEPT !.blanks = <<>>]))
    IN  CASE h.name \notin ContactHeaders -> h.name \o how.blanks \o <<":">> \o how.blanks \o value
          [] OTHER -> WrittenContact(h, IF h.displayName = <<>> /\ how.form = "quoted"
                                        THEN [how EXCEPT !.form = "plain"] ELSE how)

WrittenStart(m) ==
    IF m.type = "request"
    THEN m.start.method \o <<" ">> \o WrittenUri(m.start.requestUri) \o <<" ">> \o SipVersion
    ELSE SipVersion \o <<" ">> \o Decimal(m.start.statusCode) \o <<" ">> \o m.start.reasonPhrase

\* Its lines, one of them with a header that the phone does not know.
Written(m, how) ==
    <<WrittenStart(m), <<"Server", ":", " ", "PBX">> >>
        \o [i \in DOMAIN m.headers |-> WrittenHeader(m.headers[i], how)]

-----------------------------------------------------------------------------
(* What a peer has to say. *)

ViaOf(port, parameters) ==
    [name |-> <<"Via">>, transport |-> Transport,
     uri |-> Uri(<<>>, <<>>, <<"proxy">>, port, <<>>), parameters |-> parameters]

Branch == Parameter(<<"branch">>, <<"z9-1">>)
Rport == Parameter(<<"rport">>, <<>>)
Received == Parameter(<<"received">>, <<"local">>)

Displays == {<<>>, <<"Al">>, <<"Al", " ", "Bo">>, <<"Al", ":", "Bo">>, <<"Al", "<", "Bo">>}

FromOf(display) ==
    [ContactHeader("From", UserAt(<<"88002">>, <<"proxy">>), <<Tag(<<"as4">>)>>)
        EXCEPT !.displayName = display]

Line == Parameter(<<"line">>, <<"98">>)

Tos ==
    {ContactHeader("To", UserAt(<<"88001">>, <<"proxy">>), tags) : tags \in {<<>>, <<Tag(<<"as7">>)>>}}
    \cup {ContactHeader("To", Uri(<<"sip">>, <<"88001">>, <<"local">>, 5060, ps), <<>>) :
             ps \in {<<Line>>, <<Line, Parameter(<<"transport">>, <<"udp">>)>>}}

CallIds == {<<"1">>, <<"id-1">>, <<"id-1", "@", "proxy", ":", "5060">>}

Vias == {ViaOf(port, ps) : port \in {0, 5060}, ps \in {<<Branch>>, <<Branch, Rport>>, <<Rport, Branch, Received>>}}

PeerRequests ==
    {Message("request",
        [method |-> method, sipVersion |-> SipVersion,
         requestUri |-> Uri(<<"sip">>, <<"88001">>, <<"local">>, port, <<>>)],
        <<via, FromOf(display), to, [name |-> <<"Call-ID">>, id |-> id],
          [name |-> <<"CSeq">>, seq |-> 102, method |-> method]>>)
     : method \in {<<"INVITE">>, <<"BYE">>}, port \in {0, 5060}, via \in Vias,
       display \in Displays, to \in Tos, id \in CallIds}

Realm == Parameter(<<"realm">>, <<"\"", "asterisk", "\"">>)
Nonce == Parameter(<<"nonce">>, <<"\"", "1c", "=", "\"">>)
Algorithm == Parameter(<<"algorithm">>, <<"MD5">>)

\* Challenges to a REGISTER of the phone.
Challenges ==
    {Message("response",
        [sipVersion |-> SipVersion, statusCode |-> 401, reasonPhrase |-> <<"Not", " ", "yet">>],
        <<via, [FromOf(<<>>) EXCEPT !.uri.user = GetUserName], to,
          [name |-> <<"Call-ID">>, id |-> id], [name |-> <<"CSeq">>, seq |-> 20, method |-> <<"REGISTER">>],
          [name |-> <<"WWW-Authenticate">>, mechanism |-> <<"Digest">>, parameters |-> ps]>>)
     : via \in Vias, to \in Tos, id \in CallIds,
       ps \in {<<Realm, Nonce>>, <<Algorithm, Realm, Nonce>>, <<Nonce, Algorithm, Realm>>}}

\* What the grammar demands: only a display name without separators goes without
\* quotes, and none of them, nor the parameters of an address, without brackets.
MayWrite(m, how) ==
    LET display == Header(m, "From").displayName IN
    CASE how.form = "quoted" -> display # <<>>
      [] how.form = "plain" -> Range(display) \cap {":", "<"} = {}
      [] how.form = "bare" -> display = <<>> /\ Header(m, "To").uri.parameters = <<>>

\* What the phone can read.  It misreads, of what a peer may write:
\*  - a blank in front of an address without brackets ("To: sip:u@h"): ParseUri
\*    looks for the scheme before it skips blanks (URI.c:34, 147);
\*  - a blank in front of the colon of an address header, unless the address is
\*    in brackets and the display name not in quotes: the colon is taken for the
\*    first word of the value (ContactHeader.c:97);
\*  - a second parameter of an address: the first one's end is the next separator,
\*    and the rest is dropped (URI.c:29);
\*  - a Call-ID of one character with a blank in front of it (Parser.c:25).
Readable(m, how) ==
    /\ how.form = "bare" => how.blanks = <<>>
    /\ how.form # "plain" => how.colon = <<>>
    /\ m.type # "client" => \A h \in Range(m.headers) :
         /\ h.name \in ContactHeaders => Len(h.uri.parameters) <= 1
         /\ h.name = <<"Call-ID">> /\ h.id = <<"1">> => how.blanks = <<>>

\* What the stack tells its client and what the client commands.
ClientMessages ==
    {ClientMessage(ua, event, <<>>) : ua \in {0, 20}, event \in 0 .. 7}
    \cup {ClientMessage(0, 6, data) : data \in {<<"88002">>, <<"sip", ":", "88002", "@", "proxy">>}}

-----------------------------------------------------------------------------
OwnMessage(kind) ==
    CASE kind = "INVITE" -> BuildInviteMessage
      [] kind = "REGISTER" -> BuildBindingMessage(3600)
      [] kind = "UNREGISTER" -> BuildBindingMessage(0)

\* SipMessageCallback and the callback of the client's socket.
Read ==
    /\ stage = "sent"
    /\ stage' = "read"
    /\ message' = IF meant.type = "client" THEN ParseClientMessage(wire[1]) ELSE ParseMessage(wire)
    /\ UNCHANGED <<wire, meant, style, asked>>

Write ==
    /\ stage = "built"
    /\ stage' = "sent"
    /\ wire' = IF meant.type = "client" THEN <<BuildClientMessage(message)>> ELSE Message2String(message)
    /\ UNCHANGED <<message, meant, style, asked>>

Built(m) ==
    /\ stage' = "built"
    /\ message' = m /\ meant' = m /\ style' = OwnStyle /\ asked' = meant
    /\ UNCHANGED wire

\* What the phone makes of a message it misread is not followed.
ReadRight == stage = "read" /\ message = meant

\* The server transaction answers what was read.
Respond(code) ==
    /\ ReadRight /\ message.type = "request" /\ message.start.method # <<"ACK">>
    /\ Built(BuildResponse(message, code))

\* HandleRegisterEvent answers a challenge.
Authorize ==
    /\ ReadRight /\ message.type = "response" /\ message.start.statusCode = 401
    /\ HasHeader(message, "WWW-Authenticate")
    /\ Built(BuildAuthorizationMessage(message))

\* An INVITE of the phone was accepted or rejected, by a peer with this tag.
Acknowledge(tag) ==
    /\ stage = "sent" /\ message.type = "request" /\ message.start.method = <<"INVITE">>
    /\ Built(DialogAck(message, tag)) \/ Built(BuildAckMessageWithTag(message, tag))

PeerWrote(m, how) ==
    /\ MayWrite(m, how)
    /\ stage = "sent" /\ wire = Written(m, how) /\ style = how
    /\ message = NoMessage /\ meant = m /\ asked = NoMessage

PhoneBuilt(m) ==
    /\ stage = "built" /\ wire = <<>> /\ style = OwnStyle
    /\ message = m /\ meant = m /\ asked = NoMessage

Init ==
    \/ \E how \in Styles, m \in PeerRequests \cup Challenges : PeerWrote(m, how)
    \/ \E kind \in Builds : PhoneBuilt(OwnMessage(kind))
    \/ \E m \in ClientMessages : PhoneBuilt(m)

Next ==
    \/ Read \/ Write \/ Authorize
    \/ \E code \in StatusCodes : Respond(code)
    \/ Acknowledge(<<"as7">>)

Spec == Init /\ [][Next]_vars

-----------------------------------------------------------------------------
(* Properties *)

\* Of the forms of Written exactly those Readable lets through are read as they
\* were meant: the tables that are put together for each text fit it, the phone
\* reads its own requests, responses and client messages, and the list of what it
\* misreads is complete, and no longer than it must be (Parser.c:153, URI.c:122,
\* ContactHeader.c:91).  Nothing is said of what Written does not write: tabs,
\* folded lines, compact or lower-case names, several values in one header, names
\* beginning with "sip", escapes in quotes; nor, here, of an expiry of 0, which the
\* phone builds (ExpiryArrives).
Understood == stage = "read" => (message = meant <=> Readable(meant, style))

\* A response names the request to its sender: on the wire it has the Via, the
\* From, the Call-ID and the CSeq of the request as the peer wrote it, and its
\* To with a tag, its own or the phone's (MessageBuilder.c:287-326).
EchoesRequest ==
    stage = "sent" /\ asked.type = "request" /\ meant.type = "response" =>
        LET to == Header(asked, "To")
            tagged == IF TagOf(asked, "To") # NoValue THEN to
                      ELSE [to EXCEPT !.parameters = Append(@, Tag(<<"fresh">>))]
            tidy(h) == WrittenHeader(h, Tidy(Header(asked, "From").displayName))
        IN  SubSeq(wire, 2, 6) =
                <<tidy(Header(asked, "Via")), tidy(Header(asked, "From")), tidy(tagged),
                  tidy(Header(asked, "Call-ID")), tidy(Header(asked, "CSeq"))>>

\* The answer to a challenge is the next request of the challenged call, and its
\* credentials name realm and nonce as the registrar quoted them, hashed without
\* the quotes (MessageBuilder.c:235-284, WWW_AuthenticationHeader.c:59-73, 104).
AnswersChallenge ==
    stage = "sent" /\ asked.type = "response" =>
        LET cseq == [Header(asked, "CSeq") EXCEPT !.seq = @ + 1]
            credentials ==
                [name |-> <<"Authorization">>, mechanism |-> <<"Digest">>,
                 parameters |->
                    <<Parameter(<<"username">>, <<"\"", "88001", "\"">>),
                      Parameter(<<"uri">>, <<"\"", "sip", ":", "proxy", "\"">>), Realm, Nonce,
                      Parameter(<<"response">>,
                                <<"\"", "md5", "asterisk", "1c", "=", "sip", ":", "proxy", "\"">>),
                      Algorithm>>]
        IN  {WrittenHeader(h, Tidy(<<>>)) : h \in {Header(asked, "Call-ID"), cseq, credentials}}
                \subseteq Range(wire)

\* The registrar reads the expiry of a REGISTER that the phone built, also of the
\* one that removes a binding (BindingMessageBuildTest.cpp, UnbindingMessage).
ExpiryArrives ==
    stage = "read" /\ meant.type = "request" /\ HasHeader(meant, "Expires") =>
        HasHeader(message, "Expires") /\ Header(message, "Expires").value = Header(meant, "Expires").value
=============================================================================
