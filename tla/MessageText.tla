---------------------------- MODULE MessageText ----------------------------
(***************************************************************************)
(* Messages.c, Headers.c and MessageBuilder.c over the header patterns of  *)
(* Syntax, and the client protocol of CallManager.c over its parameters.   *)
(*                                                                         *)
(* A message is its start line and its list of headers.  Its text is a     *)
(* sequence of lines, each a sequence of tokens; content behind the        *)
(* headers is left out, ParseSdp ignores it.                               *)
(***************************************************************************)
EXTENDS Syntax

SipVersion == <<"SIP", "/", "2.0">>
Transport == <<"SIP", "/", "2.0", "/", "UDP">>

Message(type, start, headers) == [type |-> type, start |-> start, headers |-> headers]

NoMessage == Message("none", <<>>, <<>>)

-----------------------------------------------------------------------------
(* Headers.c: a table of header names. *)

ContactHeaders == {<<"To">>, <<"From">>, <<"Contact">>}
AuthHeaders == {<<"WWW-Authenticate">>, <<"Authorization">>}
IntegerHeaders == {<<"Expires">>, <<"Max-Forwards">>}

\* The table of a header that is no contact header.
PatternOf(name) ==
    CASE name = <<"Via">> -> ViaHeaderPattern
      [] name = <<"CSeq">> -> CSeqHeaderPattern
      [] name = <<"Call-ID">> -> CallIdHeaderPattern
      [] name = <<"Content-Length">> -> ContentLengthHeaderPattern
      [] name \in IntegerHeaders -> IntegerHeaderPattern
      [] name \in AuthHeaders -> AuthHeaderPattern

HeaderOps ==
    {<<"Via">>, <<"CSeq">>, <<"Call-ID">>, <<"Content-Length">>}
        \cup ContactHeaders \cup AuthHeaders \cup IntegerHeaders

ExtractHeaderName(line) == Trim(SubSeq(line, 1, Strchr(line, 1, ":") - 1))

\* RawParseHeader: a line with another name is skipped.
RawParseHeader(line) ==
    LET name == ExtractHeaderName(line) IN
    CASE name \notin HeaderOps -> <<>>
      [] name \in ContactHeaders -> <<ParseContactHeader(line)>>
      [] OTHER -> <<Parse(line, PatternOf(name), <<>>)>>

Header2String(header) ==
    CASE header.name \in ContactHeaders -> ContactHeader2String(header)
      [] header.name \in AuthHeaders -> AuthHeader2String(header)
      [] OTHER -> Text(header, PatternOf(header.name))

HasHeader(m, name) == \E h \in Range(m.headers) : h.name = <<name>>

\* MessageGetHeader: the first of that name.
Header(m, name) == m.headers[SelectInSeq(m.headers, LAMBDA h : h.name = <<name>>)]

\* An assignment to fields of that header.
WithHeader(m, name, header) ==
    [m EXCEPT !.headers[SelectInSeq(m.headers, LAMBDA h : h.name = <<name>>)] = header]

-----------------------------------------------------------------------------
(* Messages.c *)

SipMethods ==
    {<<"INVITE">>, <<"ACK">>, <<"OPTIONS">>, <<"BYE">>, <<"CANCEL">>, <<"REGISTER">>,
     <<"INFO">>, <<"PRACK">>, <<"SUBSCRIBE">>, <<"NOTIFY">>, <<"UPDATE">>, <<"MESSAGE">>,
     <<"REFER">>, <<"PUBLISH">>}

\* ParseMessageType, from the first line.
ParseMessageType(line) ==
    CASE IsPrefix(SipVersion, line) -> "response"
      [] OTHER -> IF ParseString(Elements(line, RequestLinePattern)["method"]) \in SipMethods
                  THEN "request" ELSE "none"

\* ParseHeaders: the start line, then the headers one after the other.
ParseMessage(lines) ==
    LET type == ParseMessageType(lines[1]) IN
    IF type = "none" THEN NoMessage
    ELSE Message(type,
                 Parse(lines[1], IF type = "request" THEN RequestLinePattern ELSE StatusLinePattern, <<>>),
                 FlattenSeq([i \in 1 .. Len(lines) - 1 |-> RawParseHeader(lines[i + 1])]))

\* Message2String, with its lines apart.
Message2String(m) ==
    <<Text(m.start, IF m.type = "request" THEN RequestLinePattern ELSE StatusLinePattern)>>
        \o [i \in DOMAIN m.headers |-> Header2String(m.headers[i])]

-----------------------------------------------------------------------------
(* MessageBuilder.c, requests *)

GetUserName == <<"88001">>
GetPassword == <<"88001">>
GetProxy == <<"proxy">>
GetLocalIpAddr == <<"local">>
LocalPort == 5060
Tag(value) == Parameter(<<"tag">>, value)
UserAt(user, host) == Uri(<<"sip">>, user, host, 0, <<>>)

ContactHeader(name, uri, parameters) ==
    [EmptyContactHeader(<<name>>) EXCEPT !.uri = uri, !.parameters = parameters]

\* BuildRequest: a request with fresh branch, tag and Call-ID.
BuildRequest(method, from, to, host) ==
    Message("request",
        [method |-> method, sipVersion |-> SipVersion,
         requestUri |-> UserAt(IF method = <<"REGISTER">> THEN <<>> ELSE to, host)],
        << [name |-> <<"Via">>, transport |-> Transport,
            uri |-> Uri(<<>>, <<>>, GetLocalIpAddr, LocalPort, <<>>),
            parameters |-> <<Parameter(<<"rport">>, <<>>), Parameter(<<"branch">>, <<"z9-own">>)>>],
           ContactHeader("From", UserAt(from, host), <<Tag(<<"own">>)>>),
           ContactHeader("To", UserAt(to, host), <<>>),
           [name |-> <<"Call-ID">>, id |-> <<"id-own">>],
           ContactHeader("Contact",
               Uri(<<"sip">>, from, GetLocalIpAddr, 0, <<Parameter(<<"line">>, <<"6c">>)>>), <<>>),
           [name |-> <<"Max-Forwards">>, value |-> 70],
           [name |-> <<"CSeq">>, seq |-> 20, method |-> method],
           [name |-> <<"Content-Length">>, value |-> 0] >>)

\* BuildAddBindingMessage with 3600 and BuildRemoveBindingMessage with 0.
BuildBindingMessage(expires) ==
    LET register == BuildRequest(<<"REGISTER">>, GetUserName, GetUserName, GetProxy)
    IN  [register EXCEPT !.headers = Append(@, [name |-> <<"Expires">>, value |-> expires])]

BuildInviteMessage == BuildRequest(<<"INVITE">>, GetUserName, <<"88002">>, GetProxy)

User(m, name) == Header(m, name).uri.user
TagOf(m, name) == GetParameter(Header(m, name).parameters, <<"tag">>)
SetTag(m, name, tag) ==
    WithHeader(m, name, [Header(m, name) EXCEPT !.parameters = AddParameter(@, <<"tag">>, tag)])

\* DialogAck: BuildAckMessage of the INVITE, and the tag of the peer.
DialogAck(invite, tag) ==
    LET ack == BuildRequest(<<"ACK">>, User(invite, "From"), User(invite, "To"), GetProxy)
        seq == [Header(ack, "CSeq") EXCEPT !.seq = Header(invite, "CSeq").seq]
        fromTag == SetTag(WithHeader(ack, "CSeq", seq), "From", TagOf(invite, "From"))
    IN  SetTag(WithHeader(fromTag, "Call-ID", Header(invite, "Call-ID")), "To", tag)

-----------------------------------------------------------------------------
(* MessageBuilder.c, answers *)

\* FAULT: every response gets a new tag.
BuildResponseToHeaderFresh(request) ==
    LET to == HeaderDup(Header(request, "To"))
    IN  [to EXCEPT !.parameters = AddParameter(@, <<"tag">>, <<"fresh">>)]

\* BuildResponseToHeader: a tag of our own only where the peer knows none.
BuildResponseToHeader(request) ==
    LET to == HeaderDup(Header(request, "To")) IN
    IF TagOf(request, "To") # NoValue THEN to
    ELSE [to EXCEPT !.parameters = AddParameter(@, <<"tag">>, <<"fresh">>)]

\* AddResponseHeaders.
ResponseHeaders(request) ==
    << HeaderDup(Header(request, "Via")), HeaderDup(Header(request, "From")),
       BuildResponseToHeader(request), Header(request, "Call-ID"), Header(request, "CSeq"),
       ContactHeader("Contact",
           Uri(<<"sip">>, User(request, "From"), GetLocalIpAddr, LocalPort, <<>>), <<>>) >>

\* The phrase of a code without one is the code itself.
ReasonPhrase(code) ==
    CASE code = 100 -> <<"Trying">>
      [] code = 200 -> <<"OK">>
      [] code = 180 -> <<"Ringing">>
      [] code = 301 -> <<"Moved", " ", "Permanently">>
      [] code = 487 -> <<"Request", " ", "Terminated">>
      [] OTHER -> Decimal(code)

BuildResponse(request, code) ==
    Message("response",
        [sipVersion |-> SipVersion, statusCode |-> code, reasonPhrase |-> ReasonPhrase(code)],
        ResponseHeaders(request))

\* BuildAckMessageWithTag: for a rejection, within the transaction of the INVITE.
BuildAckMessageWithTag(invite, tag) ==
    LET line == [invite.start EXCEPT !.method = <<"ACK">>, !.requestUri = UriDup(@)]
        ack  == SetTag(Message("request", line, ResponseHeaders(invite)), "To", tag)
    IN  WithHeader(ack, "CSeq", [Header(ack, "CSeq") EXCEPT !.method = <<"ACK">>])

Quote(value) == <<"\"">> \o value \o <<"\"">>

UnquotedValue(value) == Head(value) # "\"" /\ Last(value) # "\""

\* FAULT: also a value in quotes is quoted.
AuthHeaderSetParameterTwice(ps, name, value) ==
    AddParameter(ps, <<name>>, IF name # "algorithm" THEN Quote(value) ELSE value)

AuthHeaderSetParameter(ps, name, value) ==
    AddParameter(ps, <<name>>,
        IF name # "algorithm" /\ UnquotedValue(value) THEN Quote(value) ELSE value)

UnquoteString(value) == SubSeq(value, 2, Len(value) - 1)

\* CalculateResponse: the hash of what is quoted in the three values.
CalculateResponse(uri, realm, nonce) ==
    <<"md5">> \o UnquoteString(realm) \o UnquoteString(nonce) \o UnquoteString(uri)

\* FAULT: the answer has the number of the challenged request.
NextSeqSame(seq) == seq
NextSeq(seq) == seq + 1

\* BuildAuthHeader: credentials for a challenge, in this order.
BuildAuthHeader(register, challenge) ==
    LET ps == Header(challenge, "WWW-Authenticate").parameters
        realm == GetParameter(ps, <<"realm">>)
        nonce == GetParameter(ps, <<"nonce">>)
        user  == AuthHeaderSetParameter(<<>>, "username", GetUserName)
        uri   == AuthHeaderSetParameter(user, "uri", Uri2String(register.start.requestUri))
        asked3 == AuthHeaderSetParameter(AuthHeaderSetParameter(uri, "realm", realm), "nonce", nonce)
        response == AuthHeaderSetParameter(asked3, "response",
                        CalculateResponse(GetParameter(uri, <<"uri">>), realm, nonce))
    IN  [name |-> <<"Authorization">>, mechanism |-> <<"Digest">>,
         parameters |-> AuthHeaderSetParameter(response, "algorithm", <<"MD5">>)]

\* BuildAuthorizationMessage.  HandleRegisterEvent passes the password for "to".
BuildAuthorizationMessage(challenge) ==
    LET register == BuildRequest(<<"REGISTER">>, GetUserName, GetPassword, GetProxy)
        sameCall == WithHeader(register, "Call-ID", Header(challenge, "Call-ID"))
        seq == [Header(register, "CSeq") EXCEPT !.seq = NextSeq(Header(challenge, "CSeq").seq)]
    IN  [WithHeader(sameCall, "CSeq", seq) EXCEPT
            !.headers = Append(@, BuildAuthHeader(register, challenge))]

-----------------------------------------------------------------------------
(* CallManager.c, Maps.c: a message of the client protocol is one line. *)

\* In the order of enum CALL_EVENT, from 0.
CallEventMap ==
    <<"CALL_INCOMING", "CALL_ESTABLISHED", "CALL_REMOTE_RINGING", "CALL_FINISHED",
      "CALL_PEER_CANCELED", "ACCEPT_CALL", "MAKE_CALL", "RINGING">>

ClientMessage(ua, event, data) == [type |-> "client", ua |-> ua, event |-> event, data |-> data]

BuildClientMessage(m) ==
    <<"ua", "=">> \o Decimal(m.ua) \o <<";", "event", "=", CallEventMap[m.event + 1]>>
        \o (IF m.data = <<>> THEN <<>> ELSE <<";", "data", "=">> \o m.data)

\* StringMap2Int: -1 for a word the map does not have.
StringMap2Int(word) == SelectInSeq(CallEventMap, LAMBDA e : word = <<e>>) - 1

\* ParseClientMessage.  Without data its field keeps what it held, and is not read.
ParseClientMessage(line) ==
    LET ps == ParseParametersExt(line)
        data == GetParameter(ps, <<"data">>)
    IN  ClientMessage(ParseInteger(GetParameter(ps, <<"ua">>)),
                      StringMap2Int(GetParameter(ps, <<"event">>)),
                      IF data = NoValue THEN <<>> ELSE data)
=============================================================================
