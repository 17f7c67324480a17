--------------------------------- MODULE Url --------------------------------
(***************************************************************************)
(* The urls of the library (src/url.cpp, include/oscit/url.h and            *)
(* location.h): a location (protocol, host or service name, ip, port), a     *)
(* path, and a full text that is kept beside them.  A url is built from a   *)
(* location and a path, or parsed by the machine that ragel builds from     *)
(* src/url.rl.                                                              *)
(***************************************************************************)
EXTENDS Text

CONSTANTS
  UrlText,      \* texts that are parsed
  SubName,      \* names that are appended to a path
  Place,        \* locations urls are built with
  Found,        \* locations of services the browser has found
  Ip,           \* addresses
  MaxPath       \* bound on the path that names are appended to

VARIABLE url    \* [text, location, path]

DEFAULT_PROTOCOL == <<"o", "s", "c", "i", "t">>
NO_IP == <<>>
NO_PORT == 0

Location(protocol, name, byHost, ip, port) ==
  [protocol |-> protocol, name |-> name, byHost |-> byHost, ip |-> ip, port |-> port]
NoLocation == Location(<<>>, <<>>, FALSE, NO_IP, NO_PORT)

(* Location::name_from_ip: an ip is its four bytes. *)
NameFromIp(ip) ==
  CASE ip = NO_IP -> <<>>
    [] ip = <<255, 255, 255, 255>> -> <<"l", "o", "c", "a", "l", "h", "o", "s", "t">>
    [] OTHER -> FoldLeft(LAMBDA acc, i : acc \o (IF i > 1 THEN <<".">> ELSE <<>>) \o DigitsOf[ip[i]],
                         <<>>, <<1, 2, 3, 4>>)

AtIp(ip, port) == Location(DEFAULT_PROTOCOL, NameFromIp(ip), TRUE, ip, port)
AtHost(protocol, name, port) == Location(protocol, name, TRUE, NO_IP, port)
AtService(protocol, name) == Location(protocol, name, FALSE, NO_IP, NO_PORT)

(* Location::operator== *)
SameLocation(a, b) ==
  /\ a.protocol = b.protocol
  /\ \/ a.ip # NO_IP /\ a.ip = b.ip /\ a.port = b.port
     \/ a.byHost = b.byHost /\ a.name = b.name

-----------------------------------------------------------------------------
(* Writing: operator<< of a location, rebuild_full_url *)

LocationText(l) ==
  IF l.name = <<>> THEN <<>>
  ELSE (IF l.protocol # <<>> THEN l.protocol \o <<":", "/", "/">> ELSE <<>>) \o
       (CASE l.byHost /\ l.port # NO_PORT -> l.name \o <<":">> \o DigitsOf[l.port]
          [] l.byHost /\ l.port = NO_PORT -> l.name
          [] OTHER -> <<"\"">> \o l.name \o <<"\"">>)

UrlAt(location, path) ==
  [text |-> LocationText(location) \o path, location |-> location, path |-> path]

-----------------------------------------------------------------------------
(* The machine: a part of the grammar and a place in it. *)

EndsUrl(c) == IsBlank(c) \/ c = "NUL"
IsName(c) == IsLetter(c) \/ IsDigit(c)
InPath(c) == IsName(c) \/ c \in {"/", ".", "_"}

(* Up to here it may be a protocol (letters), a host (names with points     *)
(* between them) or a path.                                                 *)
UrlFirst(c) ==
  CASE c = "\"" -> To("service", "dquote", <<>>)
    [] c = "'" -> To("service", "squote", <<>>)
    [] IsLetter(c) -> To("first", "letters", <<"str_a">>)
    [] IsDigit(c) -> To("first", "names", <<"str_a">>)
    [] c \in {"_", ".", "/"} -> To("path", "in", <<"str_a">>)
    [] OTHER -> Failed

UrlOpen(place, c) ==
  CASE EndsUrl(c) -> To("path", "end", <<"set_path">>)
    [] place = "letters" /\ c = ":" -> To("first", "colon", <<"set_protocol", "set_hostname">>)
    [] place = "names" /\ c = ":" -> To("host", "port", <<"set_hostname">>)
    [] place = "letters" /\ IsLetter(c) -> To("first", "letters", <<"str_a">>)
    [] IsName(c) -> To("first", "names", <<"str_a">>)
    [] place # "point" /\ c = "." -> To("first", "point", <<"str_a">>)
    [] InPath(c) -> To("path", "in", <<"str_a">>)
    [] OTHER -> Failed

UrlProtocol(place, c) ==
  CASE place = "colon" /\ c = "/" -> To("first", "slash", <<>>)
    [] place = "colon" /\ IsDigit(c) -> To("host", "digits", <<"str_a">>)
    [] place = "slash" /\ c = "/" -> To("host", "start", <<>>)
    [] OTHER -> Failed

(* A host must have a port, and both a host and a service a path. *)
UrlHost(place, c) ==
  CASE place = "start" /\ c = "\"" -> To("service", "dquote", <<>>)
    [] place = "start" /\ c = "'" -> To("service", "squote", <<>>)
    [] place \in {"start", "names", "point"} /\ IsName(c) -> To("host", "names", <<"str_a">>)
    [] place = "names" /\ c = "." -> To("host", "point", <<"str_a">>)
    [] place = "names" /\ c = ":" -> To("host", "port", <<"set_hostname">>)
    [] place \in {"port", "digits"} /\ IsDigit(c) -> To("host", "digits", <<"str_a">>)
    [] place = "digits" /\ c = "/" -> To("path", "begun", <<"set_port", "str_a">>)
    [] OTHER -> Failed

UrlService(place, c) ==
  CASE place \in QuotePlaces -> InQuotes("service", place, c)
    [] place = "quoted" /\ c = "/" -> To("path", "begun", <<"set_service_name", "str_a">>)
    [] OTHER -> Failed

UrlPath(place, c) ==
  CASE place # "end" /\ InPath(c) -> To("path", "in", <<"str_a">>)
    [] place = "in" /\ EndsUrl(c) -> To("path", "end", <<"set_path">>)
    [] OTHER -> Failed

UrlTransition(state, c) ==
  CASE state = <<"first", "start">> -> UrlFirst(c)
    [] state \in {"first"} \X {"letters", "names", "point"} -> UrlOpen(state[2], c)
    [] state \in {"first"} \X {"colon", "slash"} -> UrlProtocol(state[2], c)
    [] state[1] = "host" -> UrlHost(state[2], c)
    [] state[1] = "service" -> UrlService(state[2], c)
    [] OTHER -> UrlPath(state[2], c)

-----------------------------------------------------------------------------
(* The actions.  set_hostname also runs at the colon behind a protocol, on  *)
(* an empty text, and a host that reads like a protocol becomes one.        *)

Named(m, byHost) ==
  [m EXCEPT !.location = [@ EXCEPT !.protocol = IF @ = <<>> THEN DEFAULT_PROTOCOL ELSE @,
                                   !.name = m.buffer, !.byHost = byHost],
            !.buffer = <<>>]

(* Mutant: the text of a name stays in the buffer. *)
UrlActKept(m, c, a) ==
  CASE a = "str_a" -> [m EXCEPT !.buffer = IF c = "NUL" THEN @ ELSE Append(@, c)]
    [] a = "set_protocol" -> [m EXCEPT !.location.protocol = m.buffer, !.buffer = <<>>]
    [] a = "set_hostname" -> Named(m, TRUE)
    [] a = "set_service_name" -> [Named(m, FALSE) EXCEPT !.buffer = m.buffer]
    [] a = "set_port" -> [m EXCEPT !.location.port = NumberOf(m.buffer), !.buffer = <<>>]
    [] a = "set_path" -> [m EXCEPT !.path = m.buffer, !.buffer = <<>>]

UrlAct(m, c, a) ==
  CASE a = "str_a" -> [m EXCEPT !.buffer = IF c = "NUL" THEN @ ELSE Append(@, c)]
    [] a = "set_protocol" -> [m EXCEPT !.location.protocol = m.buffer, !.buffer = <<>>]
    [] a = "set_hostname" -> Named(m, TRUE)
    [] a = "set_service_name" -> Named(m, FALSE)
    [] a = "set_port" -> [m EXCEPT !.location.port = NumberOf(m.buffer), !.buffer = <<>>]
    [] a = "set_path" -> [m EXCEPT !.path = m.buffer, !.buffer = <<>>]

(* A character; what has failed stays so, with what had been set. *)
UrlRead(m, c) ==
  IF m.state = Failed.to THEN m
  ELSE LET t == UrlTransition(m.state, c)
       IN FoldLeft(LAMBDA n, a : UrlAct(n, c, a), [m EXCEPT !.state = t.to], t.acts)

(* Url::parse: the full text is the text, whatever is read of it. *)
ParseUrl(text) ==
  LET m == FoldLeft(UrlRead,
                    [state |-> <<"first", "start">>, buffer |-> <<>>,
                     location |-> NoLocation, path |-> <<>>], Append(text, "NUL"))
  IN [text |-> text, location |-> m.location, path |-> m.path]

-----------------------------------------------------------------------------
(* name, get_parent_url, operator+ *)

LastSlash(path) == SelectLastInSeq(path, LAMBDA c : c = "/")
UrlName(u) == SubSeq(u.path, LastSlash(u.path) + 1, Len(u.path))
HasParent(u) == LastSlash(u.path) # 0

ParentUrl(u) == UrlAt(u.location, SubSeq(u.path, 1, LastSlash(u.path) - 1))
Plus(u, name) == UrlAt(u.location, u.path \o <<"/">> \o name)

-----------------------------------------------------------------------------
(* Location::resolve_with: a host is asked of the system (which finds an    *)
(* address, finds none, or finds only addresses of another family: then the *)
(* ip is not initialised), a service of the browser.                        *)

ResolvedHost(l) == {[l EXCEPT !.ip = ip] : ip \in Ip \cup {NO_IP}}
ResolvedService(l) == {l} \cup {found \in Found : found.name = l.name}
Resolved(l) ==
  CASE l.ip # NO_IP -> {l}
    [] l.ip = NO_IP /\ l.byHost -> ResolvedHost(l)
    [] OTHER -> ResolvedService(l)

-----------------------------------------------------------------------------
(* A url that the program sets, goes up from, appends to and resolves. *)

UrlInit == url = UrlAt(NoLocation, <<>>)
SetUrl(text) == url' = ParseUrl(text)
BuildUrl(location) == url' = UrlAt(location, <<>>)
GoUp == HasParent(url) /\ url' = ParentUrl(url)
AppendName(name) == Len(url.path) < MaxPath /\ url' = Plus(url, name)
ResolveUrl == \E l \in Resolved(url.location) : url' = [url EXCEPT !.location = l]

UrlNext ==
  \/ \E text \in UrlText : SetUrl(text)
  \/ \E location \in Place : BuildUrl(location)
  \/ GoUp
  \/ \E name \in SubName : AppendName(name)
  \/ ResolveUrl

-----------------------------------------------------------------------------
(* Properties *)

All(s, Test(_)) == \A i \in DOMAIN s : Test(s[i])

(* The urls that a text can say: with a port for a host, no quote or        *)
(* backslash in the name of a service, and a path of the path's characters  *)
(* that is more than a slash.                                               *)
Sayable(u) ==
  LET l == u.location IN
  /\ All(u.path, InPath) /\ u.path # <<>>
  /\ IF l.name = <<>> THEN l.protocol = <<>>
     ELSE /\ l.protocol # <<>> /\ All(l.protocol, IsLetter)
          /\ u.path[1] = "/" /\ Len(u.path) > 1
          /\ l.byHost => l.port # NO_PORT
          /\ ~l.byHost => \A i \in DOMAIN l.name : l.name[i] \notin {"\"", "\\"}

(* Url::str() read again by Url::parse gives the same place and path,       *)
(* however the url came to be (parsed, built, gone up, appended to,         *)
(* resolved), as long as it can be said at all.                             *)
UrlSurvives ==
  LET read == ParseUrl(UrlAt(url.location, url.path).text)
  IN Sayable(url) =>
       /\ read.path = url.path
       /\ SameLocation(read.location, url.location)
       /\ url.location.byHost => read.location.port = url.location.port

(* Url::operator+ and get_parent_url: the url above a name that was         *)
(* appended is the url again, and name() tells the name.                    *)
UrlsNest ==
  \A name \in SubName :
    LET below == Plus(url, name) IN
    /\ HasParent(below) /\ UrlName(below) = name
    /\ ParentUrl(below) = UrlAt(url.location, url.path)
UrlKept == UrlSurvives /\ UrlsNest

=============================================================================
