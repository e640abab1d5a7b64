-------------------------------- MODULE Sock --------------------------------
(***************************************************************************)
(* Socket addresses and sockets: libcperciva/util/sock.c and sock_util.c.  *)
(*                                                                         *)
(* A behaviour is one call.  Strings are sequences of tokens: the          *)
(* characters the code looks at, and a token for a whole number, an IPv4   *)
(* address or a word.  Every allocation and every system call may fail.    *)
(***************************************************************************)
EXTENDS Integers, Sequences, SequencesExt, FiniteSets

CONSTANTS
    NULL,
    PATHLEN,    \* sizeof(sun_path)
    MaxStr      \* strings up to this length are all tried

VARIABLES
    op,         \* the function called
    arg,        \* its arguments
    place,         \* the function that runs, and how far it has come
    alive,       \* what is allocated or open
    bad,        \* something was freed twice, or lost
    n,          \* how many addresses of a list are done
    res,        \* the addresses that getaddrinfo has found
    did,        \* what was done to the socket, in this order
    ret,        \* NULL (or -1), the addresses returned, or the socket
    denied      \* an allocation or a system call has failed

sockvars == <<op, arg, place, alive, bad, n, res, did, ret, denied>>

-----------------------------------------------------------------------------
(* Strings                                                                 *)

Digits == [t \in {"0", "1", "65535", "65536"} |->
             CASE t = "0" -> 0 [] t = "1" -> 1 [] t = "65535" -> 65535 [] OTHER -> 65536]

Token == {"/", "[", "]", ":", "v4", "word"} \cup {"0", "1"}

StringsUpTo(T, k) == UNION {[1 .. i -> T] : i \in 0 .. k}

IPv4 == <<"v4">>
IPv6 == <<":", ":", "1">>

(* Short strings of all kinds, and longer ones that look like addresses.   *)
AddrString ==
    StringsUpTo(Token, MaxStr) \cup
    {<<"[">> \o ip \o <<"]">> \o rest :
        ip \in {IPv4, IPv6, <<":", ":">> \o IPv6, <<"word">>},
        rest \in {<<>>, <<"/">>} \cup
                 {<<":">> \o p : p \in StringsUpTo(DOMAIN Digits \cup {"word"}, 2)}}

(* The place of the last c in s, or 0.                                     *)
strrchr(s, c) == IF Contains(s, c) THEN CHOOSE i \in 1 .. Len(s) :
                                           s[i] = c /\ \A j \in i + 1 .. Len(s) : s[j] # c
                 ELSE 0

(* strtoimax reads the digits at the front of s; values beyond 65536 are   *)
(* alike.                                                                  *)
Append10(v, t) ==
    IF v > 65536 \/ (v > 0 /\ Digits[t] > 1) THEN 65537 ELSE v * 10 + Digits[t]

strtoimax(s) == FoldLeft(Append10, 0, s)

(* The number s is, if it is one from min to max; otherwise NULL.          *)
parsenum_signed(s, min, max) ==
    IF s = <<>> \/ ToSet(s) \ DOMAIN Digits # {} THEN NULL
    ELSE IF strtoimax(s) \in min .. max THEN strtoimax(s) ELSE NULL

(* inet_pton knows one address of each family.                             *)
inet_pton(family, s) == s = IF family = "INET6" THEN IPv6 ELSE IPv4

sock_addr_validate(addr) == addr # <<>> /\ addr[1] # ":"

(* Mutant: any ':' in an address in brackets is taken for that of a port.  *)
sock_addr_ensure_port_any(addr) ==
    LET cr == strrchr(addr, ":")
    IN  IF cr = 1 \/ (addr # <<>> /\ addr[1] = "/") THEN addr
        ELSE IF cr = 0 THEN addr \o <<":", "0">> ELSE addr

sock_addr_ensure_port(addr) ==
    LET cr == strrchr(addr, ":")
        bracketed == addr # <<>> /\ addr[1] = "["
    IN  IF cr = 1 \/ (addr # <<>> /\ addr[1] = "/") THEN addr
        ELSE IF cr = 0 \/ (bracketed /\ addr[cr - 1] # "]") THEN addr \o <<":", "0">>
        ELSE addr

-----------------------------------------------------------------------------
(* Addresses.  A name is a structure of namelen cells.                     *)

SockAddr(family, name) ==
    [ai_family |-> family, ai_socktype |-> "STREAM", name |-> name, namelen |-> Len(name)]

sockaddr_in(family, ip, port) == <<family, port, ip>>
sockaddr_un(path) == <<"UNIX">> \o path \o [i \in 1 .. PATHLEN - Len(path) |-> "NUL"]

(* What sock_resolve makes of an address that is not that of a Unix        *)
(* socket: an error, a host, or an IP address and a port.                  *)
Split(addr) ==
    LET colon == strrchr(addr, ":")
        s == SubSeq(addr, 1, colon - 1)
        ports == SubSeq(addr, colon + 1, Len(addr))
        ips == SubSeq(s, 2, Len(s) - 1)
        p == parsenum_signed(ports, 1, 65535)
    IN  CASE colon = 0 -> [kind |-> "error"]
          [] colon # 0 /\ s[1] # "[" -> [kind |-> "host", host |-> s, ports |-> ports]
          [] colon # 0 /\ s[1] = "[" /\ (s[Len(s)] # "]" \/ p = NULL) -> [kind |-> "error"]
          [] OTHER -> [kind |-> IF Contains(ips, ":") THEN "INET6" ELSE "INET",
                       ips |-> ips, port |-> p]

sock_addr_cmp(sa1, sa2) ==
    IF sa1.ai_family # sa2.ai_family \/ sa1.ai_socktype # sa2.ai_socktype
          \/ sa1.namelen # sa2.namelen
    THEN 1
    ELSE IF sa1.name # sa2.name THEN 1 ELSE 0

Serialized(sa) == <<sa.ai_family, sa.ai_socktype, sa.namelen>> \o sa.name

(* A number as it is printed.                                              *)
Decimal(v) == IF \E t \in DOMAIN Digits : Digits[t] = v
              THEN <<CHOOSE t \in DOMAIN Digits : Digits[t] = v>>
              ELSE IF v = 10 THEN <<"1", "0">> ELSE <<"1", "1">>

prettyprint_ip(name) == <<"[">> \o name[3] \o <<"]", ":">> \o Decimal(name[2])
prettyprint_unix(name) == SelectSeq(Tail(name), LAMBDA c : c # "NUL")

sock_addr_prettyprint(sa) ==
    IF sa.ai_family = "UNIX" THEN prettyprint_unix(sa.name) ELSE prettyprint_ip(sa.name)

-----------------------------------------------------------------------------
(* The machine                                                             *)

(* Addresses a list may hold.                                              *)
Sa4(port) == SockAddr("INET", sockaddr_in("INET", IPv4, port))
Sa6(port) == SockAddr("INET6", sockaddr_in("INET6", IPv6, port))
SaUn == SockAddr("UNIX", sockaddr_un(<<"/">>))
Lists(port) == {<<>>, <<Sa4(port)>>, <<Sa6(port), Sa4(port)>>}

(* A serialized address, all of it or not, or with something behind it.    *)
Buffers ==
    LET b == Serialized(SaUn)
    IN  {SubSeq(b, 1, i) : i \in 0 .. Len(b)} \cup {b \o <<"NUL">>, Serialized(Sa6(1))}

(* The function f is called with the arguments a.                          *)
Calls(f, a) ==
    /\ op = f /\ place = <<f, 1>> /\ arg = a

SockInit ==
    /\ \/ \E f \in {"sock_resolve", "sock_resolve_one"}, addr \in AddrString, addport \in BOOLEAN :
             /\ f = "sock_resolve" => ~addport
             /\ Calls(f, [addr |-> addr, addport |-> addport])
       \/ \E sas \in Lists(1) : Calls("sock_connect", sas) \/ Calls("sock_addr_duplist", sas)
       \/ Calls("sock_listener", <<>>)
       \/ \E sa_b \in BOOLEAN : Calls("sock_connect_bind_nb", sa_b)
       \/ Calls("sock_addr_serialize", Sa6(1))
       \/ \E buf \in Buffers : Calls("sock_addr_deserialize", buf)
    /\ alive = {} /\ bad = FALSE /\ n = 0 /\ res = <<>> /\ did = <<>>
    /\ ret = NULL /\ denied = FALSE

(* Objects: the i-th of a kind, or the only one.                           *)
Entry(i) == {<<"sa", i>>, <<"name", i>>}
Entries(i, j) == UNION {Entry(k) : k \in i .. j}
Only(o) == <<o, 0>>

Gets(o) ==
    /\ alive' = alive \cup {o}
    /\ bad' = (bad \/ o \in alive)

Frees(S) ==
    /\ alive' = alive \ S
    /\ bad' = (bad \/ ~(S \subseteq alive))

(* free(NULL) does nothing.                                                *)
IfHeld(o) == {o} \cap alive

Goes(f, i) == place' = <<f, i>>

Returns(v) == place' = <<"returned", 0>> /\ ret' = v

(* An allocation or system call that gives o, or fails: then S is freed    *)
(* and the function returns NULL to the place back.                        *)
Acquires(o, next, S, back) ==
    \/ Gets(o) /\ place' = next /\ UNCHANGED <<ret, denied>>
    \/ Frees(S) /\ place' = back /\ ret' = NULL /\ denied' = TRUE

Returned == <<"returned", 0>>

-----------------------------------------------------------------------------
(* sock_resolve_unix, _ipv4 and _ipv6: a name, if it is valid, the address *)
(* around it, and a list of it alone.                                      *)
ResolveLiteral(f, valid, sa, back) ==
    /\ \/ /\ place = <<f, 1>>
          /\ Acquires(<<"name", 1>>, <<f, 2>>, {}, back)
       \/ /\ place = <<f, 2>> /\ ~valid
          /\ Frees({<<"name", 1>>}) /\ place' = back /\ ret' = NULL /\ UNCHANGED denied
       \/ /\ place = <<f, 2>> /\ valid
          /\ Acquires(<<"sa", 1>>, <<f, 3>>, {<<"name", 1>>}, back)
       \/ /\ place = <<f, 3>>
          /\ \/ Gets(Only("sas")) /\ place' = back /\ ret' = <<sa>> /\ UNCHANGED denied
             \/ Frees(Entry(1)) /\ place' = back /\ ret' = NULL /\ denied' = TRUE
    /\ UNCHANGED <<op, arg, n, res, did>>

(* The string that sock_resolve is given.                                  *)
Addr == IF op = "sock_resolve_one" /\ arg.addport THEN sock_addr_ensure_port(arg.addr)
        ELSE arg.addr

sock_resolve_unix ==
    /\ place[1] = "sock_resolve_unix"
    /\ ResolveLiteral("sock_resolve_unix", Len(Addr) < PATHLEN,
                      SockAddr("UNIX", sockaddr_un(Addr)), <<"sock_resolve", 4>>)

ResolveIP(f, family) ==
    /\ place[1] = f
    /\ LET d == Split(Addr)
       IN  ResolveLiteral(f, inet_pton(family, d.ips),
                          SockAddr(family, sockaddr_in(family, d.ips, d.port)),
                          <<"sock_resolve", 3>>)

sock_resolve_ipv6 == ResolveIP("sock_resolve_ipv6", "INET6")
sock_resolve_ipv4 == ResolveIP("sock_resolve_ipv4", "INET")

(* getaddrinfo finds any list of addresses with the port, or fails.        *)
getaddrinfo(ports) ==
    LET p == parsenum_signed(ports, 0, 65535)
    IN  \/ p # NULL /\ res' \in Lists(p) /\ Gets(Only("res")) /\ UNCHANGED <<ret, denied>>
              /\ Goes("sock_resolve_host", 2)
        \/ Frees({}) /\ Goes("sock_resolve", 3) /\ ret' = NULL /\ denied' = TRUE /\ UNCHANGED res

(* Mutant: err3 does not free the structure without a name.                *)
host_err_less(k) ==
    (IF k >= 1 THEN {Only("res")} ELSE {}) \cup
    (IF k >= 2 THEN Entries(1, n) \cup {Only("sas")} ELSE {})

(* What is freed from the label err<k> on.                                 *)
host_err(k) ==
    (IF k >= 1 THEN {Only("res")} ELSE {}) \cup
    (IF k >= 2 THEN Entries(1, n) \cup {Only("sas")} ELSE {}) \cup
    (IF k >= 3 THEN {<<"sa", n + 1>>} ELSE {})

(* The list of getaddrinfo is copied, entry by entry.                      *)
sock_resolve_host ==
    LET At(i) == place = <<"sock_resolve_host", i>>
        back == <<"sock_resolve", 3>>
    IN  /\ \/ At(1) /\ getaddrinfo(Split(Addr).ports) /\ UNCHANGED n
           \/ /\ At(2) /\ Acquires(Only("sas"), <<"sock_resolve_host", 3>>, host_err(1), back)
              /\ UNCHANGED <<n, res>>
           \/ /\ At(3) /\ n < Len(res)
              /\ Acquires(<<"sa", n + 1>>, <<"sock_resolve_host", 4>>, host_err(2), back)
              /\ UNCHANGED <<n, res>>
           \/ /\ At(4)
              /\ Acquires(<<"name", n + 1>>, <<"sock_resolve_host", 3>>, host_err(3), back)
              /\ n' = IF place' = back THEN n ELSE n + 1
              /\ UNCHANGED res
           \/ /\ At(3) /\ n = Len(res)
              /\ Frees({Only("res")}) /\ place' = back /\ ret' = res
              /\ UNCHANGED <<n, res, denied>>
        /\ UNCHANGED <<op, arg, did>>

(* sock_resolve returns to its caller.                                     *)
ResolveBack == place' = IF op = "sock_resolve" THEN Returned ELSE <<"sock_resolve_one", 2>>

sock_resolve ==
    /\ place[1] = "sock_resolve"
    /\ \/ /\ place[2] = 1 /\ ~sock_addr_validate(Addr)
          /\ ResolveBack /\ ret' = NULL /\ UNCHANGED <<alive, bad, denied>>
       \/ /\ place[2] = 1 /\ sock_addr_validate(Addr) /\ Addr[1] = "/"
          /\ Goes("sock_resolve_unix", 1) /\ UNCHANGED <<alive, bad, ret, denied>>
       \/ /\ place[2] = 1 /\ sock_addr_validate(Addr) /\ Addr[1] # "/"
          /\ \/ Gets(Only("s")) /\ Goes("sock_resolve", 2) /\ UNCHANGED <<ret, denied>>
             \/ ResolveBack /\ ret' = NULL /\ denied' = TRUE /\ UNCHANGED <<alive, bad>>
       \/ /\ place[2] = 2
          /\ LET kind == Split(Addr).kind
             IN  \/ kind = "error" /\ Frees({Only("s")}) /\ ResolveBack /\ ret' = NULL
                 \/ kind = "host" /\ Goes("sock_resolve_host", 1) /\ UNCHANGED <<alive, bad, ret>>
                 \/ kind = "INET6" /\ Goes("sock_resolve_ipv6", 1) /\ UNCHANGED <<alive, bad, ret>>
                 \/ kind = "INET" /\ Goes("sock_resolve_ipv4", 1) /\ UNCHANGED <<alive, bad, ret>>
          /\ UNCHANGED denied
       \/ place[2] = 3 /\ Frees({Only("s")}) /\ ResolveBack /\ UNCHANGED <<ret, denied>>
       \/ place[2] = 4 /\ ResolveBack /\ UNCHANGED <<alive, bad, ret, denied>>
    /\ UNCHANGED <<op, arg, n, res, did>>

(* The first address of the list is kept.                                  *)
sock_resolve_one ==
    /\ place[1] = "sock_resolve_one"
    /\ \/ /\ place[2] = 1 /\ arg.addport
          /\ Acquires(Only("addr_alloc"), <<"sock_resolve", 1>>, {}, Returned)
       \/ place[2] = 1 /\ ~arg.addport /\ Goes("sock_resolve", 1) /\ UNCHANGED <<alive, bad, ret, denied>>
       \/ /\ place[2] = 2 /\ ret = NULL
          /\ Frees(IfHeld(Only("addr_alloc"))) /\ Returns(NULL) /\ UNCHANGED denied
       \/ /\ place[2] = 2 /\ ret = <<>>
          /\ Frees({Only("sas")} \cup IfHeld(Only("addr_alloc")))
          /\ Returns(NULL) /\ UNCHANGED denied
       \/ /\ place[2] = 2 /\ ret # NULL /\ ret # <<>>
          /\ Frees(Entries(2, Len(ret)) \cup {Only("sas")} \cup IfHeld(Only("addr_alloc")))
          /\ Returns(<<ret[1]>>) /\ UNCHANGED denied
    /\ UNCHANGED <<op, arg, n, res, did>>

-----------------------------------------------------------------------------
(* Sockets                                                                 *)

(* The label err1: the socket is closed.                                   *)
Closes == Frees({Only("s")}) /\ Returns(NULL) /\ denied' = TRUE /\ UNCHANGED did

(* A system call on the socket.                                            *)
Does(call, next) ==
    \/ /\ did' = Append(did, call) /\ place' = next
       /\ UNCHANGED <<alive, bad, ret, denied>>
    \/ Closes

(* SO_REUSEADDR is set, or there is no such option, or that fails.         *)
reuseaddr(next) ==
    \/ place' = next /\ UNCHANGED <<alive, bad, did, ret, denied>>
    \/ Closes

Opens(next) == Acquires(Only("s"), next, {}, Returned) /\ UNCHANGED did

(* The socket is ready and returned.                                       *)
GivesSocket == Returns(<<"s">>) /\ UNCHANGED <<alive, bad, did, denied>>

sock_listener ==
    LET At(i) == place = <<"sock_listener", i>>
        to(i) == <<"sock_listener", i>>
    IN  /\ \/ At(1) /\ Opens(to(2))
           \/ At(2) /\ reuseaddr(to(3))
           \/ At(3) /\ Does("bind", to(4))
           \/ At(4) /\ Does("listen", to(5))
           \/ At(5) /\ Does("O_NONBLOCK", to(6))
           \/ At(6) /\ GivesSocket
        /\ UNCHANGED <<op, arg, n, res>>

sock_connect_bind_nb ==
    LET At(i) == place = <<"sock_connect_bind_nb", i>>
        to(i) == <<"sock_connect_bind_nb", i>>
    IN  /\ \/ At(1) /\ Opens(to(IF arg THEN 2 ELSE 4))
           \/ At(2) /\ reuseaddr(to(3))
           \/ At(3) /\ Does("bind", to(4))
           \/ At(4) /\ Does("O_NONBLOCK", to(5))
           \/ At(5) /\ Does("connect", to(6))
           \/ At(6) /\ GivesSocket
        /\ UNCHANGED <<op, arg, n, res>>

(* One address after the other, until one answers.                         *)
sock_connect ==
    LET At(i) == place = <<"sock_connect", i>>
        to(i) == <<"sock_connect", i>>
    IN  /\ \/ /\ At(1) /\ n < Len(arg)
              /\ \/ Gets(Only("s")) /\ place' = to(2) /\ UNCHANGED <<n, denied>>
                 \/ n' = n + 1 /\ denied' = TRUE /\ UNCHANGED <<place, alive, bad>>
              /\ UNCHANGED <<ret, did>>
           \/ /\ At(2)
              /\ \/ did' = <<"connect">> /\ place' = to(3) /\ UNCHANGED <<alive, bad, n, denied>>
                 \/ /\ Frees({Only("s")}) /\ n' = n + 1 /\ place' = to(1) /\ denied' = TRUE
                    /\ UNCHANGED did
              /\ UNCHANGED ret
           \/ At(1) /\ n = Len(arg) /\ Returns(NULL) /\ UNCHANGED <<alive, bad, n, did, denied>>
           \/ At(3) /\ Does("O_NONBLOCK", to(4)) /\ UNCHANGED n
           \/ At(4) /\ GivesSocket /\ UNCHANGED n
        /\ UNCHANGED <<op, arg, res>>

-----------------------------------------------------------------------------
(* Copies                                                                  *)

(* sock_addr_dup makes the entry n + 1 or returns NULL; that ends the list *)
(* which sock_addr_freelist frees.                                         *)
sock_addr_duplist ==
    LET At(i) == place = <<"sock_addr_duplist", i>>
        to(i) == <<"sock_addr_duplist", i>>
        list == Entries(1, n) \cup {Only("sas")}
    IN  /\ \/ At(1) /\ Acquires(Only("sas"), to(2), {}, Returned) /\ UNCHANGED n
           \/ /\ At(2) /\ n < Len(arg)
              /\ Acquires(<<"sa", n + 1>>, to(3), list, Returned) /\ UNCHANGED n
           \/ /\ At(3)
              /\ Acquires(<<"name", n + 1>>, to(2), {<<"sa", n + 1>>} \cup list, Returned)
              /\ n' = IF place' = Returned THEN n ELSE n + 1
           \/ At(2) /\ n = Len(arg) /\ Returns(arg) /\ UNCHANGED <<alive, bad, n, denied>>
        /\ UNCHANGED <<op, arg, res, did>>

sock_addr_serialize ==
    /\ place = <<"sock_addr_serialize", 1>>
    /\ \/ Gets(Only("buf")) /\ Returns(<<Serialized(arg)>>) /\ UNCHANGED denied
       \/ Returns(NULL) /\ denied' = TRUE /\ UNCHANGED <<alive, bad>>
    /\ UNCHANGED <<op, arg, n, res, did>>

(* The length that is read must be that of the rest.                       *)
sock_addr_deserialize ==
    LET At(i) == place = <<"sock_addr_deserialize", i>>
        to(i) == <<"sock_addr_deserialize", i>>
    IN  /\ \/ At(1) /\ Len(arg) < 3 /\ Returns(NULL) /\ UNCHANGED <<alive, bad, denied>>
           \/ At(1) /\ Len(arg) >= 3 /\ Acquires(<<"sa", 1>>, to(2), {}, Returned)
           \/ /\ At(2) /\ Len(arg) # 3 + arg[3]
              /\ Frees({<<"sa", 1>>}) /\ Returns(NULL) /\ UNCHANGED denied
           \/ /\ At(2) /\ Len(arg) = 3 + arg[3]
              /\ Acquires(<<"name", 1>>, to(3), {<<"sa", 1>>}, Returned)
           \/ /\ At(3)
              /\ Returns(<<[ai_family |-> arg[1], ai_socktype |-> arg[2], namelen |-> arg[3],
                            name |-> SubSeq(arg, 4, Len(arg))]>>)
              /\ UNCHANGED <<alive, bad, denied>>
        /\ UNCHANGED <<op, arg, n, res, did>>

SockNext ==
    \/ sock_resolve_unix \/ sock_resolve_ipv4 \/ sock_resolve_ipv6 \/ sock_resolve_host
    \/ sock_resolve \/ sock_resolve_one
    \/ sock_listener \/ sock_connect \/ sock_connect_bind_nb
    \/ sock_addr_duplist \/ sock_addr_serialize \/ sock_addr_deserialize

SockSpec == SockInit /\ [][SockNext]_sockvars

-----------------------------------------------------------------------------
Done == place = Returned

(* What belongs to the caller once the function has returned.              *)
Owned ==
    IF ret = NULL THEN {}
    ELSE CASE op \in {"sock_resolve", "sock_addr_duplist"} ->
                  Entries(1, Len(ret)) \cup {Only("sas")}
           [] op \in {"sock_resolve_one", "sock_addr_deserialize"} -> Entry(1)
           [] op = "sock_addr_serialize" -> {Only("buf")}
           [] OTHER -> {Only("s")}

(* Wherever an allocation or a system call fails, half way through a list  *)
(* as well, what was allocated or opened before is given back, once; and   *)
(* what is returned is complete.                                           *)
NothingLost == ~bad /\ (Done => alive = Owned)

(* The forms of an address string in sock.h, without the code: what is     *)
(* before the port, and the port.                                          *)
HasForm(a, host, port) ==
    /\ a = host \o <<":">> \o port
    /\ ~Contains(port, ":")

IsIP(a, ip, port) ==
    /\ HasForm(a, <<"[">> \o ip \o <<"]">>, port)
    /\ ip \in {IPv4, IPv6}
    /\ port \in {<<"1">>, <<"65535">>, <<"1", "0">>, <<"1", "1">>,
                 <<"0", "1">>, <<"0", "65535">>}

IsHost(a) ==
    \E i \in 2 .. Len(a) : /\ HasForm(a, SubSeq(a, 1, i - 1), SubSeq(a, i + 1, Len(a)))
                           /\ a[1] \notin {"/", "[", ":"}

IsPath(a) == Len(a) \in 1 .. PATHLEN - 1 /\ a[1] = "/"

(* An address string is resolved to what it says if it has one of the      *)
(* forms, and to nothing if it has none; a result, printed, is a string    *)
(* that is resolved to the same address again.                             *)
ResolvedRight ==
    Done /\ op \in {"sock_resolve", "sock_resolve_one"} =>
        /\ ret # NULL /\ ret # <<>> =>
              \/ IsPath(Addr) /\ sock_addr_prettyprint(ret[1]) = Addr
              \/ \E ip \in {IPv4, IPv6}, t \in StringsUpTo(DOMAIN Digits, 2) :
                    IsIP(Addr, ip, t) /\ ret[1].name[3] = ip /\ ret[1].name[2] = strtoimax(t)
              \/ IsHost(Addr) /\ ret = SubSeq(res, 1, Len(ret))
        /\ ret = NULL /\ ~denied =>
              /\ ~IsPath(Addr)
              /\ \A ip \in {IPv4, IPv6}, t \in StringsUpTo(DOMAIN Digits, 2) : ~IsIP(Addr, ip, t)
              /\ IsHost(Addr) => op = "sock_resolve_one" /\ res = <<>>
        /\ ret # NULL => \A i \in 1 .. Len(ret) :
              ret[i].ai_family # "UNIX" /\ ret[i].name[2] # 0 =>
                 LET d == Split(sock_addr_prettyprint(ret[i]))
                 IN  0 = sock_addr_cmp(ret[i], SockAddr(d.kind, sockaddr_in(d.kind, d.ips, d.port)))

(* sock_addr_ensure_port adds a port to an address without one, and to no  *)
(* other: the string that is resolved has the host that was given.         *)
PortIsAdded ==
    op = "sock_resolve_one" =>
        /\ \A ip \in {IPv4, IPv6} : arg.addr = <<"[">> \o ip \o <<"]">> /\ arg.addport =>
              HasForm(Addr, arg.addr, <<"0">>)
        /\ IsHost(arg.addr) \/ (arg.addr # <<>> /\ arg.addr[1] = "/") => Addr = arg.addr
        /\ (\E i \in 2 .. Len(arg.addr) :
                /\ HasForm(arg.addr, SubSeq(arg.addr, 1, i - 1), SubSeq(arg.addr, i + 1, Len(arg.addr)))
                /\ arg.addr[i - 1] = "]") => Addr = arg.addr

(* A socket is returned only when all was done to it, a connecting one     *)
(* never blocks, and it is bound before it connects.                       *)
SocketIsReady ==
    Done /\ ret # NULL =>
        /\ op = "sock_listener" => did = <<"bind", "listen", "O_NONBLOCK">>
        /\ op = "sock_connect" => did = <<"connect", "O_NONBLOCK">>
        /\ op = "sock_connect_bind_nb" =>
              did = (IF arg THEN <<"bind">> ELSE <<>>) \o <<"O_NONBLOCK", "connect">>

(* A serialized address is read back as it was, and nothing else is read   *)
(* as an address; a copy of a list equals the list.                        *)
CopiesAreRight ==
    Done =>
        /\ op = "sock_addr_deserialize" =>
              /\ ret # NULL => Serialized(ret[1]) = arg
              /\ ret = NULL /\ ~denied => arg \notin {Serialized(SaUn), Serialized(Sa6(1))}
        /\ op = "sock_addr_duplist" /\ ret # NULL =>
              /\ Len(ret) = Len(arg)
              /\ \A i \in 1 .. Len(arg) : sock_addr_cmp(ret[i], arg[i]) = 0

(* All that is said of addresses and sockets.                              *)
AddressesAreRight ==
    NothingLost /\ ResolvedRight /\ PortIsAdded /\ SocketIsReady /\ CopiesAreRight

(* spiped(1) says of the address to bind: "If this is a network address,   *)
(* the port number may either be specified or left to the operating        *)
(* system"; so an address without a port is resolved.                      *)
PortMayBeLeftOut ==
    Done /\ op = "sock_resolve_one" /\ arg.addport /\ ~denied =>
        \A ip \in {IPv4, IPv6} : arg.addr = <<"[">> \o ip \o <<"]">> => ret # NULL
=============================================================================
