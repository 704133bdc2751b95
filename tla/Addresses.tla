----------------------------- MODULE Addresses -----------------------------
(***************************************************************************)
(* src/net: endpoints, the socket addresses made of them by a listener and *)
(* by a client, and the timeouts that the kernel is told. The texts of IP  *)
(* addresses are records of what inet_pton() makes of them, a port has     *)
(* PortBase values and a path of a socket fewer than PathSize symbols.     *)
(***************************************************************************)
EXTENDS Integers, SequencesExt

PortBase == 4   \* stands for 2^16
PathSize == 3   \* stands for the size of sockaddr_un::sun_path
Zero == "zero"

Result(what, value) == [what |-> what, value |-> value]
NoAddress == [family |-> "none", number |-> 0]

-----------------------------------------------------------------------------
(* Ip_address.                                                             *)

\* A text is what it says, or nothing of that family.
Inet_pton(family, text) == text.family = family

\* The constructor tries the families in their order.
Ip_address(text) ==
  LET tried == SelectSeq(<<"ipv4", "ipv6">>, LAMBDA family : Inet_pton(family, text)) IN
  IF text = NoAddress \/ tried = <<>> THEN Result("exception", NoAddress)
  ELSE Result("value", [family |-> Head(tried), number |-> text.number])
Is_valid(text) == Inet_pton("ipv4", text) \/ Inet_pton("ipv6", text)

Size(ip) == IF ip.family = "ipv4" THEN 4 ELSE 16
Binary(ip) == [size |-> Size(ip), number |-> ip.number]
From_binary(bin) ==
  IF bin.size \notin {4, 16} THEN Result("terminated", NoAddress)
  ELSE Result("value", [family |-> IF bin.size = 4 THEN "ipv4" ELSE "ipv6", number |-> bin.number])
To_string(ip) == ip

-----------------------------------------------------------------------------
(* Endpoint: [mode, path, address, port], and what is made of it.          *)

Endpoint_ok(e) == IF e.mode = "uds" THEN e.path # <<>> ELSE e.address.family # "empty"

\* A socket address: what is there of it for the kernel.
Address(family, number, port, path) ==
  [family |-> family, number |-> number, port |-> port, path |-> path]

\* htons() of an int that has been made an unsigned short.
Socket_address_ip(ip, port) == Address(ip.family, ip.number, port % PortBase, <<>>)

\* strncpy() into sun_path, where zeros follow.
Socket_address_path(path) ==
  IF Len(path) > PathSize - 1 THEN Result("exception", Address("none", 0, 0, <<>>))
  ELSE Result("value", Address("local", 0, 0,
                               [i \in 1..PathSize |-> IF i \in DOMAIN path THEN path[i] ELSE Zero]))

Socket_address(e) ==
  LET ip == Ip_address(e.address) IN
  CASE e.mode = "uds" -> Socket_address_path(e.path)
    [] e.mode = "net" /\ ip.what = "value" -> Result("value", Socket_address_ip(ip.value, e.port))
    [] OTHER -> Result(ip.what, Address("none", 0, 0, <<>>))

\* The options of a listener check the port and the backlog too.
Listener_options(e, backlog) ==
  CASE ~Endpoint_ok(e) -> "terminated"
    [] Endpoint_ok(e) /\ (backlog <= 0 \/ (e.mode = "net" /\ e.port <= 0)) -> "exception"
    [] OTHER -> "value"

\* listen(): the socket of a network is one of IPv4, to which an address of another family
\* cannot be bound. (That of a path is made with IPPROTO_TCP, here and for a client, by a
\* system that takes it; Linux does not.)
Bound_to(e, backlog) ==
  LET address == Socket_address(e)
      family == IF e.mode = "uds" THEN "local" ELSE "ipv4"
  IN
  CASE Listener_options(e, backlog) # "value" -> Result(Listener_options(e, backlog), address.value)
    [] Listener_options(e, backlog) = "value" /\ address.what = "value" /\ address.value.family # family ->
         Result("exception", address.value)
    [] OTHER -> address

\* make_tcp_connection()
Connected_to(e) ==
  IF ~Endpoint_ok(e) THEN Result("terminated", Address("none", 0, 0, <<>>)) ELSE Socket_address(e)

\* The text of an address is read as it is written, and what is valid is what can be made.
\* A client reaches a listener if and only if it is given the same endpoint (the ports
\* of which have 16 bits), with one exception: none listens on an address of IPv6.
EndpointsReached(e, f) ==
  LET ip == Ip_address(e.address)
      listener == Bound_to(e, 1) client == Connected_to(f)
      Usable(g) == Endpoint_ok(g) /\ (g.mode = "net" => Is_valid(g.address) /\ g.port > 0)
      Short(g) == g.mode = "uds" => Len(g.path) < PathSize
      Ports == {e.port, f.port} \subseteq 0..(PortBase - 1)
  IN
  /\ Is_valid(e.address) <=> ip.what = "value"
  /\ ip.what = "value" =>
       /\ Ip_address(To_string(ip.value)) = ip
       /\ From_binary(Binary(ip.value)) = ip
  /\ listener.what = "value" <=>
       /\ Usable(e) /\ Short(e)
       /\ e.mode = "net" => e.address.family = "ipv4"
  /\ listener.what = "value" /\ client.what = "value" /\ Ports =>
       (listener.value = client.value <=> e = f)

-----------------------------------------------------------------------------
(* Timeouts, in milliseconds of which a second has PerSecond here.         *)

PerSecond == 3
PerMillisecond == 2  \* microseconds

\* The durations are cut towards zero.
Quotient(n, m) == IF n < 0 THEN -((-n) \div m) ELSE n \div m
Timeval(ms) == [sec |-> Quotient(ms, PerSecond), usec |-> (ms - Quotient(ms, PerSecond) * PerSecond) * PerMillisecond]

\* poll(): there is no timeout if it is negative.
Poll(ms) == IF ms >= 0 THEN {Timeval(ms)} ELSE {}

\* set_timeout() tells the kernel what it is given.
Set_timeout(ms) == Timeval(ms)

\* The kernel waits as long as the caller says, to the microsecond, in a form that it
\* accepts; only a negative timeout is eternity for poll().
TimeoutsTold(ms) ==
  LET Lasts(tv) == tv.sec * PerSecond * PerMillisecond + tv.usec
      Accepted(tv) == tv.usec >= 0 /\ tv.usec < PerSecond * PerMillisecond
  IN
  /\ Poll(ms) = {} <=> ms < 0
  /\ \A tv \in Poll(ms) \union {Set_timeout(ms)} :
       Lasts(tv) = ms * PerMillisecond /\ (ms >= 0 => Accepted(tv))
=============================================================================
