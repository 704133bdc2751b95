------------------------------- MODULE Options -------------------------------
(***************************************************************************)
(* The options of a pgfe connection and of a WebSocket listener: objects   *)
(* with many setters, some of which may be called only after others, and   *)
(* what libpq and uWebSockets are told of them. An optional value is the   *)
(* empty set or the set of the value.                                      *)
(***************************************************************************)
EXTENDS Integers, FiniteSets

CONSTANTS
  MaxChanged  \* bound: the options of a connection that differ from the defaults

VARIABLES
  options_,           \* Connection_options
  listener_options_   \* ws::Listener_options

vars == <<options_, listener_options_>>

OptionalText == {{}, {"empty"}, {"text"}}
OptionalCount == {{}, {-1}, {0}, {10}}
OptionalHost == {{}, {"valid"}, {"invalid"}}

Timeouts == {"connect_timeout", "wait_response_timeout"}
Uds == {"uds_directory", "uds_require_server_process_username"}
Keepalives == {"tcp_keepalives_idle", "tcp_keepalives_interval", "tcp_keepalives_count"}
Hosts == {"net_address", "net_hostname"}
Net == Keepalives \union Hosts \union {"tcp_keepalives_enabled"}
Names == {"username", "database"}
Secrets == {"password", "kerberos_service_name"}
Files == {"ssl_certificate_file", "ssl_private_key_file", "ssl_certificate_authority_file",
          "ssl_certificate_revocation_list_file"}
Verification == "ssl_server_hostname_verification_enabled"
Ssl == Files \union {"ssl_compression_enabled", Verification}

\* What a caller may pass to the setter of an option.
Offered(option) ==
  CASE option = "communication_mode" -> {"uds", "net"}
    [] option = "port" -> {0, 1, 5432, 65535, 65536}
    [] option = "uds_directory" -> {"absolute", "relative", "empty"}
    [] option \in Timeouts \union Keepalives -> OptionalCount
    [] option \in Hosts -> OptionalHost
    [] option \in Names -> {"empty", "text", "postgres"}
    [] option \in Secrets \union Files \union (Uds \ {"uds_directory"}) -> OptionalText
    [] OTHER -> BOOLEAN

Defaults ==
  [communication_mode |-> "uds", port |-> 5432, connect_timeout |-> {10}, wait_response_timeout |-> {},
   uds_directory |-> "absolute", uds_require_server_process_username |-> {},
   tcp_keepalives_enabled |-> FALSE, tcp_keepalives_idle |-> {}, tcp_keepalives_interval |-> {},
   tcp_keepalives_count |-> {}, net_address |-> {}, net_hostname |-> {"valid"},
   username |-> "postgres", database |-> "postgres", password |-> {}, kerberos_service_name |-> {},
   ssl_enabled |-> FALSE, ssl_compression_enabled |-> FALSE, ssl_certificate_file |-> {},
   ssl_private_key_file |-> {}, ssl_certificate_authority_file |-> {},
   ssl_certificate_revocation_list_file |-> {}, ssl_server_hostname_verification_enabled |-> FALSE]
Option == DOMAIN Defaults

\* The setter does not throw.
Valid(option, value) ==
  CASE option \in Timeouts \union Keepalives -> \A n \in value : n >= 0
    [] option = "port" -> 0 < value /\ value < 65536
    [] option = "uds_directory" -> value = "absolute"
    [] option \in Hosts -> value \subseteq {"valid"}
    [] option \in Names -> value # "empty"
    [] option \in Secrets \union Files \union (Uds \ {"uds_directory"}) -> "empty" \notin value
    [] OTHER -> TRUE

\* Mutant: each of the setters of the hosts asserts the option it sets.
Precondition_own_host(o, option, value) ==
  /\ option \in Uds => o.communication_mode = "uds"
  /\ option \in Net => o.communication_mode = "net"
  /\ option \in Hosts /\ value = {} => o[option] # {}
  /\ option \in Ssl => o.ssl_enabled
  /\ option = Verification => o.ssl_certificate_authority_file # {}

\* What the setter asserts before.
Precondition(o, option, value) ==
  /\ option \in Uds => o.communication_mode = "uds"
  /\ option \in Net => o.communication_mode = "net"
  /\ option = "net_address" /\ value = {} => o.net_hostname # {}
  /\ option = "net_hostname" /\ value = {} => o.net_address # {}
  /\ option \in Ssl => o.ssl_enabled
  /\ option = Verification => o.ssl_certificate_authority_file # {}

\* The class invariant.
Is_invariant_ok(o) ==
  /\ \A option \in {"port"} \union Names \union Secrets \union Files : Valid(option, o[option])
  /\ o.communication_mode = "uds" => \A option \in Uds : Valid(option, o[option])
  /\ o.communication_mode = "net" =>
       /\ \A option \in Net : Valid(option, o[option])
       /\ o.net_address # {} \/ o.net_hostname # {}
  /\ o[Verification] => o.ssl_certificate_authority_file # {}

\* Options of the communication mode, of the authentication, and of SSL, as the keywords
\* of libpq. A keyword without a value is not in the record.
HostKeywords(o) ==
  IF o.communication_mode = "uds" THEN
    [host |-> {o.uds_directory}, port |-> {o.port}, requirepeer |-> o.uds_require_server_process_username]
  ELSE
    LET OrZero(value) == IF value = {} THEN {0} ELSE value IN
    [host |-> o.net_hostname, hostaddr |-> o.net_address, port |-> {o.port},
     keepalives |-> {IF o.tcp_keepalives_enabled THEN 1 ELSE 0},
     keepalives_idle |-> OrZero(o.tcp_keepalives_idle),
     keepalives_interval |-> OrZero(o.tcp_keepalives_interval),
     keepalives_count |-> OrZero(o.tcp_keepalives_count)]

Sslmode(o) ==
  CASE ~o.ssl_enabled -> "disable"
    [] o.ssl_enabled /\ o[Verification] -> "verify-full"
    [] o.ssl_enabled /\ ~o[Verification] /\ o.ssl_certificate_authority_file # {} -> "verify-ca"
    [] OTHER -> "require"

SslKeywords(o) ==
  IF ~o.ssl_enabled THEN [sslmode |-> Sslmode(o)]
  ELSE [sslmode |-> Sslmode(o), sslcompression |-> {IF o.ssl_compression_enabled THEN 1 ELSE 0},
        sslcert |-> o.ssl_certificate_file, sslkey |-> o.ssl_private_key_file,
        sslrootcert |-> o.ssl_certificate_authority_file,
        sslcrl |-> o.ssl_certificate_revocation_list_file]

-----------------------------------------------------------------------------
(* The setters.                                                            *)

\* The maximum of int, and that of the unsigned int of uWebSockets, scaled down.
IntMax == 127
UnsignedMax == 255

Init ==
  /\ options_ \in {Defaults, [Defaults EXCEPT !.communication_mode = "net"]}
  /\ listener_options_ = [idle_timeout |-> {}, max_payload_size |-> IntMax, max_buffered_amount |-> IntMax,
                          ssl_enabled |-> FALSE, ssl_text |-> {}]

\* A setter of Connection_options. An exception leaves the options as they are. The class
\* invariant is asserted last; without assertions the options go on as they have become.
Set_option(option, value) ==
  /\ Precondition(options_, option, value)
  /\ options_' = IF Valid(option, value) THEN [options_ EXCEPT ![option] = value] ELSE options_
  /\ UNCHANGED listener_options_

\* Bound: the idle timeouts, in milliseconds.
IdleTimeouts ==
  {{}, {-1}, {0}, {1}, {999}, {1000}, {7999}, {8000}, {10500}, {65535000}, {65536000}, {131071000}}

\* The setters of ws::Listener_options.
Set_idle_timeout(value) ==
  /\ \A ms \in value : ms >= 0
  /\ listener_options_' = [listener_options_ EXCEPT !.idle_timeout = value]
  /\ UNCHANGED options_

\* The two limits, which are of the size type of the host; a value that is too large throws.
Set_limit(limit, value) ==
  /\ listener_options_' = IF value <= IntMax THEN [listener_options_ EXCEPT ![limit] = value]
                          ELSE listener_options_
  /\ UNCHANGED options_

Set_ssl_enabled(value) ==
  /\ listener_options_' = [listener_options_ EXCEPT !.ssl_enabled = value]
  /\ UNCHANGED options_

\* The password of the PEM file, or one of the four file names.
Set_ssl_text(value) ==
  /\ listener_options_.ssl_enabled /\ "empty" \notin value
  /\ listener_options_' = [listener_options_ EXCEPT !.ssl_text = value]
  /\ UNCHANGED options_

\* The idle timeout of uWebSockets, in seconds, where 0 is none: a number of 16 bits.
SecondsMax == 65535
IdleTimeout(o) ==
  LET seconds == IF o.idle_timeout = {} THEN 0 ELSE (CHOOSE ms \in o.idle_timeout : TRUE) \div 1000 IN
  IF seconds > SecondsMax THEN SecondsMax ELSE seconds

\* uWebSockets terminates the program on a timeout it cannot keep.
Listens(o) == IdleTimeout(o) = 0 \/ IdleTimeout(o) >= 8

\* The limits of uWebSockets, and the files of its context, which has none without SSL.
Limit(o, limit) == IF o[limit] > UnsignedMax THEN UnsignedMax ELSE o[limit]
Ssl_files(o) == IF o.ssl_enabled THEN o.ssl_text ELSE {}

SetListener ==
  \/ \E value \in IdleTimeouts : Set_idle_timeout(value)
  \/ \E limit \in {"max_payload_size", "max_buffered_amount"}, value \in {0, 16, IntMax, IntMax + 1, UnsignedMax + 1} :
       Set_limit(limit, value)
  \/ \E value \in BOOLEAN : Set_ssl_enabled(value)
  \/ \E value \in OptionalText : Set_ssl_text(value)

SetConnection ==
  LET changed == {option \in Option : options_[option] # Defaults[option]}
      May == IF Cardinality(changed) < MaxChanged THEN Option ELSE changed
  IN \E option \in May : \E value \in Offered(option) : Set_option(option, value)

Next == SetConnection \/ SetListener

Spec == Init /\ [][Next]_vars

-----------------------------------------------------------------------------
(* Properties.                                                             *)

\* No sequence of calls that the setters' assertions allow breaks the class invariant but
\* for one of its parts, the authority that the verification of host names needs, in
\* whatever order the communication mode, SSL and the options that need them are switched.
InvariantKept == Is_invariant_ok([options_ EXCEPT ![Verification] = FALSE])

\* That part is broken by one call only, which is asserted after but not before it: the
\* authority's file is removed while host names are verified. It is not broken by what the
\* other calls do to SSL, to the verification and to the authority, in whatever order.
OnlyAuthorityLost ==
  Is_invariant_ok(options_) =>
    \/ Is_invariant_ok(options_)'
    \/ /\ options_[Verification]
       /\ options_' = [options_ EXCEPT !["ssl_certificate_authority_file"] = {}]

\* libpq is told a server to connect to, no negative time, and, while the class invariant
\* holds, an authority whenever it has to verify the server; of SSL that is off it is told
\* nothing.
LibpqTold ==
  LET host == HostKeywords(options_)
      ssl == SslKeywords(options_)
  IN
  /\ host.host # {} \/ host.hostaddr # {}
  /\ options_.communication_mode = "net" =>
       \A n \in host.keepalives_idle \union host.keepalives_interval \union host.keepalives_count : n >= 0
  /\ ssl.sslmode = "disable" <=> DOMAIN ssl = {"sslmode"}
  /\ Is_invariant_ok(options_) =>
       (ssl.sslmode \in {"verify-ca", "verify-full"} <=> "sslrootcert" \in DOMAIN ssl /\ ssl.sslrootcert # {})

\* uWebSockets drops an idle connection when the listener's option says so, less what is
\* left of a whole second, and never later than the 16 bits of its seconds allow; it drops
\* none if the option is none or below a second, and it terminates the program if the
\* option is from one to eight seconds. Its limits are those of the options, and it has no
\* file of SSL that is off, though one was set before.
IdleTimeoutTold ==
  LET told == IdleTimeout(listener_options_) IN
  /\ told \in 0..SecondsMax
  /\ \A ms \in listener_options_.idle_timeout :
       /\ (told = 0 <=> ms < 1000) /\ told * 1000 <= ms /\ (told < SecondsMax => ms - told * 1000 < 1000)
       /\ Listens(listener_options_) <=> ms \notin 1000..7999
  /\ listener_options_.idle_timeout = {} => told = 0 /\ Listens(listener_options_)
  /\ \A limit \in {"max_payload_size", "max_buffered_amount"} :
       Limit(listener_options_, limit) = listener_options_[limit] /\ listener_options_[limit] <= IntMax
  /\ Ssl_files(listener_options_) # {} => listener_options_.ssl_enabled
=============================================================================
