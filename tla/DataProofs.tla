----------------------------- MODULE DataProofs -----------------------------
(***************************************************************************)
(* Proofs about the instances of module Data: the options of a connection  *)
(* and of a listener, requests and responses of JSON-RPC, and members of   *)
(* JSON objects. The invariants are over the variables of one object, so   *)
(* LibrariesProofs can use what is proved here.                            *)
(***************************************************************************)
EXTENDS Data, Sequences, SequenceTheorems, FunctionTheorems, FiniteSetTheorems, WellFoundedInduction, TLAPS

-----------------------------------------------------------------------------
(* Options.                                                                *)

\* What is offered and accepted of the options of each kind.
Counts == O!Timeouts \union O!Keepalives
OptionalTexts == O!Secrets \union O!Files \union {"uds_require_server_process_username"}
Switches == {"ssl_enabled", "tcp_keepalives_enabled", "ssl_compression_enabled", O!Verification}

LEMMA OptionKinds ==
  O!Option = {"communication_mode", "port", "uds_directory"} \union Counts \union O!Hosts \union O!Names
               \union OptionalTexts \union Switches
BY DEF O!Option, O!Defaults, Counts, OptionalTexts, Switches, O!Timeouts, O!Keepalives, O!Hosts, O!Names,
       O!Secrets, O!Files, O!Verification

LEMMA ValidPort == ASSUME NEW v PROVE O!Valid("port", v) <=> 0 < v /\ v < 65536
BY DEF O!Valid, O!Timeouts, O!Uds, O!Keepalives, O!Hosts, O!Names, O!Secrets, O!Files, O!Verification,
       Counts, OptionalTexts, Switches

LEMMA ValidDirectory == ASSUME NEW v PROVE O!Valid("uds_directory", v) <=> v = "absolute"
BY DEF O!Valid, O!Timeouts, O!Uds, O!Keepalives, O!Hosts, O!Names, O!Secrets, O!Files, O!Verification,
       Counts, OptionalTexts, Switches

LEMMA ValidCount == ASSUME NEW option \in Counts, NEW v PROVE O!Valid(option, v) <=> \A n \in v : n >= 0
BY DEF O!Valid, O!Timeouts, O!Uds, O!Keepalives, O!Hosts, O!Names, O!Secrets, O!Files, O!Verification,
       Counts, OptionalTexts, Switches

LEMMA ValidHost == ASSUME NEW option \in O!Hosts, NEW v PROVE O!Valid(option, v) <=> v \subseteq {"valid"}
BY DEF O!Valid, O!Timeouts, O!Uds, O!Keepalives, O!Hosts, O!Names, O!Secrets, O!Files, O!Verification,
       Counts, OptionalTexts, Switches

LEMMA ValidName == ASSUME NEW option \in O!Names, NEW v PROVE O!Valid(option, v) <=> v # "empty"
BY DEF O!Valid, O!Timeouts, O!Uds, O!Keepalives, O!Hosts, O!Names, O!Secrets, O!Files, O!Verification,
       Counts, OptionalTexts, Switches

LEMMA ValidText == ASSUME NEW option \in OptionalTexts, NEW v PROVE O!Valid(option, v) <=> "empty" \notin v
BY DEF O!Valid, O!Timeouts, O!Uds, O!Keepalives, O!Hosts, O!Names, O!Secrets, O!Files, O!Verification,
       Counts, OptionalTexts, Switches

LEMMA ValidOthers == ASSUME NEW option \in Switches \union {"communication_mode"}, NEW v PROVE O!Valid(option, v)
BY DEF O!Valid, O!Timeouts, O!Uds, O!Keepalives, O!Hosts, O!Names, O!Secrets, O!Files, O!Verification,
       Counts, OptionalTexts, Switches

LEMMA Offers ==
  /\ O!Offered("communication_mode") = {"uds", "net"}
  /\ O!Offered("port") = {0, 1, 5432, 65535, 65536}
  /\ \A option \in Counts : O!Offered(option) = O!OptionalCount
  /\ \A option \in O!Hosts : O!Offered(option) = O!OptionalHost
  /\ \A option \in OptionalTexts : O!Offered(option) = O!OptionalText
  /\ \A option \in Switches : O!Offered(option) = BOOLEAN
<1> USE DEF O!Timeouts, O!Uds, O!Keepalives, O!Hosts, O!Names, O!Secrets, O!Files, O!Verification, Counts,
            OptionalTexts, Switches, O!Offered
<1>1. O!Offered("communication_mode") = {"uds", "net"}
  OBVIOUS
<1>2. O!Offered("port") = {0, 1, 5432, 65535, 65536}
  OBVIOUS
<1>3. \A option \in Counts : O!Offered(option) = O!OptionalCount
  OBVIOUS
<1>4. \A option \in O!Hosts : O!Offered(option) = O!OptionalHost
  OBVIOUS
<1>5. \A option \in OptionalTexts : O!Offered(option) = O!OptionalText
  OBVIOUS
<1>6. \A option \in Switches : O!Offered(option) = BOOLEAN
  OBVIOUS
<1> HIDE DEF Counts, OptionalTexts, Switches, O!Hosts, O!Offered
<1> QED
  BY <1>1, <1>2, <1>3, <1>4, <1>5, <1>6

\* The options of a connection: each has a value that its setter accepts, and a host is named.
OptionsInv ==
  /\ options_ = [option \in O!Option |-> options_[option]]
  /\ \A option \in O!Option : O!Valid(option, options_[option])
  /\ \A option \in Switches : options_[option] \in BOOLEAN
  /\ \A option \in Counts : options_[option] \in O!OptionalCount
  /\ \A option \in O!Hosts : options_[option] \in O!OptionalHost
  /\ options_["communication_mode"] \in {"uds", "net"}
  /\ options_["net_address"] # {} \/ options_["net_hostname"] # {}

\* Those of a listener.
ListenerInv ==
  /\ listener_options_ \in [idle_timeout : O!IdleTimeouts, max_payload_size : Int, max_buffered_amount : Int,
                            ssl_enabled : BOOLEAN, ssl_text : O!OptionalText]
  /\ \A ms \in listener_options_.idle_timeout : ms >= 0
  /\ listener_options_.max_payload_size <= O!IntMax
  /\ listener_options_.max_buffered_amount <= O!IntMax

LEMMA DefaultsAccepted ==
  /\ \A option \in O!Option : O!Valid(option, O!Defaults[option])
  /\ \A option \in Switches : O!Defaults[option] = FALSE
  /\ \A option \in Counts : O!Defaults[option] = {} \/ O!Defaults[option] = {10}
  /\ \A option \in O!Hosts : O!Defaults[option] = {} \/ O!Defaults[option] = {"valid"}
<1>1. \A option \in Switches : O!Defaults[option] = FALSE
  BY DEF Switches, O!Defaults, O!Verification
<1>2. \A option \in Counts : O!Defaults[option] = {} \/ O!Defaults[option] = {10}
  BY DEF Counts, O!Defaults, O!Timeouts, O!Keepalives
<1>3. \A option \in O!Hosts : O!Defaults[option] = {} \/ O!Defaults[option] = {"valid"}
  BY DEF O!Hosts, O!Defaults
<1>4. \A option \in O!Names : O!Defaults[option] = "postgres"
  BY DEF O!Names, O!Defaults
<1>5. \A option \in OptionalTexts : O!Defaults[option] = {}
  BY DEF OptionalTexts, O!Defaults, O!Secrets, O!Files
<1>6. O!Defaults["port"] = 5432 /\ O!Defaults["uds_directory"] = "absolute"
  BY DEF O!Defaults
<1>7. \A option \in O!Option : O!Valid(option, O!Defaults[option])
  <2> TAKE option \in O!Option
  <2>1. CASE option \in Counts
    <3>1. \A n \in O!Defaults[option] : n >= 0
      BY <1>2, <2>1
    <3> QED
      BY <2>1, <3>1, ValidCount
  <2>2. CASE option \in O!Hosts
    <3>1. O!Defaults[option] \subseteq {"valid"}
      BY <1>3, <2>2
    <3> QED
      BY <2>2, <3>1, ValidHost
  <2>3. CASE option \in O!Names
    BY <1>4, <2>3, ValidName
  <2>4. CASE option \in OptionalTexts
    BY <1>5, <2>4, ValidText
  <2>5. CASE option \in Switches \union {"communication_mode"}
    BY <2>5, ValidOthers
  <2>6. CASE option \in {"port", "uds_directory"}
    BY <1>6, <2>6, ValidPort, ValidDirectory
  <2> QED
    BY <2>1, <2>2, <2>3, <2>4, <2>5, <2>6, OptionKinds
<1> QED
  BY <1>1, <1>2, <1>3, <1>7

LEMMA OptionsStart == O!Init => OptionsInv /\ ListenerInv
<1> SUFFICES ASSUME O!Init PROVE OptionsInv /\ ListenerInv
  OBVIOUS
<1>1. ListenerInv
  BY DEF O!Init, ListenerInv, O!IdleTimeouts, O!OptionalText, O!IntMax
<1>2. PICK mode \in {"uds", "net"} : options_ = [O!Defaults EXCEPT !["communication_mode"] = mode]
  <2>1. O!Defaults = [O!Defaults EXCEPT !["communication_mode"] = "uds"]
    BY DEF O!Defaults
  <2> QED
    BY <2>1 DEF O!Init
<1>3. /\ options_ = [option \in O!Option |-> options_[option]]
      /\ \A option \in O!Option \ {"communication_mode"} : options_[option] = O!Defaults[option]
      /\ options_["communication_mode"] \in {"uds", "net"}
  <2>1. O!Option = DOMAIN O!Defaults /\ O!Defaults = [option \in O!Option |-> O!Defaults[option]]
    BY DEF O!Option, O!Defaults
  <2>2. "communication_mode" \in O!Option
    BY OptionKinds
  <2> QED
    BY <1>2, <2>1, <2>2, Zenon
<1>4. options_["net_hostname"] = {"valid"}
  <2>1. "net_hostname" \in O!Option \ {"communication_mode"}
    BY OptionKinds DEF O!Hosts
  <2> QED
    BY <1>3, <2>1 DEF O!Defaults
<1>5. \A option \in O!Option : O!Valid(option, options_[option])
  BY <1>3, DefaultsAccepted, ValidOthers
<1>6. Switches \union Counts \union O!Hosts \subseteq O!Option \ {"communication_mode"}
  BY OptionKinds DEF Switches, Counts, O!Hosts, O!Timeouts, O!Keepalives, O!Verification
<1>7. /\ \A option \in Switches : options_[option] \in BOOLEAN
      /\ \A option \in Counts : options_[option] \in O!OptionalCount
      /\ \A option \in O!Hosts : options_[option] \in O!OptionalHost
  BY <1>3, <1>6, DefaultsAccepted DEF O!OptionalCount, O!OptionalHost
<1> QED
  BY <1>1, <1>3, <1>4, <1>5, <1>7 DEF OptionsInv

LEMMA SetOption ==
  ASSUME OptionsInv, NEW option \in O!Option, NEW value \in O!Offered(option),
         O!Set_option(option, value)
  PROVE  OptionsInv'
<1>1. CASE ~O!Valid(option, value)
  BY <1>1 DEF OptionsInv, O!Set_option
<1>2. CASE O!Valid(option, value)
  <2>1. options_' = [options_ EXCEPT ![option] = value]
    BY <1>2 DEF O!Set_option
  <2>2. \A o \in O!Option : options_'[o] = IF o = option THEN value ELSE options_[o]
    BY <2>1 DEF OptionsInv
  <2>3. options_' = [o \in O!Option |-> options_'[o]]
    BY <2>1 DEF OptionsInv
  <2>4. \A o \in O!Option : O!Valid(o, options_'[o])
    BY <1>2, <2>2 DEF OptionsInv
  <2>5. Switches \union Counts \union O!Hosts \subseteq O!Option
    BY OptionKinds
  <2>6. \A o \in Switches : options_'[o] \in BOOLEAN
    BY <2>2, <2>5, Offers DEF OptionsInv
  <2>7. \A o \in Counts : options_'[o] \in O!OptionalCount
    BY <2>2, <2>5, Offers DEF OptionsInv
  <2>8. \A o \in O!Hosts : options_'[o] \in O!OptionalHost
    BY <2>2, <2>5, Offers DEF OptionsInv
  <2>9. /\ options_'["communication_mode"] \in {"uds", "net"}
        /\ options_'["net_address"] # {} \/ options_'["net_hostname"] # {}
    <3>1. {"communication_mode", "net_address", "net_hostname"} \subseteq O!Option
      BY OptionKinds DEF O!Hosts
    <3>2. O!Precondition(options_, option, value)
      BY DEF O!Set_option
    <3>3. options_'["communication_mode"] \in {"uds", "net"}
      BY <2>2, <3>1, Offers DEF OptionsInv
    <3>4. options_'["net_address"] # {} \/ options_'["net_hostname"] # {}
      BY <2>2, <3>1, <3>2 DEF OptionsInv, O!Precondition
    <3> QED
      BY <3>3, <3>4
  <2> QED
    BY <2>3, <2>4, <2>6, <2>7, <2>8, <2>9 DEF OptionsInv
<1> QED
  BY <1>1, <1>2

\* What of the class invariant the setters do not keep by themselves.
LEMMA AuthorityPart ==
  OptionsInv =>
    (O!Is_invariant_ok(options_) <=>
       (options_[O!Verification] => options_["ssl_certificate_authority_file"] # {}))
<1>1. O!Names \union O!Secrets \union O!Files \union O!Uds \union O!Net \union {"port"} \subseteq O!Option
  BY OptionKinds DEF O!Net, O!Uds, Counts, OptionalTexts, Switches, O!Verification
<1> QED
  BY <1>1 DEF OptionsInv, O!Is_invariant_ok

\* A setter that is not refused, of the verification or of the authority's file: that part
\* is broken by the removal of the file only.
LEMMA SetOptionOnly ==
  ASSUME OptionsInv, NEW option \in O!Option, NEW value, O!Set_option(option, value),
         options_[O!Verification] => options_["ssl_certificate_authority_file"] # {},
         options_'[O!Verification], options_'["ssl_certificate_authority_file"] = {}
  PROVE  options_[O!Verification] /\ options_' = [options_ EXCEPT !["ssl_certificate_authority_file"] = {}]
<1>1. PICK v : options_' = [options_ EXCEPT ![option] = v]
  <2>1. options_' = [options_ EXCEPT ![option] = value] \/ options_' = options_
    BY DEF O!Set_option
  <2>2. options_ = [options_ EXCEPT ![option] = options_[option]]
    BY DEF OptionsInv
  <2> QED
    BY <2>1, <2>2
<1>2. \A o \in O!Option : options_'[o] = IF o = option THEN v ELSE options_[o]
  BY <1>1 DEF OptionsInv
<1>3. {O!Verification, "ssl_certificate_authority_file"} \subseteq O!Option
  BY OptionKinds DEF Switches, OptionalTexts, O!Files
<1>4. option # O!Verification
  <2>1. option = O!Verification => options_["ssl_certificate_authority_file"] # {}
    BY DEF O!Set_option, O!Precondition
  <2>2. O!Verification # "ssl_certificate_authority_file"
    BY DEF O!Verification
  <2> QED
    BY <1>2, <1>3, <2>1, <2>2
<1>5. options_[O!Verification]
  BY <1>2, <1>3, <1>4
<1>6. option = "ssl_certificate_authority_file"
  BY <1>2, <1>3, <1>5
<1>7. v = {}
  BY <1>2, <1>3, <1>6
<1> QED
  BY <1>1, <1>5, <1>6, <1>7

LEMMA SetListenerStep ==
  ASSUME ListenerInv, O!SetListener
  PROVE  ListenerInv' /\ UNCHANGED options_
<1> USE DEF ListenerInv
<1>1. CASE \E value \in O!IdleTimeouts : O!Set_idle_timeout(value)
  BY <1>1 DEF O!Set_idle_timeout
<1>2. CASE \E limit \in {"max_payload_size", "max_buffered_amount"},
              value \in {0, 16, O!IntMax, O!IntMax + 1, O!UnsignedMax + 1} : O!Set_limit(limit, value)
  BY <1>2 DEF O!Set_limit, O!IntMax, O!UnsignedMax
<1>3. CASE \E value \in BOOLEAN : O!Set_ssl_enabled(value)
  BY <1>3 DEF O!Set_ssl_enabled
<1>4. CASE \E value \in O!OptionalText : O!Set_ssl_text(value)
  BY <1>4 DEF O!Set_ssl_text
<1> QED
  BY <1>1, <1>2, <1>3, <1>4 DEF O!SetListener

LEMMA OptionsStep ==
  ASSUME OptionsInv, ListenerInv, [O!SetConnection \/ O!SetListener]_optionsVars
  PROVE  OptionsInv' /\ ListenerInv'
<1>1. CASE O!SetConnection
  <2>1. PICK option \in O!Option : \E value \in O!Offered(option) : O!Set_option(option, value)
    BY <1>1 DEF O!SetConnection
  <2>2. OptionsInv'
    BY <2>1, SetOption
  <2>3. UNCHANGED listener_options_
    BY <2>1 DEF O!Set_option
  <2> QED
    BY <2>2, <2>3 DEF ListenerInv
<1>2. CASE O!SetListener
  BY <1>2, SetListenerStep DEF OptionsInv
<1>3. CASE UNCHANGED optionsVars
  BY <1>3 DEF optionsVars, OptionsInv, ListenerInv
<1> QED
  BY <1>1, <1>2, <1>3

LEMMA OptionsMoveOnly ==
  ASSUME OptionsInv, OptionsInv', ListenerInv, [O!SetConnection \/ O!SetListener]_optionsVars
  PROVE  O!OnlyAuthorityLost
<1> DEFINE Authorised == options_[O!Verification] => options_["ssl_certificate_authority_file"] # {}
<1>1. O!Is_invariant_ok(options_) => Authorised
  BY AuthorityPart
<1>2. Authorised' => O!Is_invariant_ok(options_)'
  BY AuthorityPart, PTL
<1>3. CASE O!SetConnection
  <2>1. PICK option \in O!Option : \E value \in O!Offered(option) : O!Set_option(option, value)
    BY <1>3 DEF O!SetConnection
  <2>2. PICK value : O!Set_option(option, value)
    BY <2>1
  <2> QED
    BY <1>1, <1>2, <2>2, SetOptionOnly DEF O!OnlyAuthorityLost
<1>4. CASE UNCHANGED options_
  BY <1>1, <1>2, <1>4 DEF O!OnlyAuthorityLost
<1> QED
  BY <1>3, <1>4, SetListenerStep DEF optionsVars

LEMMA OptionsHold ==
  ASSUME OptionsInv
  PROVE  O!InvariantKept /\ O!LibpqTold
<1>1. O!InvariantKept
  <2>1. /\ O!Names \union O!Secrets \union O!Files \union O!Uds \union O!Net \union {"port"} \subseteq O!Option
        /\ O!Verification \in O!Option
    BY OptionKinds DEF O!Net, O!Uds, Counts, OptionalTexts, Switches, O!Verification
  <2> DEFINE o == [options_ EXCEPT ![O!Verification] = FALSE]
  <2>2. /\ \A option \in O!Option : option # O!Verification => o[option] = options_[option]
        /\ o[O!Verification] = FALSE
    BY <2>1 DEF OptionsInv
  <2>3. \A option \in O!Option : O!Valid(option, o[option])
    BY <2>2, ValidOthers DEF OptionsInv, Switches
  <2>4. /\ {"net_address", "net_hostname"} \subseteq O!Option
        /\ O!Verification \notin {"net_address", "net_hostname"}
    BY OptionKinds DEF O!Hosts, O!Verification
  <2> HIDE DEF o
  <2>5. o["net_address"] # {} \/ o["net_hostname"] # {}
    BY <2>2, <2>4 DEF OptionsInv
  <2>6. O!Is_invariant_ok(o)
    BY <2>1, <2>2, <2>3, <2>5 DEF O!Is_invariant_ok
  <2> QED
    BY <2>6 DEF O!InvariantKept, o
<1>2. O!LibpqTold
  <2> DEFINE host == O!HostKeywords(options_)
             ssl == O!SslKeywords(options_)
  <2>1. host.host # {} \/ host.hostaddr # {}
    BY DEF O!HostKeywords, OptionsInv
  <2>2. ASSUME options_.communication_mode = "net"
        PROVE  \A n \in host.keepalives_idle \union host.keepalives_interval \union host.keepalives_count : n >= 0
    <3>1. \A option \in O!Keepalives : \A n \in options_[option] : n >= 0
      <4> TAKE option \in O!Keepalives
      <4>1. option \in Counts /\ option \in O!Option
        BY OptionKinds DEF Counts
      <4> QED
        BY <4>1, ValidCount DEF OptionsInv
    <3>2. "uds" # options_.communication_mode
      BY <2>2
    <3> QED
      BY <3>1, <3>2 DEF O!HostKeywords, O!Keepalives
  <2>3. options_["ssl_enabled"] \in BOOLEAN /\ options_[O!Verification] \in BOOLEAN
    BY DEF OptionsInv, Switches
  <2>4. CASE ~options_.ssl_enabled
    <3>1. ssl = [sslmode |-> "disable"]
      BY <2>3, <2>4 DEF O!SslKeywords, O!Sslmode
    <3> QED
      BY <2>1, <2>2, <3>1 DEF O!LibpqTold
  <2>5. CASE options_.ssl_enabled
    <3> DEFINE authority == options_.ssl_certificate_authority_file
    <3>1. /\ DOMAIN ssl = {"sslmode", "sslcompression", "sslcert", "sslkey", "sslrootcert", "sslcrl"}
          /\ ssl.sslmode = O!Sslmode(options_) /\ ssl.sslrootcert = authority
      BY <2>5 DEF O!SslKeywords
    <3>2. /\ options_[O!Verification] => O!Sslmode(options_) = "verify-full"
          /\ ~options_[O!Verification] /\ authority # {} => O!Sslmode(options_) = "verify-ca"
          /\ ~options_[O!Verification] /\ authority = {} => O!Sslmode(options_) = "require"
      BY <2>3, <2>5 DEF O!Sslmode
    <3>3. O!Is_invariant_ok(options_) => (options_[O!Verification] => authority # {})
      BY AuthorityPart
    <3>4. DOMAIN ssl # {"sslmode"} /\ "sslrootcert" \in DOMAIN ssl
      BY <3>1
    <3> HIDE DEF ssl
    <3>5. /\ ssl.sslmode # "disable"
          /\ O!Is_invariant_ok(options_) =>
               (ssl.sslmode \in {"verify-ca", "verify-full"} <=> authority # {})
      BY <2>3, <3>1, <3>2, <3>3
    <3> QED
      BY <2>1, <2>2, <3>1, <3>4, <3>5 DEF O!LibpqTold, ssl
  <2> QED
    BY <2>4, <2>5
<1> QED
  BY <1>1, <1>2

\* The seconds of so many milliseconds, as many as there may be.
LEMMA WholeSeconds ==
  ASSUME NEW ms \in Nat, NEW most \in Nat, most >= 8, NEW told,
         told = IF ms \div 1000 > most THEN most ELSE ms \div 1000
  PROVE  /\ told \in 0..most /\ (told = 0 <=> ms < 1000) /\ told * 1000 <= ms
         /\ told < most => ms - told * 1000 < 1000
         /\ told = 0 \/ told >= 8 <=> ms \notin 1000..7999
<1> DEFINE s == ms \div 1000
<1>1. s \in Nat /\ s * 1000 <= ms /\ ms - s * 1000 < 1000
  OBVIOUS
<1> HIDE DEF s
<1>2. told = IF s > most THEN most ELSE s
  BY DEF s
<1> QED
  BY <1>1, <1>2

LEMMA ListenerHolds ==
  ASSUME ListenerInv
  PROVE  O!IdleTimeoutTold
<1> DEFINE told == O!IdleTimeout(listener_options_)
<1>0. O!SecondsMax = 65535
  BY DEF O!SecondsMax
<1>1. PICK ms \in Nat : listener_options_.idle_timeout = {} \/ listener_options_.idle_timeout = {ms}
  BY DEF ListenerInv, O!IdleTimeouts
<1>2. /\ told \in 0..O!SecondsMax
      /\ \A n \in listener_options_.idle_timeout :
           /\ (told = 0 <=> n < 1000) /\ told * 1000 <= n /\ (told < O!SecondsMax => n - told * 1000 < 1000)
           /\ told = 0 \/ told >= 8 <=> n \notin 1000..7999
      /\ listener_options_.idle_timeout = {} => told = 0
  <2>1. CASE listener_options_.idle_timeout = {}
    BY <1>0, <2>1 DEF O!IdleTimeout
  <2>2. CASE listener_options_.idle_timeout = {ms}
    <3>1. (CHOOSE n \in listener_options_.idle_timeout : TRUE) = ms
      BY <2>2
    <3>2. told = IF ms \div 1000 > O!SecondsMax THEN O!SecondsMax ELSE ms \div 1000
      BY <2>2, <3>1 DEF O!IdleTimeout
    <3> DEFINE most == O!SecondsMax
    <3>3. most \in Nat /\ most >= 8
      BY <1>0
    <3> HIDE DEF told, most
    <3>4. /\ told \in 0..most /\ (told = 0 <=> ms < 1000) /\ told * 1000 <= ms
          /\ told < most => ms - told * 1000 < 1000
          /\ told = 0 \/ told >= 8 <=> ms \notin 1000..7999
      <4>1. told = IF ms \div 1000 > most THEN most ELSE ms \div 1000
        BY <3>2 DEF most
      <4> QED
        BY <1>1, <3>3, <4>1, WholeSeconds
    <3> QED
      BY <2>2, <3>4 DEF most
  <2> QED
    BY <1>1, <2>1, <2>2
<1>3. \A limit \in {"max_payload_size", "max_buffered_amount"} :
        O!Limit(listener_options_, limit) = listener_options_[limit] /\ listener_options_[limit] <= O!IntMax
  BY DEF ListenerInv, O!Limit, O!IntMax, O!UnsignedMax
<1>4. O!Ssl_files(listener_options_) # {} => listener_options_.ssl_enabled
  BY DEF O!Ssl_files
<1>5. O!Listens(listener_options_) <=> told = 0 \/ told >= 8
  BY DEF O!Listens
<1>6. \A n \in listener_options_.idle_timeout :
        /\ (told = 0 <=> n < 1000) /\ told * 1000 <= n /\ (told < O!SecondsMax => n - told * 1000 < 1000)
        /\ O!Listens(listener_options_) <=> n \notin 1000..7999
  <2> HIDE DEF told
  <2> QED
    BY <1>2, <1>5
<1>7. told \in 0..O!SecondsMax /\ (listener_options_.idle_timeout = {} => told = 0 /\ O!Listens(listener_options_))
  <2> HIDE DEF told
  <2> QED
    BY <1>2, <1>5
<1> QED
  BY <1>3, <1>4, <1>6, <1>7 DEF O!IdleTimeoutTold

-----------------------------------------------------------------------------
(* The members of a document.                                              *)

\* A set of naturals has a least element.
LEMMA Least ==
  ASSUME NEW T, T \subseteq Nat, T # {}
  PROVE  \E x \in T : \A y \in T : x <= y
<1> DEFINE less == OpToRel(<, Nat)
<1>1. IsWellFoundedOn(less, Nat)
  BY NatLessThanWellFounded DEF less
<1>2. PICK x \in T : \A y \in T : <<y, x>> \notin less
  <2> HIDE DEF less
  <2> QED
    BY <1>1, WFMin
<1>3. \A y \in T : x <= y
  <2>1. less = {ss \in Nat \X Nat : ss[1] < ss[2]}
    BY Zenon DEF OpToRel
  <2> HIDE DEF less
  <2> TAKE y \in T
  <2>2. y \in Nat /\ x \in Nat /\ <<y, x>> \notin less
    BY <1>2
  <2>3. <<y, x>> \in Nat \X Nat /\ <<y, x>>[1] = y /\ <<y, x>>[2] = x
    BY <2>2
  <2>4. ~(<<y, x>>[1] < <<y, x>>[2])
    BY <2>1, <2>2, <2>3, Zenon
  <2> QED
    BY <2>2, <2>3, <2>4
<1> QED
  BY <1>3

LEMMA FindFirst ==
  ASSUME NEW document, DOMAIN document \subseteq Nat, NEW name, NEW i \in DOMAIN document, i # 0,
         document[i].name = name, \A j \in DOMAIN document : document[j].name = name => i <= j
  PROVE  /\ J!Find(document, name) = i /\ J!Has(document, name)
         /\ J!Of(document, name) = document[i].value
<1> DEFINE found == {j \in DOMAIN document : document[j].name = name}
<1>1. i \in found /\ \A j \in found : i <= j
  OBVIOUS
<1>2. J!Min(found) = i
  BY <1>1 DEF J!Min
<1>3. J!Find(document, name) = i
  BY <1>1, <1>2 DEF J!Find
<1> QED
  BY <1>3 DEF J!Has, J!Of

LEMMA FindNone ==
  ASSUME NEW document, NEW name, \A j \in DOMAIN document : document[j].name # name
  PROVE  J!Find(document, name) = 0 /\ ~J!Has(document, name)
<1>1. {j \in DOMAIN document : document[j].name = name} = {}
  OBVIOUS
<1> QED
  BY <1>1 DEF J!Find, J!Has

\* A member of a document is found at its first place, unless there is none.
LEMMA FindPlace ==
  ASSUME NEW document, NEW n \in Nat, DOMAIN document = 1..n, NEW name
  PROVE  \/ /\ \A j \in 1..n : document[j].name # name
            /\ J!Find(document, name) = 0 /\ ~J!Has(document, name)
         \/ \E i \in 1..n :
              /\ document[i].name = name /\ \A j \in 1..(i - 1) : document[j].name # name
              /\ J!Find(document, name) = i /\ J!Has(document, name)
              /\ J!Of(document, name) = document[i].value
<1>1. CASE \A j \in 1..n : document[j].name # name
  BY <1>1, FindNone
<1>2. CASE \E j \in 1..n : document[j].name = name
  <2> DEFINE found == {j \in 1..n : document[j].name = name}
  <2>4. found # {} /\ found \subseteq Nat
    BY <1>2
  <2> HIDE DEF found
  <2>1. PICK i \in found : \A j \in found : i <= j
    BY <2>4, Least
  <2> USE DEF found
  <2>2. \A j \in 1..(i - 1) : document[j].name # name
    BY <2>1
  <2>3. J!Find(document, name) = i /\ J!Has(document, name) /\ J!Of(document, name) = document[i].value
    BY <2>1, FindFirst
  <2> QED
    BY <2>1, <2>2, <2>3
<1> QED
  BY <1>1, <1>2

\* No two members have the same name.
Distinct(document) == \A i, j \in DOMAIN document : document[i].name = document[j].name => i = j

\* Then each member is found.
LEMMA FoundAt ==
  ASSUME NEW document, NEW n \in Nat, DOMAIN document = 1..n, Distinct(document), NEW i \in 1..n
  PROVE  /\ J!Find(document, document[i].name) = i /\ J!Has(document, document[i].name)
         /\ J!Of(document, document[i].name) = document[i].value
<1>1. /\ DOMAIN document \subseteq Nat /\ i \in DOMAIN document /\ i # 0
      /\ \A j \in DOMAIN document : document[j].name = document[i].name => i <= j
  BY DEF Distinct
<1> QED
  BY <1>1, FindFirst

-----------------------------------------------------------------------------
(* Requests.                                                               *)

Method == J!Value("string")
IdTypes == {"int", "string", "null"}

\* A request before any parameter is set.
IsBase(base) ==
  \/ base = J!Notification(Method)
  \/ \E id \in IdTypes : base = J!Request(J!Value(id), Method)

BaseMember ==
  {J!Member("jsonrpc", J!Version), J!Member("method", Method)} \union {J!Member("id", J!Value(id)) : id \in IdTypes}

LEMMA BaseMembers ==
  ASSUME NEW base, IsBase(base)
  PROVE  /\ base \in Seq(BaseMember) /\ Len(base) \in {2, 3} /\ DOMAIN base = 1..Len(base)
         /\ base[1].name = "jsonrpc" /\ base[1].value = J!Version
         /\ base[2].name = "method" /\ base[2].value = Method
         /\ Len(base) = 3 => base[3].name = "id" /\ \E id \in IdTypes : base[3].value = J!Value(id)
<1>1. CASE base = J!Notification(Method)
  BY <1>1 DEF J!Notification, J!Member, BaseMember
<1>2. CASE \E id \in IdTypes : base = J!Request(J!Value(id), Method)
  <2>1. PICK id \in IdTypes : base = J!Request(J!Value(id), Method)
    BY <1>2
  <2>2. base = <<J!Member("jsonrpc", J!Version), J!Member("method", Method), J!Member("id", J!Value(id))>>
    BY <2>1 DEF J!Request
  <2> QED
    BY <2>2 DEF J!Member, BaseMember
<1> QED
  BY <1>1, <1>2 DEF IsBase

\* What is found of a request: the members that are there from the beginning.
LEMMA BaseFound ==
  ASSUME NEW base, IsBase(base)
  PROVE  /\ Distinct(base)
         /\ J!Has(base, "jsonrpc") /\ J!Of(base, "jsonrpc") = J!Version
         /\ J!Has(base, "method") /\ J!Of(base, "method") = Method
         /\ J!Has(base, "id") <=> Len(base) = 3
         /\ Len(base) = 3 => J!Of(base, "id") = base[3].value
         /\ ~J!Has(base, "params") /\ J!Find(base, "params") = 0
<1>1. /\ Len(base) \in {2, 3} /\ DOMAIN base = 1..Len(base)
      /\ base[1].name = "jsonrpc" /\ base[1].value = J!Version
      /\ base[2].name = "method" /\ base[2].value = Method
      /\ Len(base) = 3 => base[3].name = "id"
  BY BaseMembers
<1> HIDE DEF IsBase
<1>2. Distinct(base)
  BY <1>1 DEF Distinct
<1>3. \A i \in 1..Len(base) : J!Has(base, base[i].name) /\ J!Of(base, base[i].name) = base[i].value
  BY <1>1, <1>2, FoundAt
<1>4. J!Has(base, "jsonrpc") /\ J!Of(base, "jsonrpc") = J!Version
  BY <1>1, <1>3
<1>5. J!Has(base, "method") /\ J!Of(base, "method") = Method
  BY <1>1, <1>3
<1>6. Len(base) = 3 => J!Has(base, "id") /\ J!Of(base, "id") = base[3].value
  BY <1>1, <1>3
<1>7. Len(base) = 2 => ~J!Has(base, "id")
  <2>1. Len(base) = 2 => \A j \in DOMAIN base : base[j].name # "id"
    BY <1>1
  <2> QED
    BY <2>1, FindNone
<1>8. ~J!Has(base, "params") /\ J!Find(base, "params") = 0
  <2>1. \A j \in DOMAIN base : base[j].name # "params"
    BY <1>1
  <2> QED
    BY <2>1, FindNone
<1> QED
  BY <1>1, <1>2, <1>4, <1>5, <1>6, <1>7, <1>8

\* A request with parameters.
WithParams(base, params) == Append(base, J!Member("params", params))

LEMMA ParamsFound ==
  ASSUME NEW base, IsBase(base), NEW params
  PROVE  /\ Len(WithParams(base, params)) = Len(base) + 1
         /\ J!Has(WithParams(base, params), "jsonrpc") /\ J!Of(WithParams(base, params), "jsonrpc") = J!Version
         /\ J!Has(WithParams(base, params), "method") /\ J!Of(WithParams(base, params), "method") = Method
         /\ J!Has(WithParams(base, params), "id") <=> J!Has(base, "id")
         /\ J!Has(base, "id") => J!Of(WithParams(base, params), "id") = J!Of(base, "id")
         /\ J!Has(WithParams(base, params), "params") /\ J!Of(WithParams(base, params), "params") = params
         /\ J!Find(WithParams(base, params), "params") = Len(base) + 1
<1> DEFINE r == WithParams(base, params)
           n == Len(base)
<1>1. /\ n \in {2, 3} /\ DOMAIN base = 1..n
      /\ base[1].name = "jsonrpc" /\ base[1].value = J!Version
      /\ base[2].name = "method" /\ base[2].value = Method
      /\ n = 3 => base[3].name = "id"
  BY BaseMembers
<1>2. /\ Len(r) = n + 1 /\ DOMAIN r = 1..(n + 1)
      /\ \A i \in 1..n : r[i] = base[i]
      /\ r[n + 1].name = "params" /\ r[n + 1].value = params
  BY BaseMembers DEF J!Member, WithParams
<1>0. /\ J!Has(base, "id") <=> n = 3
      /\ n = 3 => J!Of(base, "id") = base[3].value
  BY BaseFound
<1> HIDE DEF r, n, IsBase
<1>3. Distinct(r)
  BY <1>1, <1>2 DEF Distinct
<1>4. \A i \in 1..(n + 1) : /\ J!Has(r, r[i].name) /\ J!Of(r, r[i].name) = r[i].value
                            /\ J!Find(r, r[i].name) = i
  <2>1. n + 1 \in Nat /\ DOMAIN r = 1..(n + 1)
    BY <1>1, <1>2
  <2> QED
    BY <1>3, <2>1, FoundAt
<1>5. J!Has(r, "jsonrpc") /\ J!Of(r, "jsonrpc") = J!Version
  BY <1>1, <1>2, <1>4
<1>6. J!Has(r, "method") /\ J!Of(r, "method") = Method
  BY <1>1, <1>2, <1>4
<1>7. n = 3 => J!Has(r, "id") /\ J!Of(r, "id") = base[3].value
  BY <1>1, <1>2, <1>4
<1>8. n = 2 => ~J!Has(r, "id")
  <2>1. n = 2 => \A j \in DOMAIN r : r[j].name # "id"
    BY <1>1, <1>2
  <2> QED
    BY <2>1, FindNone
<1>9. J!Has(r, "params") /\ J!Of(r, "params") = params /\ J!Find(r, "params") = n + 1
  BY <1>1, <1>2, <1>4
<1> QED
  BY <1>0, <1>1, <1>2, <1>5, <1>6, <1>7, <1>8, <1>9 DEF r, n

\* What a request with parameters consists of.
LEMMA WithParamsMembers ==
  ASSUME NEW base, IsBase(base), NEW params
  PROVE  /\ Len(WithParams(base, params)) = Len(base) + 1 /\ Len(base) \in {2, 3}
         /\ DOMAIN WithParams(base, params) = 1..(Len(base) + 1)
         /\ WithParams(base, params)[Len(base) + 1] = [name |-> "params", value |-> params]
         /\ \A i \in 1..Len(base) : WithParams(base, params)[i] = base[i]
BY BaseMembers DEF J!Member, WithParams

LEMMA WithParamsType ==
  ASSUME NEW base, IsBase(base), NEW params, NEW S, BaseMember \subseteq S, J!Member("params", params) \in S
  PROVE  base \in Seq(S) /\ WithParams(base, params) \in Seq(S)
<1>1. base \in Seq(S)
  BY BaseMembers, SeqMonotonic
<1> QED
  BY <1>1 DEF WithParams

\* A request with parameters is told from its base and them: setting its parameters again
\* replaces them, and taking them away leaves the base.
LEMMA ParamsAgain ==
  ASSUME NEW base, IsBase(base), NEW old, NEW params
  PROVE  [WithParams(base, old) EXCEPT ![Len(base) + 1].value = params] = WithParams(base, params)
<1> DEFINE S == BaseMember \union {J!Member("params", old), J!Member("params", params)}
           n == Len(base)
           r == WithParams(base, old)
           w == WithParams(base, params)
<1>1. r \in Seq(S) /\ w \in Seq(S)
  <2>1. BaseMember \subseteq S /\ J!Member("params", old) \in S /\ J!Member("params", params) \in S
    OBVIOUS
  <2> HIDE DEF S
  <2> QED
    BY <2>1, WithParamsType
<1> HIDE DEF S
<1>2. /\ Len(r) = n + 1 /\ r[n + 1] = [name |-> "params", value |-> old]
      /\ \A i \in 1..n : r[i] = base[i]
  BY WithParamsMembers
<1>3. /\ Len(w) = n + 1 /\ w[n + 1] = [name |-> "params", value |-> params]
      /\ n \in {2, 3} /\ \A i \in 1..n : w[i] = base[i]
  BY WithParamsMembers
<1> HIDE DEF r, w, n
<1>4. [r EXCEPT ![n + 1].value = params] = [r EXCEPT ![n + 1] = w[n + 1]]
  <2>1. [r[n + 1] EXCEPT !.value = params] = w[n + 1]
    BY <1>2, <1>3
  <2> QED
    BY <1>2, <1>3, <2>1
<1>5. n + 1 \in 1..Len(r) /\ w[n + 1] \in S
  <2>1. n + 1 \in 1..Len(r) /\ n + 1 \in 1..Len(w)
    BY <1>2, <1>3
  <2> QED
    BY <1>1, <2>1, ElementOfSeq
<1> DEFINE e == [r EXCEPT ![n + 1] = w[n + 1]]
<1>6. /\ e \in Seq(S) /\ Len(e) = Len(r) /\ \A i \in 1..Len(r) : e[i] = IF i = n + 1 THEN w[n + 1] ELSE r[i]
  BY <1>1, <1>5, ExceptSeq
<1> HIDE DEF e
<1>7. \A i \in 1..Len(e) : e[i] = w[i]
  BY <1>2, <1>3, <1>6
<1>8. e = w
  <2>1. Len(e) = Len(w)
    BY <1>2, <1>3, <1>6
  <2> QED
    BY <1>1, <1>6, <1>7, <2>1, SeqEqual
<1> QED
  BY <1>4, <1>8 DEF r, w, n, e

LEMMA ParamsSet ==
  ASSUME NEW base, IsBase(base), NEW r, NEW params,
         r = base \/ \E old : r = WithParams(base, old)
  PROVE  J!With_params(r, params) = WithParams(base, params)
<1>1. CASE r = base
  BY <1>1, BaseFound DEF J!With_params, WithParams
<1>2. CASE \E old : r = WithParams(base, old)
  <2>1. PICK old : r = WithParams(base, old)
    BY <1>2
  <2>2. J!Has(r, "params") /\ J!Find(r, "params") = Len(base) + 1
    BY <2>1, ParamsFound
  <2>3. [WithParams(base, old) EXCEPT ![Len(base) + 1].value = params] = WithParams(base, params)
    BY ParamsAgain
  <2> QED
    BY <2>1, <2>2, <2>3 DEF J!With_params
<1> QED
  BY <1>1, <1>2

LEMMA ParamsOmitted ==
  ASSUME NEW base, IsBase(base), NEW params
  PROVE  LET r == WithParams(base, params)
             i == J!Find(r, "params")
         IN J!Front([r EXCEPT ![i] = J!Last(r)]) = base
<1> DEFINE S == BaseMember \union {J!Member("params", params)}
           n == Len(base)
           r == WithParams(base, params)
<1>1. r \in Seq(S) /\ base \in Seq(S)
  <2>1. BaseMember \subseteq S /\ J!Member("params", params) \in S
    OBVIOUS
  <2> HIDE DEF S
  <2> QED
    BY <2>1, WithParamsType
<1>2. J!Find(r, "params") = n + 1
  BY ParamsFound
<1> HIDE DEF S
<1>3. /\ Len(r) = n + 1 /\ r[n + 1] = [name |-> "params", value |-> params]
      /\ n \in {2, 3} /\ \A i \in 1..n : r[i] = base[i]
  BY WithParamsMembers
<1> HIDE DEF r, n
<1>4. J!Last(r) = r[n + 1] /\ n + 1 \in 1..Len(r)
  BY <1>3 DEF J!Last
<1>5. r[n + 1] \in S
  BY <1>1, <1>4, ElementOfSeq
<1> DEFINE e == [r EXCEPT ![n + 1] = r[n + 1]]
<1>6. e \in Seq(S) /\ Len(e) = n + 1 /\ \A i \in 1..Len(r) : e[i] = r[i]
  BY <1>1, <1>3, <1>4, <1>5, ExceptSeq
<1> HIDE DEF e
<1>7. J!Front(e) = SubSeq(e, 1, n)
  BY <1>3, <1>6 DEF J!Front
<1>8. SubSeq(e, 1, n) \in Seq(S) /\ Len(SubSeq(e, 1, n)) = n /\ \A i \in 1..n : SubSeq(e, 1, n)[i] = e[i]
  <2>1. \A i \in 1..n : e[i] \in S
    BY <1>3, <1>6, ElementOfSeq
  <2>2. n \in Int /\ 1 \in Int /\ 1 <= n /\ n - 1 + 1 = n /\ \A i \in 1..n : 1 + i - 1 = i
    BY <1>3
  <2> QED
    BY <2>1, <2>2, SubSeqProperties
<1>9. SubSeq(e, 1, n) = base
  <2>1. \A i \in 1..n : SubSeq(e, 1, n)[i] = base[i]
    BY <1>3, <1>6, <1>8
  <2> QED
    BY <1>1, <1>3, <1>8, <2>1, SeqEqual DEF n
<1> QED
  BY <1>2, <1>4, <1>7, <1>9 DEF e, r

Told(at, value) == [at |-> at, value |-> value]

\* What has been told is where it has been told; the other places are null, but the last one.
PositionsSaid(items, told) ==
  /\ items \in Seq(J!Values)
  /\ \A s \in told : s.at \in 1..Len(items) /\ s = Told(s.at, items[s.at])
  /\ \A i \in 1..Len(items) : Told(i, items[i]) \in told \/ items[i] = J!Null
  /\ Len(items) > 0 => Told(Len(items), items[Len(items)]) \in told

\* Each name has been told once, and nothing else is there.
NamesSaid(members, told) ==
  /\ members \in Seq([name : ParamName, value : J!Values])
  /\ Distinct(members)
  /\ \A s \in told : \E i \in 1..Len(members) : s = Told(members[i].name, members[i].value)
  /\ \A i \in 1..Len(members) : Told(members[i].name, members[i].value) \in told

JrpcInv ==
  \E base :
    /\ IsBase(base)
    /\ \/ request = base /\ said = {}
       \/ \E items : request = WithParams(base, J!Array(items)) /\ PositionsSaid(items, said)
       \/ \E members : request = WithParams(base, J!Object(members)) /\ NamesSaid(members, said)

LEMMA NothingSaid == PositionsSaid(<<>>, {}) /\ NamesSaid(<<>>, {})
BY DEF PositionsSaid, NamesSaid, Distinct

\* set_parameter(position, value)
LEMMA PositionSaid ==
  ASSUME NEW items, NEW told, PositionsSaid(items, told), NEW position \in Nat \ {0}, NEW value \in J!Values
  PROVE  PositionsSaid(
           IF position > Len(items)
           THEN items \o [i \in 1..(position - Len(items)) |-> IF i = position - Len(items) THEN value ELSE J!Null]
           ELSE [items EXCEPT ![position] = value],
           {s \in told : s.at # position} \union {Told(position, value)})
<1> DEFINE n == Len(items)
           more == [i \in 1..(position - n) |-> IF i = position - n THEN value ELSE J!Null]
           now == {s \in told : s.at # position} \union {Told(position, value)}
<1>1. items \in Seq(J!Values) /\ n \in Nat /\ J!Null \in J!Values
  BY DEF PositionsSaid, J!Values
<1>2. /\ \A s \in told : s.at \in 1..n /\ s = Told(s.at, items[s.at])
      /\ \A i \in 1..n : Told(i, items[i]) \in told \/ items[i] = J!Null
  BY DEF PositionsSaid
<1>3. \A s : s \in now <=> (s \in told /\ s.at # position) \/ s = Told(position, value)
  OBVIOUS
<1>4. \A i, v : Told(i, v).at = i /\ Told(i, v).value = v
  BY DEF Told
<1> HIDE DEF now
<1>5. ASSUME NEW w \in Seq(J!Values), position \in 1..Len(w), w[position] = value,
             Len(w) = (IF position > n THEN position ELSE n),
             \A i \in 1..Len(w) : i # position => w[i] = IF i <= n THEN items[i] ELSE J!Null
      PROVE  PositionsSaid(w, now)
  <2>1. ASSUME NEW s \in now
        PROVE  s.at \in 1..Len(w) /\ s = Told(s.at, w[s.at])
    <3>1. CASE s = Told(position, value)
      BY <1>4, <1>5, <3>1
    <3>2. CASE s \in told /\ s.at # position
      <4>1. s.at \in 1..n /\ s = Told(s.at, items[s.at])
        BY <1>2, <3>2
      <4>2. s.at \in 1..Len(w) /\ w[s.at] = items[s.at]
        BY <1>1, <1>5, <3>2, <4>1
      <4> QED
        BY <4>1, <4>2
    <3> QED
      BY <1>3, <3>1, <3>2
  <2>2. ASSUME NEW i \in 1..Len(w)
        PROVE  Told(i, w[i]) \in now \/ w[i] = J!Null
    <3>1. CASE i = position
      BY <1>3, <1>5, <3>1
    <3>2. CASE i # position /\ i <= n
      <4>1. w[i] = items[i] /\ i \in 1..n
        BY <1>1, <1>5, <3>2
      <4>2. Told(i, items[i]) \in told \/ items[i] = J!Null
        BY <1>2, <4>1
      <4> QED
        BY <1>3, <1>4, <3>2, <4>1, <4>2
    <3>3. CASE i # position /\ ~(i <= n)
      BY <1>5, <3>3
    <3> QED
      BY <3>1, <3>2, <3>3
  <2>3. Told(Len(w), w[Len(w)]) \in now
    <3>1. CASE Len(w) = position
      BY <1>3, <1>5, <3>1
    <3>2. CASE Len(w) # position
      <4>1. Len(w) = n /\ n > 0 /\ w[n] = items[n]
        BY <1>1, <1>5, <3>2
      <4>2. Told(n, items[n]) \in told
        BY <4>1 DEF PositionsSaid
      <4> QED
        BY <1>3, <1>4, <3>2, <4>1, <4>2
    <3> QED
      BY <3>1, <3>2
  <2> QED
    BY <1>5, <2>1, <2>2, <2>3 DEF PositionsSaid
<1>6. CASE position > n
  <2>1. more \in Seq(J!Values) /\ Len(more) = position - n
    <3>1. position - n \in Nat
      BY <1>1, <1>6
    <3> QED
      BY <1>1, <3>1
  <2>2. \A i \in 1..(position - n) : more[i] = IF i = position - n THEN value ELSE J!Null
    OBVIOUS
  <2> HIDE DEF more
  <2>3. /\ items \o more \in Seq(J!Values) /\ Len(items \o more) = position
        /\ \A i \in 1..position : (items \o more)[i] = IF i <= n THEN items[i] ELSE more[i - n]
    BY <1>1, <1>6, <2>1
  <2>4. \A i \in 1..position : i # position => (items \o more)[i] = IF i <= n THEN items[i] ELSE J!Null
    BY <1>1, <1>6, <2>1, <2>2, <2>3
  <2>5. position \in 1..position /\ (items \o more)[position] = value
    BY <1>1, <1>6, <2>1, <2>2, <2>3
  <2> DEFINE w == items \o more
  <2> HIDE DEF w
  <2>6. PositionsSaid(w, now)
    <3>1. w \in Seq(J!Values) /\ position \in 1..Len(w) /\ w[position] = value /\ Len(w) = position
      BY <2>3, <2>5 DEF w
    <3>2. \A i \in 1..Len(w) : i # position => w[i] = IF i <= n THEN items[i] ELSE J!Null
      BY <2>3, <2>4 DEF w
    <3> QED
      BY <1>5, <1>6, <3>1, <3>2
  <2> QED
    BY <1>6, <2>6 DEF w, more, now
<1>7. CASE ~(position > n)
  <2> DEFINE w == [items EXCEPT ![position] = value]
  <2>1. position \in 1..n
    BY <1>1, <1>7
  <2>2. /\ w \in Seq(J!Values) /\ Len(w) = n
        /\ \A i \in 1..n : w[i] = IF i = position THEN value ELSE items[i]
    BY <1>1, <2>1, ExceptSeq
  <2> HIDE DEF w
  <2>3. position \in 1..Len(w) /\ w[position] = value /\ \A i \in 1..Len(w) : i # position => w[i] = IF i <= n THEN items[i] ELSE J!Null
    BY <1>1, <2>1, <2>2
  <2>4. PositionsSaid(w, now)
    BY <1>5, <1>7, <2>2, <2>3
  <2> QED
    BY <1>7, <2>4 DEF w, now
<1> QED
  BY <1>6, <1>7

NamedMember == [name : ParamName, value : J!Values]

\* set_parameter(name, value)
LEMMA NameSaid ==
  ASSUME NEW members, NEW told, NamesSaid(members, told), NEW name \in ParamName, NEW value \in J!Values
  PROVE  NamesSaid(
           IF J!Find(members, name) = 0 THEN Append(members, J!Member(name, value))
           ELSE [members EXCEPT ![J!Find(members, name)].value = value],
           {s \in told : s.at # name} \union {Told(name, value)})
<1> DEFINE n == Len(members)
           now == {s \in told : s.at # name} \union {Told(name, value)}
<1>1. /\ members \in Seq(NamedMember) /\ n \in Nat /\ DOMAIN members = 1..n
      /\ \A i \in 1..n : members[i] \in NamedMember
  <2>1. members \in Seq(NamedMember)
    BY DEF NamesSaid, NamedMember
  <2> QED
    BY <2>1
<1>2. /\ \A s \in told : \E i \in 1..n : s = Told(members[i].name, members[i].value)
      /\ \A i \in 1..n : Told(members[i].name, members[i].value) \in told
      /\ \A i, j \in 1..n : members[i].name = members[j].name => i = j
  BY <1>1 DEF NamesSaid, Distinct
<1>3. \A s : s \in now <=> (s \in told /\ s.at # name) \/ s = Told(name, value)
  OBVIOUS
<1>4. \A i, v : Told(i, v).at = i /\ Told(i, v).value = v
  BY DEF Told
<1> HIDE DEF now
<1>5. ASSUME NEW w \in Seq(NamedMember), NEW at \in 1..Len(w), w[at].name = name, w[at].value = value,
             n <= Len(w), \A i \in 1..Len(w) : i # at => i \in 1..n /\ w[i] = members[i] /\ w[i].name # name,
             \A i \in 1..n : i # at <=> members[i].name # name
      PROVE  NamesSaid(w, now)
  <2>1. ASSUME NEW s \in now
        PROVE  \E i \in 1..Len(w) : s = Told(w[i].name, w[i].value)
    <3>1. CASE s = Told(name, value)
      BY <1>5, <3>1
    <3>2. CASE s \in told /\ s.at # name
      <4>1. PICK i \in 1..n : s = Told(members[i].name, members[i].value)
        BY <1>2, <3>2
      <4>2. members[i].name # name
        BY <1>4, <3>2, <4>1
      <4>3. i \in 1..Len(w)
        BY <1>1, <1>5
      <4>4. w[i] = members[i]
        BY <1>5, <4>1, <4>2, <4>3
      <4> QED
        BY <4>1, <4>3, <4>4
    <3> QED
      BY <1>3, <3>1, <3>2
  <2>2. ASSUME NEW i \in 1..Len(w)
        PROVE  Told(w[i].name, w[i].value) \in now
    <3>1. CASE i = at
      BY <1>3, <1>5, <3>1
    <3>2. CASE i # at
      <4>1. i \in 1..n /\ w[i] = members[i] /\ w[i].name # name
        BY <1>5, <3>2
      <4> QED
        BY <1>2, <1>3, <1>4, <4>1
    <3> QED
      BY <3>1, <3>2
  <2>3. Distinct(w)
    <3>1. \A i, j \in 1..Len(w) : w[i].name = w[j].name => i = j
      BY <1>2, <1>5
    <3> QED
      BY <3>1 DEF Distinct
  <2> QED
    BY <1>5, <2>1, <2>2, <2>3 DEF NamesSaid, NamedMember
<1>6. CASE \A j \in 1..n : members[j].name # name
  <2> DEFINE w == Append(members, J!Member(name, value))
  <2>1. J!Find(members, name) = 0
    BY <1>1, <1>6, FindNone
  <2>2. J!Member(name, value) \in NamedMember /\ J!Member(name, value).name = name /\ J!Member(name, value).value = value
    BY DEF J!Member, NamedMember
  <2>3. /\ w \in Seq(NamedMember) /\ Len(w) = n + 1 /\ w[n + 1] = J!Member(name, value)
        /\ \A i \in 1..n : w[i] = members[i]
    BY <1>1, <2>2
  <2> HIDE DEF w
  <2>4. /\ n + 1 \in 1..Len(w) /\ n <= Len(w) /\ \A i \in 1..Len(w) : i # n + 1 => i \in 1..n
        /\ \A i \in 1..n : i # n + 1
    BY <1>1, <2>3
  <2>5. NamesSaid(w, now)
    BY <1>5, <1>6, <2>2, <2>3, <2>4
  <2> QED
    BY <2>1, <2>5 DEF w, now
<1>7. CASE \E j \in 1..n : members[j].name = name
  <2>1. PICK at \in 1..n : members[at].name = name
    BY <1>7
  <2>2. J!Find(members, name) = at
    <3>1. Distinct(members)
      BY DEF NamesSaid
    <3> QED
      BY <1>1, <2>1, <3>1, FoundAt
  <2> DEFINE m == [members[at] EXCEPT !.value = value]
             w == [members EXCEPT ![at] = m]
  <2>3. m \in NamedMember /\ m.name = name /\ m.value = value
    BY <1>1, <2>1 DEF NamedMember
  <2> HIDE DEF m
  <2>4. w \in Seq(NamedMember) /\ Len(w) = n /\ \A i \in 1..n : w[i] = IF i = at THEN m ELSE members[i]
    BY <1>1, <2>3, ExceptSeq
  <2>5. w = [members EXCEPT ![J!Find(members, name)].value = value] /\ at # 0
    BY <2>2 DEF m
  <2> HIDE DEF w
  <2>6. NamesSaid(w, now)
    <3>1. at \in 1..Len(w) /\ w[at].name = name /\ w[at].value = value /\ n <= Len(w)
      BY <1>1, <2>3, <2>4
    <3>2. \A i \in 1..n : i # at <=> members[i].name # name
      BY <1>2, <2>1
    <3>3. \A i \in 1..Len(w) : i # at => i \in 1..n /\ w[i] = members[i] /\ w[i].name # name
      BY <2>4, <3>2
    <3> QED
      BY <1>5, <2>4, <3>1, <3>2, <3>3
  <2> QED
    BY <2>2, <2>5, <2>6 DEF now
<1> QED
  BY <1>6, <1>7

LEMMA JrpcStart == J!Init => JrpcInv
<1> SUFFICES ASSUME J!Init PROVE JrpcInv
  OBVIOUS
<1>1. IsBase(request) /\ said = {}
  BY DEF J!Init, IsBase, IdTypes, Method
<1> QED
  BY <1>1 DEF JrpcInv

\* What the parameters of a request are.
LEMMA RequestParams ==
  ASSUME NEW base, IsBase(base)
  PROVE  /\ request = base => J!Params(request) = J!Null
         /\ \A params : request = WithParams(base, params) => J!Params(request) = params
<1>1. request = base => J!Params(request) = J!Null
  BY BaseFound DEF J!Params
<1>2. ASSUME NEW params, request = WithParams(base, params)
      PROVE  J!Params(request) = params
  BY <1>2, ParamsFound DEF J!Params
<1> QED
  BY <1>1, <1>2

LEMMA JrpcStep ==
  ASSUME MaxParams \in Nat, JrpcInv, [J!Next]_jrpcVars
  PROVE  JrpcInv'
<1>1. PICK base : /\ IsBase(base)
                  /\ \/ request = base /\ said = {}
                     \/ \E items : request = WithParams(base, J!Array(items)) /\ PositionsSaid(items, said)
                     \/ \E members : request = WithParams(base, J!Object(members)) /\ NamesSaid(members, said)
  BY DEF JrpcInv
<1>2. request = base \/ \E old : request = WithParams(base, old)
  BY <1>1
<1>3. \A params : J!With_params(request, params) = WithParams(base, params)
  BY <1>1, <1>2, ParamsSet
<1>4. /\ J!Null.type = "null" /\ J!Null.items = <<>>
      /\ \A items : J!Array(items).type = "array" /\ J!Array(items).items = items
      /\ \A items : J!Object(items).type = "object" /\ J!Object(items).items = items
  BY DEF J!Null, J!Value, J!Array, J!Object
<1>5. ASSUME NEW value \in J!Values, NEW position \in 1..MaxParams, J!Set_position(position, value)
      PROVE  JrpcInv'
  <2> DEFINE items == J!Params(request).items
  <2>1. PositionsSaid(items, said)
    <3>1. J!Params(request).type \in {"null", "array"}
      BY <1>5 DEF J!Set_position
    <3>2. CASE request = base /\ said = {}
      BY <1>1, <1>4, <3>2, RequestParams, NothingSaid
    <3>3. ASSUME NEW old, request = WithParams(base, J!Array(old)), PositionsSaid(old, said)
          PROVE  PositionsSaid(items, said)
      BY <1>1, <1>4, <3>3, RequestParams
    <3>4. ASSUME NEW members, request = WithParams(base, J!Object(members))
          PROVE  FALSE
      BY <1>1, <1>4, <3>1, <3>4, RequestParams
    <3> QED
      BY <1>1, <3>2, <3>3, <3>4
  <2> DEFINE now == IF position > Len(items)
                    THEN items \o [i \in 1..(position - Len(items)) |->
                                     IF i = position - Len(items) THEN value ELSE J!Null]
                    ELSE [items EXCEPT ![position] = value]
             told == {s \in said : s.at # position} \union {Told(position, value)}
  <2>2. request' = WithParams(base, J!Array(now)) /\ said' = told
    BY <1>3, <1>5 DEF J!Set_position, Told
  <2>3. PositionsSaid(now, told)
    <3>1. position \in Nat \ {0}
      OBVIOUS
    <3> HIDE DEF items
    <3> QED
      BY <2>1, <3>1, PositionSaid
  <2> HIDE DEF now, told
  <2> QED
    BY <1>1, <2>2, <2>3 DEF JrpcInv
<1>6. ASSUME NEW value \in J!Values, NEW name \in ParamName, J!Set_named(name, value)
      PROVE  JrpcInv'
  <2> DEFINE members == J!Params(request).items
  <2>1. NamesSaid(members, said)
    <3>1. J!Params(request).type \in {"null", "object"}
      BY <1>6 DEF J!Set_named
    <3>2. CASE request = base /\ said = {}
      BY <1>1, <1>4, <3>2, RequestParams, NothingSaid
    <3>3. ASSUME NEW items, request = WithParams(base, J!Array(items))
          PROVE  FALSE
      BY <1>1, <1>4, <3>1, <3>3, RequestParams
    <3>4. ASSUME NEW old, request = WithParams(base, J!Object(old)), NamesSaid(old, said)
          PROVE  NamesSaid(members, said)
      BY <1>1, <1>4, <3>4, RequestParams
    <3> QED
      BY <1>1, <3>2, <3>3, <3>4
  <2> DEFINE now == IF J!Find(members, name) = 0 THEN Append(members, J!Member(name, value))
                    ELSE [members EXCEPT ![J!Find(members, name)].value = value]
             told == {s \in said : s.at # name} \union {Told(name, value)}
  <2>2. request' = WithParams(base, J!Object(now)) /\ said' = told
    BY <1>3, <1>6 DEF J!Set_named, Told
  <2>3. NamesSaid(now, told)
    <3> HIDE DEF members
    <3> QED
      BY <2>1, NameSaid
  <2> HIDE DEF now, told
  <2> QED
    BY <1>1, <2>2, <2>3 DEF JrpcInv
<1>7. ASSUME NEW notation \in J!Structured, J!Reset_parameters(notation)
      PROVE  JrpcInv'
  <2>1. said' = {} /\ \/ request' = WithParams(base, J!Array(<<>>))
                      \/ request' = WithParams(base, J!Object(<<>>))
    BY <1>3, <1>7 DEF J!Reset_parameters, J!Structured, J!Array, J!Object
  <2> QED
    BY <1>1, <2>1, NothingSaid DEF JrpcInv
<1>8. CASE J!Omit_parameters
  <2>1. request' = base /\ said' = {}
    <3>1. CASE request = base
      BY <1>1, <1>8, <3>1, BaseFound DEF J!Omit_parameters
    <3>2. CASE \E old : request = WithParams(base, old)
      <4>1. PICK old : request = WithParams(base, old)
        BY <3>2
      <4>2. J!Find(request, "params") # 0
        <5>1. J!Has(request, "params")
          BY <1>1, <4>1, ParamsFound
        <5> QED
          BY <5>1 DEF J!Has
      <4>3. J!Front([request EXCEPT ![J!Find(request, "params")] = J!Last(request)]) = base
        BY <1>1, <4>1, ParamsOmitted
      <4> QED
        BY <1>8, <4>2, <4>3 DEF J!Omit_parameters
    <3> QED
      BY <1>2, <3>1, <3>2
  <2> QED
    BY <1>1, <2>1 DEF JrpcInv
<1>9. CASE UNCHANGED jrpcVars
  BY <1>1, <1>9 DEF jrpcVars, JrpcInv
<1> QED
  BY <1>5, <1>6, <1>7, <1>8, <1>9 DEF J!Next

-----------------------------------------------------------------------------
(* What is read of a request.                                              *)

\* What a request has, whatever has been set.
LEMMA RequestFound ==
  ASSUME JrpcInv
  PROVE  /\ J!Has(request, "jsonrpc") /\ J!Of(request, "jsonrpc") = J!Version
         /\ J!Has(request, "method") /\ J!Of(request, "method") = Method
         /\ J!Has(request, "id") => \E id \in IdTypes : J!Of(request, "id") = J!Value(id)
         /\ J!Has(request, "params") => J!Of(request, "params").type \in J!Structured
         /\ J!Has(request, "params") => Len(request) = IF J!Has(request, "id") THEN 4 ELSE 3
         /\ ~J!Has(request, "params") => Len(request) = IF J!Has(request, "id") THEN 3 ELSE 2
         /\ \/ J!Params(request) = J!Null /\ said = {}
            \/ \E items : J!Params(request) = J!Array(items) /\ PositionsSaid(items, said)
            \/ \E members : J!Params(request) = J!Object(members) /\ NamesSaid(members, said)
<1>1. PICK base : /\ IsBase(base)
                  /\ \/ request = base /\ said = {}
                     \/ \E items : request = WithParams(base, J!Array(items)) /\ PositionsSaid(items, said)
                     \/ \E members : request = WithParams(base, J!Object(members)) /\ NamesSaid(members, said)
  BY DEF JrpcInv
<1>2. /\ Len(base) \in {2, 3}
      /\ J!Has(base, "id") <=> Len(base) = 3
      /\ J!Has(base, "id") => \E id \in IdTypes : J!Of(base, "id") = J!Value(id)
  BY <1>1, BaseMembers, BaseFound
<1>3. CASE request = base /\ said = {}
  <2>1. /\ J!Has(base, "jsonrpc") /\ J!Of(base, "jsonrpc") = J!Version
        /\ J!Has(base, "method") /\ J!Of(base, "method") = Method /\ ~J!Has(base, "params")
    BY <1>1, BaseFound
  <2>2. J!Params(request) = J!Null
    BY <1>1, <1>3, RequestParams
  <2> QED
    BY <1>2, <1>3, <2>1, <2>2
<1>4. ASSUME NEW params, request = WithParams(base, params), params.type \in J!Structured,
             \/ \E items : params = J!Array(items) /\ PositionsSaid(items, said)
             \/ \E members : params = J!Object(members) /\ NamesSaid(members, said)
      PROVE  /\ J!Has(request, "jsonrpc") /\ J!Of(request, "jsonrpc") = J!Version
             /\ J!Has(request, "method") /\ J!Of(request, "method") = Method
             /\ J!Has(request, "id") => \E id \in IdTypes : J!Of(request, "id") = J!Value(id)
             /\ J!Has(request, "params") => J!Of(request, "params").type \in J!Structured
             /\ J!Has(request, "params") => Len(request) = IF J!Has(request, "id") THEN 4 ELSE 3
             /\ ~J!Has(request, "params") => Len(request) = IF J!Has(request, "id") THEN 3 ELSE 2
             /\ \/ J!Params(request) = J!Null /\ said = {}
                \/ \E items : J!Params(request) = J!Array(items) /\ PositionsSaid(items, said)
                \/ \E members : J!Params(request) = J!Object(members) /\ NamesSaid(members, said)
  <2>1. /\ Len(request) = Len(base) + 1
        /\ J!Has(request, "jsonrpc") /\ J!Of(request, "jsonrpc") = J!Version
        /\ J!Has(request, "method") /\ J!Of(request, "method") = Method
        /\ J!Has(request, "id") <=> J!Has(base, "id")
        /\ J!Has(base, "id") => J!Of(request, "id") = J!Of(base, "id")
        /\ J!Has(request, "params") /\ J!Of(request, "params") = params
    BY <1>1, <1>4, ParamsFound
  <2>2. J!Params(request) = params
    BY <1>1, <1>4, RequestParams
  <2>3. /\ J!Has(request, "params") => Len(request) = IF J!Has(request, "id") THEN 4 ELSE 3
        /\ ~J!Has(request, "params") => Len(request) = IF J!Has(request, "id") THEN 3 ELSE 2
    <3> DEFINE n == Len(base)
               m == Len(request)
    <3>1. /\ n \in {2, 3} /\ m = n + 1
          /\ J!Has(request, "id") => n = 3
          /\ ~J!Has(request, "id") => n # 3
          /\ J!Has(request, "params")
      BY <1>2, <2>1
    <3> HIDE DEF n, m
    <3>2. (n = 3 => m = 4) /\ (n # 3 => m = 3)
      BY <3>1
    <3>3. (J!Has(request, "id") => m = 4) /\ (~J!Has(request, "id") => m = 3)
      BY <3>1, <3>2
    <3> QED
      BY <3>1, <3>3, Zenon DEF m
  <2>4. J!Has(request, "id") => \E id \in IdTypes : J!Of(request, "id") = J!Value(id)
    BY <1>2, <2>1
  <2>5. J!Has(request, "params") => J!Of(request, "params").type \in J!Structured
    BY <1>4, <2>1
  <2>6. \/ J!Params(request) = J!Null /\ said = {}
        \/ \E items : J!Params(request) = J!Array(items) /\ PositionsSaid(items, said)
        \/ \E members : J!Params(request) = J!Object(members) /\ NamesSaid(members, said)
    BY <1>4, <2>2
  <2> QED
    BY <2>1, <2>3, <2>4, <2>5, <2>6
<1>5. \A items : J!Array(items).type \in J!Structured /\ J!Object(items).type \in J!Structured
  BY DEF J!Array, J!Object, J!Structured
<1> QED
  BY <1>1, <1>3, <1>4, <1>5

LEMMA SameCardinality == \A S : J!Cardinality(S) = Cardinality(S)
BY Zenon DEF J!Cardinality, Cardinality

\* How many of the members that may be left out there are.
LEMMA LeftOut ==
  ASSUME NEW document
  PROVE  LET count == J!Cardinality({n \in {"id", "params"} : J!Has(document, n)}) IN
         /\ J!Has(document, "params") => count = IF J!Has(document, "id") THEN 2 ELSE 1
         /\ ~J!Has(document, "params") => count = IF J!Has(document, "id") THEN 1 ELSE 0
<1> DEFINE there == {n \in {"id", "params"} : J!Has(document, n)}
<1>0. J!Cardinality(there) = Cardinality(there)
  BY SameCardinality
<1>1. IsFiniteSet({}) /\ Cardinality({}) = 0
  BY FS_EmptySet
<1>2. \A x \in {"id", "params"} : IsFiniteSet({x}) /\ Cardinality({x}) = 1
  BY FS_Singleton
<1>3. Cardinality({"id"} \union {"params"}) = 2
  BY <1>2, FS_AddElement
<1>4. CASE J!Has(document, "id") /\ J!Has(document, "params")
  <2>1. there = {"id"} \union {"params"}
    BY <1>4
  <2> QED
    BY <1>0, <1>3, <1>4, <2>1
<1>5. CASE J!Has(document, "id") /\ ~J!Has(document, "params")
  <2>1. there = {"id"}
    BY <1>5
  <2> QED
    BY <1>0, <1>2, <1>5, <2>1
<1>6. CASE ~J!Has(document, "id") /\ J!Has(document, "params")
  <2>1. there = {"params"}
    BY <1>6
  <2> QED
    BY <1>0, <1>2, <1>6, <2>1
<1>7. CASE ~J!Has(document, "id") /\ ~J!Has(document, "params")
  <2>1. there = {}
    BY <1>7
  <2> QED
    BY <1>0, <1>1, <1>7, <2>1
<1> QED
  BY <1>4, <1>5, <1>6, <1>7

LEMMA RequestParsed ==
  ASSUME JrpcInv
  PROVE  J!From_json(request) = J!Outcome("parsed", J!Id(request))
<1>1. \A type : J!Value(type).type = type
  BY DEF J!Value
<1>2. J!Is_id_accepted(request)
  BY <1>1, RequestFound DEF J!Is_id_accepted, IdTypes, J!Numbers, J!Strings
<1>3. J!Is_request(request)
  <2> DEFINE count == J!Cardinality({n \in {"id", "params"} : J!Has(request, n)})
  <2>1. Len(request) = 2 + count
    <3>1. /\ J!Has(request, "params") => count = IF J!Has(request, "id") THEN 2 ELSE 1
          /\ ~J!Has(request, "params") => count = IF J!Has(request, "id") THEN 1 ELSE 0
      BY LeftOut
    <3>2. /\ J!Has(request, "params") => Len(request) = IF J!Has(request, "id") THEN 4 ELSE 3
          /\ ~J!Has(request, "params") => Len(request) = IF J!Has(request, "id") THEN 3 ELSE 2
      BY RequestFound
    <3> HIDE DEF count
    <3> DEFINE m == Len(request)
    <3>3. \/ count = 2 /\ m = 4
          \/ count = 1 /\ m = 3
          \/ count = 0 /\ m = 2
      BY <3>1, <3>2, Zenon
    <3> HIDE DEF m
    <3>4. m = 2 + count
      BY <3>3
    <3> QED
      BY <3>4 DEF m
  <2>2. Method.type \in J!Strings \ {"rpc."}
    BY <1>1 DEF Method, J!Strings
  <2>3. /\ J!Has(request, "jsonrpc") /\ J!Of(request, "jsonrpc") = J!Version
        /\ J!Has(request, "method") /\ J!Of(request, "method") = Method
        /\ J!Has(request, "params") => J!Of(request, "params").type \in J!Structured
    BY RequestFound
  <2>4. J!Of(request, "method").type \in J!Strings \ {"rpc."}
    BY <2>2, <2>3
  <2> QED
    BY <2>1, <2>3, <2>4, Zenon DEF J!Is_request
<1>4. J!Is_invariant_ok(request)
  BY <1>1, RequestFound DEF J!Is_invariant_ok, J!Is_id, IdTypes, J!Strings
<1> QED
  BY <1>2, <1>3, <1>4 DEF J!From_json

\* What is read of a document of three members.
LEMMA ThreeFound ==
  ASSUME NEW a, NEW b, NEW c, a.name # b.name, a.name # c.name, b.name # c.name
  PROVE  LET document == <<a, b, c>> IN
         /\ Len(document) = 3
         /\ \A m \in {a, b, c} : J!Has(document, m.name) /\ J!Of(document, m.name) = m.value
         /\ \A name : name \notin {a.name, b.name, c.name} => ~J!Has(document, name)
<1> DEFINE document == <<a, b, c>>
<1>1. /\ Len(document) = 3 /\ DOMAIN document = 1..3
      /\ document[1] = a /\ document[2] = b /\ document[3] = c
  OBVIOUS
<1> HIDE DEF document
<1>2. Distinct(document)
  BY <1>1 DEF Distinct
<1>3. \A i \in 1..3 : J!Has(document, document[i].name) /\ J!Of(document, document[i].name) = document[i].value
  BY <1>1, <1>2, FoundAt
<1>4. ASSUME NEW name, name \notin {a.name, b.name, c.name}
      PROVE  ~J!Has(document, name)
  <2>1. \A j \in DOMAIN document : document[j].name # name
    BY <1>1, <1>4
  <2> QED
    BY <2>1, FindNone
<1>5. 1 \in 1..3 /\ 2 \in 1..3 /\ 3 \in 1..3
  OBVIOUS
<1>6. \A m \in {a, b, c} : J!Has(document, m.name) /\ J!Of(document, m.name) = m.value
  BY <1>1, <1>3, <1>5
<1> QED
  BY <1>1, <1>4, <1>6 DEF document

LEMMA TwoFound ==
  ASSUME NEW a, NEW b, a.name # b.name
  PROVE  LET document == <<a, b>> IN
         /\ Len(document) = 2
         /\ \A m \in {a, b} : J!Has(document, m.name) /\ J!Of(document, m.name) = m.value
         /\ \A name : name \notin {a.name, b.name} => ~J!Has(document, name)
<1> DEFINE document == <<a, b>>
<1>1. /\ Len(document) = 2 /\ DOMAIN document = 1..2
      /\ document[1] = a /\ document[2] = b
  OBVIOUS
<1> HIDE DEF document
<1>2. Distinct(document)
  BY <1>1 DEF Distinct
<1>3. \A i \in 1..2 : J!Has(document, document[i].name) /\ J!Of(document, document[i].name) = document[i].value
  BY <1>1, <1>2, FoundAt
<1>4. ASSUME NEW name, name \notin {a.name, b.name}
      PROVE  ~J!Has(document, name)
  <2>1. \A j \in DOMAIN document : document[j].name # name
    BY <1>1, <1>4
  <2> QED
    BY <2>1, FindNone
<1>5. 1 \in 1..2 /\ 2 \in 1..2
  OBVIOUS
<1>6. \A m \in {a, b} : J!Has(document, m.name) /\ J!Of(document, m.name) = m.value
  BY <1>1, <1>3, <1>5
<1> QED
  BY <1>1, <1>4, <1>6 DEF document

\* The answers to a request are read as what they are, with its id.
LEMMA AnswersRead ==
  ASSUME JrpcInv, NEW data \in J!Values
  PROVE  /\ J!Response(J!Make_result(request, data)) = "result"
         /\ J!Response(J!Make_error(request, data)) = "error"
         /\ J!Of(J!Make_result(request, data), "id") = J!Id(request)
<1>0. \A name, value : J!Member(name, value).name = name /\ J!Member(name, value).value = value
  BY DEF J!Member
<1>00. \A type : J!Value(type).type = type
  BY DEF J!Value
<1> DEFINE id == J!Id(request)
<1>1. id.type \in {"int", "string", "null"}
  BY <1>00, RequestFound DEF J!Id, IdTypes, J!Null
<1>2. id.type \in J!Numbers \union J!Strings \union {"null"} /\ J!Is_id(id)
  BY <1>1 DEF J!Numbers, J!Strings, J!Is_id
<1> HIDE DEF id
<1>3. J!Response(J!Make_result(request, data)) = "result" /\ J!Of(J!Make_result(request, data), "id") = id
  <2> DEFINE a == J!Member("jsonrpc", J!Version)
             b == J!Member("result", data)
             c == J!Member("id", id)
             document == <<a, b, c>>
  <2>1. J!Make_result(request, data) = document
    BY DEF J!Make_result, J!Result, id
  <2>2. /\ a.name = "jsonrpc" /\ a.value = J!Version /\ b.name = "result" /\ c.name = "id" /\ c.value = id
    BY <1>0
  <2> HIDE DEF a, b, c
  <2>3. /\ Len(document) = 3
        /\ J!Has(document, "jsonrpc") /\ J!Of(document, "jsonrpc") = J!Version
        /\ J!Has(document, "id") /\ J!Of(document, "id") = id
        /\ J!Has(document, "result") /\ ~J!Has(document, "error")
    BY <2>2, ThreeFound
  <2> HIDE DEF document
  <2> QED
    BY <1>2, <2>1, <2>3 DEF J!Response
<1>4. J!Response(J!Make_error(request, data)) = "error"
  <2> DEFINE object == J!Error_object(data)
             a == J!Member("jsonrpc", J!Version)
             b == J!Member("id", id)
             c == J!Member("error", object)
             document == <<a, b, c>>
  <2>1. J!Make_error(request, data) = document
    BY DEF J!Make_error, J!Error, id
  <2>2. /\ a.name = "jsonrpc" /\ a.value = J!Version /\ b.name = "id" /\ b.value = id
        /\ c.name = "error" /\ c.value = object
    BY <1>0
  <2> HIDE DEF a, b, c, object
  <2>3. /\ Len(document) = 3
        /\ J!Has(document, "jsonrpc") /\ J!Of(document, "jsonrpc") = J!Version
        /\ J!Has(document, "id") /\ J!Of(document, "id") = id
        /\ J!Has(document, "error") /\ J!Of(document, "error") = object /\ ~J!Has(document, "result")
    BY <2>2, ThreeFound
  <2> HIDE DEF document
  <2>4. J!Is_error_object(object)
    <3> DEFINE d == J!Member("code", J!Value("int"))
               e == J!Member("message", J!Value("string"))
               f == J!Member("data", data)
    <3>1. /\ d.name = "code" /\ d.value.type = "int" /\ e.name = "message" /\ e.value.type \in J!Strings
          /\ f.name = "data"
      BY <1>0, <1>00 DEF J!Strings
    <3>2. object = IF data = J!Null THEN J!Object(<<d, e>> \o <<>>) ELSE J!Object(<<d, e>> \o <<f>>)
      BY DEF J!Error_object, object
    <3> HIDE DEF d, e, f
    <3>3. <<d, e>> \o <<>> = <<d, e>> /\ <<d, e>> \o <<f>> = <<d, e, f>>
      <4> DEFINE S == {d, e, f}
      <4>1. <<d, e>> \in Seq(S) /\ <<f>> \in Seq(S) /\ <<d, e, f>> \in Seq(S)
        OBVIOUS
      <4>2. <<d, e>> \o <<>> = <<d, e>>
        BY <4>1, ConcatEmptySeq
      <4> DEFINE w == <<d, e>> \o <<f>>
      <4>3. w \in Seq(S) /\ Len(w) = 3 /\ w[1] = d /\ w[2] = e /\ w[3] = f
        BY <4>1
      <4>4. \A i \in 1..3 : w[i] = <<d, e, f>>[i]
        BY <4>3
      <4> HIDE DEF w, S
      <4>5. w = <<d, e, f>>
        BY <4>1, <4>3, <4>4, SeqEqual
      <4> QED
        BY <4>2, <4>5 DEF w
    <3>4. object.type = "object" /\ object.items = IF data = J!Null THEN <<d, e>> ELSE <<d, e, f>>
      BY <3>2, <3>3 DEF J!Object
    <3> DEFINE members == object.items
    <3>5. /\ J!Has(members, "code") /\ J!Of(members, "code").type = "int"
          /\ J!Has(members, "message") /\ J!Of(members, "message").type \in J!Strings
          /\ Len(members) = IF J!Has(members, "data") THEN 3 ELSE 2
      <4>1. CASE data = J!Null
        <5>1. members = <<d, e>>
          BY <3>4, <4>1
        <5> QED
          BY <3>1, <5>1, TwoFound
      <4>2. CASE data # J!Null
        <5>1. members = <<d, e, f>>
          BY <3>4, <4>2
        <5> QED
          BY <3>1, <5>1, ThreeFound
      <4> QED
        BY <4>1, <4>2
    <3> HIDE DEF members
    <3> QED
      BY <3>4, <3>5 DEF J!Is_error_object, members
  <2> QED
    BY <1>2, <2>1, <2>3, <2>4 DEF J!Response
<1> QED
  BY <1>3, <1>4 DEF id

\* The places where something has been told are as many as what has been told.
LEMMA CountTold ==
  ASSUME NEW told, NEW I, IsFiniteSet(I), NEW f \in [I -> told],
         \A s \in told : \E i \in I : f[i] = s, \A i, j \in I : f[i].at = f[j].at => i = j
  PROVE  /\ J!Cardinality(told) = Cardinality(I)
         /\ J!Cardinality({s.at : s \in told}) = Cardinality(I)
<1> DEFINE places == {s.at : s \in told}
           g == [i \in I |-> f[i].at]
<1>1. ExistsBijection(I, told)
  <2>1. f \in Bijection(I, told)
    BY DEF Bijection, Injection, Surjection, IsInjective
  <2> QED
    BY <2>1 DEF ExistsBijection
<1>2. ExistsBijection(I, places)
  <2>1. g \in [I -> places]
    OBVIOUS
  <2>2. \A p \in places : \E i \in I : g[i] = p
    OBVIOUS
  <2>3. \A i, j \in I : g[i] = g[j] => i = j
    OBVIOUS
  <2> HIDE DEF g, places
  <2>4. g \in Bijection(I, places)
    BY <2>1, <2>2, <2>3 DEF Bijection, Injection, Surjection, IsInjective
  <2> QED
    BY <2>4 DEF ExistsBijection
<1> HIDE DEF places
<1>3. Cardinality(told) = Cardinality(I) /\ Cardinality(places) = Cardinality(I)
  BY <1>1, <1>2, FS_Bijection
<1> QED
  BY <1>3, SameCardinality DEF places

LEMMA PositionsCounted ==
  ASSUME NEW items, NEW told, PositionsSaid(items, told)
  PROVE  J!Cardinality({s.at : s \in told}) = J!Cardinality(told)
<1> DEFINE I == {i \in 1..Len(items) : Told(i, items[i]) \in told}
           f == [i \in I |-> Told(i, items[i])]
<1>1. Len(items) \in Nat /\ \A s \in told : s.at \in 1..Len(items) /\ s = Told(s.at, items[s.at])
  BY DEF PositionsSaid
<1>2. IsFiniteSet(I)
  <2>1. IsFiniteSet(1..Len(items)) /\ I \in SUBSET (1..Len(items))
    BY <1>1, FS_Interval
  <2> HIDE DEF I
  <2> QED
    BY <2>1, FS_Subset
<1>3. f \in [I -> told]
  OBVIOUS
<1>4. \A s \in told : \E i \in I : f[i] = s
  BY <1>1
<1>5. \A i, j \in I : f[i].at = f[j].at => i = j
  BY DEF Told
<1> HIDE DEF I, f
<1> QED
  BY <1>2, <1>3, <1>4, <1>5, CountTold

LEMMA NamesCounted ==
  ASSUME NEW members, NEW told, NamesSaid(members, told)
  PROVE  /\ J!Cardinality({s.at : s \in told}) = J!Cardinality(told)
         /\ J!Cardinality(told) = Len(members)
<1> DEFINE n == Len(members)
           I == 1..n
           f == [i \in I |-> Told(members[i].name, members[i].value)]
<1>1. /\ n \in Nat /\ DOMAIN members = 1..n
      /\ \A s \in told : \E i \in I : s = Told(members[i].name, members[i].value)
      /\ \A i \in I : Told(members[i].name, members[i].value) \in told
      /\ \A i, j \in I : members[i].name = members[j].name => i = j
  <2>1. members \in Seq([name : ParamName, value : J!Values]) /\ Distinct(members)
    BY DEF NamesSaid
  <2>2. n \in Nat /\ DOMAIN members = 1..n
    BY <2>1, LenProperties
  <2> QED
    BY <2>1, <2>2 DEF NamesSaid, Distinct
<1>2. IsFiniteSet(I) /\ Cardinality(I) = n
  <2>1. IsFiniteSet(1..n) /\ Cardinality(1..n) = IF 1 > n THEN 0 ELSE n - 1 + 1
    BY <1>1, FS_Interval
  <2> QED
    BY <1>1, <2>1
<1>3. f \in [I -> told]
  BY <1>1
<1>4. \A s \in told : \E i \in I : f[i] = s
  BY <1>1
<1>5. \A i, j \in I : f[i].at = f[j].at => i = j
  BY <1>1 DEF Told
<1> HIDE DEF I, f, n
<1>6. J!Cardinality(told) = Cardinality(I) /\ J!Cardinality({s.at : s \in told}) = Cardinality(I)
  BY <1>2, <1>3, <1>4, <1>5, CountTold
<1> QED
  BY <1>2, <1>6 DEF n

\* What a reference is to, at a position and by a name.
LEMMA PositionalRead ==
  ASSUME NEW items, J!Params(request) = J!Array(items), PositionsSaid(items, said)
  PROVE  /\ J!Params(request).type = "array" /\ J!Params(request).items = items
         /\ \A i \in 1..Len(items) : J!Positional(request, i) = {items[i]}
         /\ \A i \in 1..Len(items) :
              J!Positional(request, i) =
                IF \E s \in said : s.at = i THEN {s.value : s \in {t \in said : t.at = i}} ELSE {J!Null}
<1>1. J!Params(request).type = "array" /\ J!Params(request).items = items
  BY DEF J!Array
<1>2. \A i \in 1..Len(items) : J!Positional(request, i) = {items[i]}
  BY <1>1 DEF J!Positional
<1>3. ASSUME NEW i \in 1..Len(items)
      PROVE  {items[i]} = IF \E s \in said : s.at = i THEN {s.value : s \in {t \in said : t.at = i}} ELSE {J!Null}
  <2>1. \A v : Told(i, v).at = i /\ Told(i, v).value = v
    BY DEF Told
  <2>2. \A s \in said : s.at = i => s.value = items[i]
    BY <2>1 DEF PositionsSaid
  <2>3. CASE \E s \in said : s.at = i
    BY <2>2, <2>3
  <2>4. CASE ~\E s \in said : s.at = i
    <3>1. items[i] = J!Null
      BY <2>1, <2>4 DEF PositionsSaid
    <3> QED
      BY <2>4, <3>1
  <2> QED
    BY <2>3, <2>4
<1> QED
  BY <1>1, <1>2, <1>3

LEMMA NamedRead ==
  ASSUME NEW members, J!Params(request) = J!Object(members), NamesSaid(members, said), NEW name
  PROVE  /\ J!Params(request).type = "object" /\ J!Params(request).items = members
         /\ J!Named(request, name) = {s.value : s \in {t \in said : t.at = name}}
         /\ \A s \in said : s.at = name => J!Named(request, name) = {s.value}
         /\ (\A s \in said : s.at # name) => J!Named(request, name) = {}
<1> DEFINE n == Len(members)
<1>1. J!Params(request).type = "object" /\ J!Params(request).items = members
  BY DEF J!Object
<1>2. /\ n \in Nat /\ DOMAIN members = 1..n
      /\ \A s \in said : \E i \in 1..n : s = Told(members[i].name, members[i].value)
      /\ \A i \in 1..n : Told(members[i].name, members[i].value) \in said
      /\ \A i, j \in 1..n : members[i].name = members[j].name => i = j
  <2>1. members \in Seq([name : ParamName, value : J!Values]) /\ Distinct(members)
    BY DEF NamesSaid
  <2>2. n \in Nat /\ DOMAIN members = 1..n
    BY <2>1, LenProperties
  <2> QED
    BY <2>1, <2>2 DEF NamesSaid, Distinct
<1>3. J!Named(request, name) = IF J!Has(members, name) THEN {J!Of(members, name)} ELSE {}
  BY <1>1 DEF J!Named
<1>4. \A i, v : Told(i, v).at = i /\ Told(i, v).value = v
  BY DEF Told
<1> HIDE DEF n
<1>5. CASE \A j \in 1..n : members[j].name # name
  <2>1. ~J!Has(members, name)
    BY <1>2, <1>5, FindNone
  <2>2. \A s \in said : s.at # name
    BY <1>2, <1>4, <1>5
  <2>3. J!Named(request, name) = {}
    BY <1>3, <2>1
  <2> QED
    BY <1>1, <2>2, <2>3
<1>6. CASE \E j \in 1..n : members[j].name = name
  <2>1. PICK i \in 1..n : members[i].name = name
    BY <1>6
  <2>2. J!Has(members, name) /\ J!Of(members, name) = members[i].value
    <3>1. Distinct(members)
      BY DEF NamesSaid
    <3> QED
      BY <1>2, <2>1, <3>1, FoundAt
  <2>3. J!Named(request, name) = {members[i].value}
    BY <1>3, <2>2
  <2>4. \A s \in said : s.at = name => s.value = members[i].value
    BY <1>2, <1>4, <2>1
  <2>5. Told(name, members[i].value) \in said
    BY <1>2, <2>1
  <2>6. {s.value : s \in {t \in said : t.at = name}} = {members[i].value}
    BY <1>4, <2>4, <2>5
  <2>7. \E s \in said : s.at = name
    BY <1>4, <2>5
  <2> QED
    BY <1>1, <2>3, <2>4, <2>6, <2>7
<1> QED
  BY <1>5, <1>6

Ref(at) == IF J!Params(request).type = "array" THEN J!Positional(request, at) ELSE J!Named(request, at)

\* What the server gets of what has been said.
LEMMA RefRead ==
  ASSUME JrpcInv, NEW s \in said
  PROVE  Ref(s.at) = {s.value} /\ s.value \in J!Values
<1>1. ASSUME NEW items, J!Params(request) = J!Array(items), PositionsSaid(items, said)
      PROVE  Ref(s.at) = {s.value} /\ s.value \in J!Values
  <2>1. s.at \in 1..Len(items) /\ s.value = items[s.at] /\ items \in Seq(J!Values)
    <3>1. s.at \in 1..Len(items) /\ s = Told(s.at, items[s.at]) /\ items \in Seq(J!Values)
      BY <1>1 DEF PositionsSaid
    <3> QED
      BY <3>1 DEF Told
  <2>2. J!Params(request).type = "array" /\ J!Positional(request, s.at) = {items[s.at]}
    BY <1>1, <2>1, PositionalRead
  <2>3. items[s.at] \in J!Values
    BY <2>1, ElementOfSeq
  <2> QED
    BY <2>1, <2>2, <2>3 DEF Ref
<1>2. ASSUME NEW members, J!Params(request) = J!Object(members), NamesSaid(members, said)
      PROVE  Ref(s.at) = {s.value} /\ s.value \in J!Values
  <2>1. J!Params(request).type = "object" /\ J!Named(request, s.at) = {s.value}
    BY <1>2, NamedRead
  <2>2. s.value \in J!Values
    <3>1. members \in Seq([name : ParamName, value : J!Values])
      BY <1>2 DEF NamesSaid
    <3>2. PICK i \in 1..Len(members) : s = Told(members[i].name, members[i].value)
      BY <1>2 DEF NamesSaid
    <3>3. members[i] \in [name : ParamName, value : J!Values]
      BY <3>1, <3>2, ElementOfSeq
    <3> QED
      BY <3>2, <3>3 DEF Told
  <2> QED
    BY <2>1, <2>2 DEF Ref
<1> QED
  BY <1>1, <1>2, RequestFound

\* The checks of a reference to a value.
LEMMA ValueRead ==
  ASSUME NEW value \in J!Values
  PROVE  /\ J!Not_null({value}, "int").what = "done" <=> value # J!Null
         /\ J!Optional({value}, "int").what = "done"
         /\ J!Optional({value}, "string").what = "done" => value = J!Null
         /\ J!Parameter_mandatory({value}) = "done"
         /\ J!Parameter_not_null({value}) = "done" <=> value # J!Null
         /\ J!Optional_among({value}, "int", {}).what = "done" <=> value = J!Null
         /\ J!Optional_among({value}, "int", {value}) = J!Optional({value}, "int")
<1>1. J!Null.type = "null" /\ J!Value("int").type = "int" /\ J!Null # J!Value("int")
  BY DEF J!Null, J!Value
<1>2. CASE value = J!Null
  <2>1. \A type : J!Optional({value}, type) = [what |-> "done", value |-> {}]
    BY <1>2 DEF J!Optional
  <2>2. J!Not_null({value}, "int").what = "invalid_params"
    BY <2>1 DEF J!Not_null
  <2>3. \A valid : J!Optional_among({value}, "int", valid) = [what |-> "done", value |-> {}]
    BY <2>1 DEF J!Optional_among
  <2>4. J!Parameter_mandatory({value}) = "done" /\ J!Parameter_not_null({value}) = "invalid_params"
    BY <1>2 DEF J!Parameter_mandatory, J!Parameter_not_null
  <2> QED
    BY <1>2, <2>1, <2>2, <2>3, <2>4
<1>3. CASE value = J!Value("int")
  <2>1. J!Optional({value}, "int") = [what |-> "done", value |-> {value}]
    BY <1>1, <1>3 DEF J!Optional
  <2>2. J!Optional({value}, "string") = [what |-> "invalid_params", value |-> {value}]
    BY <1>1, <1>3 DEF J!Optional
  <2>3. J!Not_null({value}, "int").what = "done"
    BY <2>1 DEF J!Not_null
  <2>4. J!Optional_among({value}, "int", {}).what = "invalid_params"
    BY <2>1 DEF J!Optional_among
  <2>5. J!Optional_among({value}, "int", {value}) = J!Optional({value}, "int")
    BY <2>1 DEF J!Optional_among
  <2>6. J!Parameter_mandatory({value}) = "done" /\ J!Parameter_not_null({value}) = "done"
    BY <1>1, <1>3 DEF J!Parameter_mandatory, J!Parameter_not_null
  <2> QED
    BY <1>1, <1>3, <2>1, <2>2, <2>3, <2>4, <2>5, <2>6
<1> QED
  BY <1>2, <1>3 DEF J!Values

LEMMA JrpcUnderstandable ==
  ASSUME JrpcInv
  PROVE  J!Understood
<1> DEFINE params == J!Params(request)
<1>0. J!Null.type = "null" /\ \A items : J!Array(items).type = "array" /\ J!Object(items).type = "object"
  BY DEF J!Null, J!Value, J!Array, J!Object
<1>1. J!From_json(request) = J!Outcome("parsed", J!Id(request))
  BY RequestParsed
<1>2. J!Cardinality({s.at : s \in said}) = J!Cardinality(said)
  <2>1. CASE said = {}
    <3>1. {s.at : s \in said} = {}
      BY <2>1
    <3> QED
      BY <2>1, <3>1
  <2> QED
    BY <2>1, RequestFound, PositionsCounted, NamesCounted
<1>3. ASSUME params.type = "array", NEW i \in DOMAIN params.items
      PROVE  J!Positional(request, i) =
               IF \E s \in said : s.at = i THEN {s.value : s \in {t \in said : t.at = i}} ELSE {J!Null}
  <2>1. PICK items : params = J!Array(items) /\ PositionsSaid(items, said)
    BY <1>0, <1>3, RequestFound
  <2>2. params.items = items /\ items \in Seq(J!Values)
    BY <2>1 DEF J!Array, PositionsSaid
  <2>3. i \in 1..Len(items)
    BY <1>3, <2>2
  <2> QED
    BY <2>1, <2>3, PositionalRead
<1>4. ASSUME params.type = "object", NEW name \in ParamName
      PROVE  J!Named(request, name) = {s.value : s \in {t \in said : t.at = name}}
  <2>1. PICK members : params = J!Object(members) /\ NamesSaid(members, said)
    BY <1>0, <1>4, RequestFound
  <2> QED
    BY <2>1, NamedRead
<1>5. ASSUME NEW s \in said
      PROVE  /\ J!Not_null(Ref(s.at), "int").what = "done" <=> s.value # J!Null
             /\ J!Optional(Ref(s.at), "int").what = "done" /\ J!Optional(Ref(s.at), "string").what = "done"
                  => s.value = J!Null
  <2>1. Ref(s.at) = {s.value} /\ s.value \in J!Values
    BY RefRead
  <2> QED
    BY <2>1, ValueRead
<1>6. ASSUME NEW data \in J!Values
      PROVE  /\ J!Response(J!Make_result(request, data)) = "result"
             /\ J!Response(J!Make_error(request, data)) = "error"
             /\ J!Of(J!Make_result(request, data), "id") = J!Id(request)
  BY AnswersRead
<1> QED
  BY <1>1, <1>2, <1>3, <1>4, <1>5, <1>6, Zenon DEF J!Understood, Ref

\* Where nothing is said there is nothing, unless parameters are told by their positions.
LEMMA NothingThere ==
  ASSUME JrpcInv, J!Params(request).type # "array", NEW name, \A s \in said : s.at # name
  PROVE  J!Named(request, name) = {}
<1>1. CASE J!Params(request) = J!Null
  <2>1. J!Params(request).type # "object"
    BY <1>1 DEF J!Null, J!Value
  <2> QED
    BY <2>1 DEF J!Named
<1>2. ASSUME NEW items, J!Params(request) = J!Array(items)
      PROVE  FALSE
  BY <1>2 DEF J!Array
<1>3. ASSUME NEW members, J!Params(request) = J!Object(members), NamesSaid(members, said)
      PROVE  J!Named(request, name) = {}
  BY <1>3, NamedRead
<1> QED
  BY <1>1, <1>2, <1>3, RequestFound

LEMMA TwoMandatory ==
  ASSUME NEW a, NEW b
  PROVE  /\ J!Parameters_mandatory(request, <<a, b>>) = "done" <=>
              J!Named(request, a) # {} /\ J!Named(request, b) # {}
         /\ J!Parameters_not_null(request, <<a, b>>) = "done" <=>
              J!Named(request, a) # {} /\ J!Named(request, b) # {}
<1> DEFINE refs == J!Parameters(request, <<a, b>>)
<1>1. DOMAIN refs = {1, 2} /\ refs[1] = J!Named(request, a) /\ refs[2] = J!Named(request, b)
  BY DEF J!Parameters
<1> HIDE DEF refs
<1>2. J!Is_all_present(refs) <=> J!Named(request, a) # {} /\ J!Named(request, b) # {}
  BY <1>1 DEF J!Is_all_present
<1> QED
  BY <1>2 DEF refs, J!Parameters_mandatory, J!Parameters_not_null

LEMMA JrpcFetched ==
  ASSUME JrpcInv
  PROVE  J!Fetched
<1> DEFINE IsArray == J!Params(request).type = "array"
           Is_said(at) == \E s \in said : s.at = at
<1>0. J!Null.type = "null" /\ \A items : J!Array(items).type = "array" /\ J!Object(items).type = "object"
  BY DEF J!Null, J!Value, J!Array, J!Object
<1>1. ASSUME NEW s \in said
      PROVE  /\ J!Parameter_mandatory(Ref(s.at)) = "done"
             /\ J!Parameter_not_null(Ref(s.at)) = "done" <=> s.value # J!Null
             /\ J!Optional_among(Ref(s.at), "int", {}).what = "done" <=> s.value = J!Null
             /\ J!Optional_among(Ref(s.at), "int", {s.value}) = J!Optional(Ref(s.at), "int")
  <2>1. Ref(s.at) = {s.value} /\ s.value \in J!Values
    BY RefRead
  <2> QED
    BY <2>1, ValueRead
<1>2. ASSUME ~IsArray, NEW a \in ParamName, NEW b \in ParamName
      PROVE  /\ J!Parameters_mandatory(request, <<a, b>>) = "done" <=> Is_said(a) /\ Is_said(b)
             /\ Is_said(a) /\ Is_said(b) => J!Parameters_not_null(request, <<a, b>>) = "done"
             /\ ~Is_said(a) => J!Parameter_mandatory(J!Named(request, a)) = "invalid_params"
  <2>1. ASSUME NEW at
        PROVE  Is_said(at) <=> J!Named(request, at) # {}
    <3>1. ASSUME NEW s \in said, s.at = at
          PROVE  J!Named(request, at) # {}
      BY <1>2, <3>1, RefRead DEF Ref
    <3>2. ~Is_said(at) => J!Named(request, at) = {}
      BY <1>2, NothingThere
    <3> QED
      BY <3>1, <3>2
  <2>2. J!Named(request, a) = {} => J!Parameter_mandatory(J!Named(request, a)) = "invalid_params"
    BY DEF J!Parameter_mandatory
  <2> QED
    BY <2>1, <2>2, TwoMandatory
<1>3. ASSUME IsArray, NEW name \in ParamName
      PROVE  J!Parameters_mandatory(request, <<name>>) = "invalid_params"
  <2> DEFINE refs == J!Parameters(request, <<name>>)
  <2>1. J!Named(request, name) = {}
    BY <1>3 DEF J!Named
  <2>2. 1 \in DOMAIN refs /\ refs[1] = {}
    BY <2>1 DEF J!Parameters
  <2> HIDE DEF refs
  <2>3. ~J!Is_all_present(refs)
    BY <2>2 DEF J!Is_all_present
  <2> QED
    BY <2>3 DEF refs, J!Parameters_mandatory
<1>4. ~IsArray => J!Parameter_count(request) = J!Cardinality(said)
  <2>1. CASE J!Params(request) = J!Null /\ said = {}
    <3>1. J!Params(request).items = <<>>
      BY <2>1 DEF J!Null, J!Value
    <3>2. J!Cardinality({}) = 0
      BY SameCardinality, FS_EmptySet
    <3> QED
      BY <2>1, <3>1, <3>2 DEF J!Parameter_count
  <2>2. ASSUME NEW members, J!Params(request) = J!Object(members), NamesSaid(members, said)
        PROVE  J!Parameter_count(request) = J!Cardinality(said)
    <3>1. J!Params(request).items = members
      BY <2>2 DEF J!Object
    <3> QED
      BY <2>2, <3>1, NamesCounted DEF J!Parameter_count
  <2>3. ASSUME NEW items, J!Params(request) = J!Array(items)
        PROVE  IsArray
    BY <1>0, <2>3
  <2> QED
    BY <2>1, <2>2, <2>3, RequestFound
<1>5. IsArray => J!Parameter_count(request) = J!Max({s.at : s \in said} \union {0})
  <2> SUFFICES ASSUME IsArray PROVE J!Parameter_count(request) = J!Max({s.at : s \in said} \union {0})
    OBVIOUS
  <2>1. PICK items : J!Params(request) = J!Array(items) /\ PositionsSaid(items, said)
    BY <1>0, RequestFound
  <2> DEFINE n == Len(items)
             S == {s.at : s \in said} \union {0}
  <2>2. J!Parameter_count(request) = n
    BY <2>1 DEF J!Parameter_count, J!Array
  <2>3. n \in Nat /\ (n > 0 => Told(n, items[n]) \in said) /\ \A s \in said : s.at \in 1..n
    BY <2>1 DEF PositionsSaid
  <2>4. n \in S /\ \A y \in S : y \in Nat /\ y <= n
    <3>1. Told(n, items[n]).at = n
      BY DEF Told
    <3> QED
      BY <2>3, <3>1
  <2> HIDE DEF n, S
  <2>5. J!Max(S) = n
    <3>1. \A y \in S : n >= y
      BY <2>3, <2>4
    <3>2. \A x \in S : (\A y \in S : x >= y) => x = n
      BY <2>3, <2>4
    <3> QED
      BY <2>4, <3>1, <3>2, Zenon DEF J!Max
  <2> QED
    BY <2>2, <2>5 DEF S
<1> QED
  BY <1>1, <1>2, <1>3, <1>4, <1>5, Zenon DEF J!Fetched, Ref

-----------------------------------------------------------------------------
(* The texts of requests and responses.                                    *)

NamesIn(document) == {m.name : m \in J!ToSet(document)}

\* The names of the members of a document: as many as the members are if none is there
\* twice.
LEMMA NamesOf ==
  ASSUME NEW S, NEW document \in Seq(S)
  PROVE  /\ DOMAIN document = 1..Len(document) /\ Len(document) \in Nat
         /\ \A name : name \in NamesIn(document) <=> J!Has(document, name)
         /\ \A i \in 1..Len(document) : document[i].name \in NamesIn(document)
         /\ IsFiniteSet(NamesIn(document)) /\ Cardinality(NamesIn(document)) \in Nat
         /\ Cardinality(NamesIn(document)) <= Len(document)
         /\ Len(document) = Cardinality(NamesIn(document)) <=> Distinct(document)
<1> DEFINE n == Len(document)
           names == NamesIn(document)
           f == [i \in 1..n |-> document[i].name]
<1>1. n \in Nat /\ DOMAIN document = 1..n
  OBVIOUS
<1>2. names = {document[i].name : i \in 1..n}
  BY <1>1 DEF J!ToSet, NamesIn
<1> HIDE DEF n, names
<1>3. ASSUME NEW name
      PROVE  name \in names <=> J!Has(document, name)
  BY <1>1, <1>2, FindPlace
<1>4. f \in Surjection(1..n, names)
  <2>1. f \in [1..n -> names]
    BY <1>2
  <2>2. \A t \in names : \E i \in 1..n : f[i] = t
    BY <1>2
  <2> HIDE DEF f
  <2> QED
    BY <2>1, <2>2, Fun_IsSurj
<1>5. IsFiniteSet(1..n) /\ Cardinality(1..n) = n
  BY <1>1, FS_Interval
<1>6. /\ IsFiniteSet(names) /\ Cardinality(names) <= n
      /\ Cardinality(names) = n <=> f \in Injection(1..n, names)
  <2> HIDE DEF f
  <2> QED
    BY <1>4, <1>5, FS_Surjection
<1>7. f \in Injection(1..n, names) <=> \A i, j \in 1..n : f[i] = f[j] => i = j
  <2>1. f \in [1..n -> names]
    BY <1>2
  <2> HIDE DEF f
  <2>2. ASSUME f \in Injection(1..n, names) PROVE \A i, j \in 1..n : f[i] = f[j] => i = j
    BY <2>2, Fun_InjectionProperties
  <2>3. ASSUME \A i, j \in 1..n : f[i] = f[j] => i = j PROVE f \in Injection(1..n, names)
    BY <2>1, <2>3, Fun_IsInj
  <2> QED
    BY <2>2, <2>3
<1>8. (\A i, j \in 1..n : f[i] = f[j] => i = j) <=> Distinct(document)
  BY <1>1 DEF Distinct
<1> HIDE DEF f
<1>9. Cardinality(names) \in Nat
  BY <1>6, FS_CardinalityType
<1>10. n = Cardinality(names) <=> Distinct(document)
  BY <1>6, <1>7, <1>8
<1>11. \A i \in 1..n : document[i].name \in names
  BY <1>2
<1> QED
  BY <1>1, <1>3, <1>6, <1>9, <1>10, <1>11 DEF n, names

\* The members that there are, of the two that must be there and the two that may be.
LEMMA ThereCounted ==
  ASSUME NEW document
  PROVE  LET there == {name \in {"id", "params"} : J!Has(document, name)} IN
         /\ IsFiniteSet({"jsonrpc", "method"} \union there)
         /\ Cardinality({"jsonrpc", "method"} \union there) = 2 + J!Cardinality(there)
         /\ J!Cardinality(there) \in Nat
<1> DEFINE there == {name \in {"id", "params"} : J!Has(document, name)}
           base == {"jsonrpc", "method"}
<1>1. /\ IsFiniteSet({"jsonrpc"}) /\ Cardinality({"jsonrpc"}) = 1
      /\ IsFiniteSet({"id"}) /\ Cardinality({"id"}) = 1
  BY FS_Singleton
<1>2. /\ IsFiniteSet({"jsonrpc"} \union {"method"}) /\ Cardinality({"jsonrpc"} \union {"method"}) = 2
      /\ IsFiniteSet({"id"} \union {"params"})
  BY <1>1, FS_AddElement
<1>3. base = {"jsonrpc"} \union {"method"} /\ there \subseteq {"id"} \union {"params"}
  OBVIOUS
<1>4. base \intersect there = {}
  OBVIOUS
<1> HIDE DEF base, there
<1>5. IsFiniteSet(base) /\ Cardinality(base) = 2
  BY <1>2, <1>3
<1>6. IsFiniteSet(there)
  BY <1>2, <1>3, FS_Subset
<1>7. IsFiniteSet({}) /\ Cardinality({}) = 0
  BY FS_EmptySet
<1>8. /\ IsFiniteSet(base \union there)
      /\ Cardinality(base \union there) = Cardinality(base) + Cardinality(there) - Cardinality(base \intersect there)
  BY <1>5, <1>6, FS_Union
<1>9. Cardinality(there) \in Nat
  BY <1>6, FS_CardinalityType
<1>10. Cardinality(base \union there) = 2 + Cardinality(there)
  <2>1. Cardinality(base \intersect there) = 0
    BY <1>4, <1>7
  <2> DEFINE b == Cardinality(base)
             t == Cardinality(there)
             m == Cardinality(base \intersect there)
             u == Cardinality(base \union there)
  <2>2. b = 2 /\ t \in Nat /\ m = 0 /\ u = b + t - m
    BY <1>5, <1>8, <1>9, <2>1
  <2> HIDE DEF b, t, m, u
  <2>3. u = 2 + t
    BY <2>2
  <2> QED
    BY <2>3 DEF u, t
<1> QED
  BY <1>8, <1>9, <1>10, SameCardinality DEF base, there

\* A member as it must be, by its name.
AsNamed(m) ==
  CASE m.name = "jsonrpc" -> m.value = J!Version
    [] m.name = "method" -> m.value.type \in J!Strings \ {"rpc."}
    [] m.name = "params" -> m.value.type \in J!Structured
    [] OTHER -> m.value.type \in J!Numbers \union J!Strings \union {"null"}

LEMMA ByName ==
  ASSUME NEW m
  PROVE  /\ m.name = "jsonrpc" => (AsNamed(m) <=> m.value = J!Version)
         /\ m.name = "method" => (AsNamed(m) <=> m.value.type \in J!Strings \ {"rpc."})
         /\ m.name = "params" => (AsNamed(m) <=> m.value.type \in J!Structured)
         /\ m.name = "id" => (AsNamed(m) <=> m.value.type \in J!Numbers \union J!Strings \union {"null"})
<1>1. m.name = "jsonrpc" => (AsNamed(m) <=> m.value = J!Version)
  BY DEF AsNamed
<1>2. m.name = "method" => (AsNamed(m) <=> m.value.type \in J!Strings \ {"rpc."})
  BY DEF AsNamed
<1>3. m.name = "params" => (AsNamed(m) <=> m.value.type \in J!Structured)
  BY DEF AsNamed
<1>4. m.name = "id" => (AsNamed(m) <=> m.value.type \in J!Numbers \union J!Strings \union {"null"})
  BY DEF AsNamed
<1> QED
  BY <1>1, <1>2, <1>3, <1>4

\* A document of JSON-RPC 2.0.
Conforming(document) ==
  /\ Len(document) = J!Cardinality(NamesIn(document))
  /\ {"jsonrpc", "method"} \subseteq NamesIn(document)
  /\ NamesIn(document) \subseteq {"jsonrpc", "method", "id", "params"}
  /\ \A m \in J!ToSet(document) : AsNamed(m)

\* Members that are found are as they must be exactly if those of a document that has no
\* name twice are.
LEMMA AllFit ==
  ASSUME NEW S, NEW document \in Seq(S), Distinct(document),
         J!Has(document, "jsonrpc"), J!Has(document, "method"),
         NamesIn(document) \subseteq {"jsonrpc", "method", "id", "params"}
  PROVE  (\A m \in J!ToSet(document) : AsNamed(m)) <=>
           /\ J!Of(document, "jsonrpc") = J!Version
           /\ J!Of(document, "method").type \in J!Strings \ {"rpc."}
           /\ J!Has(document, "params") => J!Of(document, "params").type \in J!Structured
           /\ J!Is_id_accepted(document)
<1> DEFINE n == Len(document)
<1>1. /\ n \in Nat /\ DOMAIN document = 1..n
      /\ \A name : name \in NamesIn(document) <=> J!Has(document, name)
      /\ \A i \in 1..n : document[i].name \in NamesIn(document)
  BY NamesOf
<1>2. J!ToSet(document) = {document[i] : i \in 1..n}
  BY <1>1 DEF J!ToSet
<1> HIDE DEF n
<1>3. \A i \in 1..n : J!Of(document, document[i].name) = document[i].value
  BY <1>1, FoundAt
<1>4. \A name : J!Has(document, name) => \E i \in 1..n : document[i].name = name
  BY <1>1, FindPlace
<1>5. ASSUME \A m \in J!ToSet(document) : AsNamed(m), NEW name, J!Has(document, name)
      PROVE  \E m : m.name = name /\ m.value = J!Of(document, name) /\ AsNamed(m)
  BY <1>2, <1>3, <1>4, <1>5
<1>6. ASSUME \A m \in J!ToSet(document) : AsNamed(m)
      PROVE  /\ J!Of(document, "jsonrpc") = J!Version
             /\ J!Of(document, "method").type \in J!Strings \ {"rpc."}
             /\ J!Has(document, "params") => J!Of(document, "params").type \in J!Structured
             /\ J!Is_id_accepted(document)
  <2>1. J!Of(document, "jsonrpc") = J!Version
    BY <1>5, <1>6, ByName
  <2>2. J!Of(document, "method").type \in J!Strings \ {"rpc."}
    BY <1>5, <1>6, ByName
  <2>3. J!Has(document, "params") => J!Of(document, "params").type \in J!Structured
    BY <1>5, <1>6, ByName
  <2>4. J!Has(document, "id") => J!Of(document, "id").type \in J!Numbers \union J!Strings \union {"null"}
    BY <1>5, <1>6, ByName
  <2> QED
    BY <2>1, <2>2, <2>3, <2>4 DEF J!Is_id_accepted
<1>7. ASSUME /\ J!Of(document, "jsonrpc") = J!Version
             /\ J!Of(document, "method").type \in J!Strings \ {"rpc."}
             /\ J!Has(document, "params") => J!Of(document, "params").type \in J!Structured
             /\ J!Is_id_accepted(document),
             NEW i \in 1..n
      PROVE  AsNamed(document[i])
  <2>1. /\ document[i].name \in {"jsonrpc", "method", "id", "params"} /\ J!Has(document, document[i].name)
        /\ J!Of(document, document[i].name) = document[i].value
    BY <1>1, <1>3
  <2>2. J!Has(document, "id") => J!Of(document, "id").type \in J!Numbers \union J!Strings \union {"null"}
    BY <1>7 DEF J!Is_id_accepted
  <2>3. CASE document[i].name = "jsonrpc"
    BY <1>7, <2>1, <2>3, ByName
  <2>4. CASE document[i].name = "method"
    BY <1>7, <2>1, <2>4, ByName
  <2>5. CASE document[i].name = "params"
    BY <1>7, <2>1, <2>5, ByName
  <2>6. CASE document[i].name = "id"
    BY <2>1, <2>2, <2>6, ByName
  <2> QED
    BY <2>1, <2>3, <2>4, <2>5, <2>6
<1> QED
  BY <1>2, <1>6, <1>7

LEMMA ConformingAccepted ==
  ASSUME NEW S, NEW document \in Seq(S)
  PROVE  Conforming(document) <=> J!Is_id_accepted(document) /\ J!Is_request(document)
<1> DEFINE n == Len(document)
           names == NamesIn(document)
           there == {name \in {"id", "params"} : J!Has(document, name)}
           known == {"jsonrpc", "method"} \union there
           count == J!Cardinality(there)
<1>1. /\ n \in Nat /\ \A name : name \in names <=> J!Has(document, name)
      /\ IsFiniteSet(names) /\ Cardinality(names) \in Nat
      /\ Cardinality(names) <= n
      /\ n = Cardinality(names) <=> Distinct(document)
  BY NamesOf
<1>2. IsFiniteSet(known) /\ Cardinality(known) = 2 + count /\ count \in Nat
  BY ThereCounted
<1>3. J!Cardinality(names) = Cardinality(names)
  BY SameCardinality
<1>4. J!Has(document, "jsonrpc") /\ J!Has(document, "method") => known \subseteq names
  BY <1>1
<1>5. /\ J!Has(document, "jsonrpc") /\ J!Has(document, "method") /\ names \subseteq {"jsonrpc", "method", "id", "params"}
      => names = known
  BY <1>1
<1>6. known \subseteq {"jsonrpc", "method", "id", "params"}
  OBVIOUS
<1>7. J!Is_request(document) <=>
        /\ J!Has(document, "jsonrpc") /\ J!Of(document, "jsonrpc") = J!Version
        /\ J!Has(document, "method") /\ J!Of(document, "method").type \in J!Strings \ {"rpc."}
        /\ J!Has(document, "params") => J!Of(document, "params").type \in J!Structured
        /\ n = 2 + count
  BY Zenon DEF J!Is_request
<1>8. Conforming(document) <=>
        /\ n = Cardinality(names) /\ {"jsonrpc", "method"} \subseteq names
        /\ names \subseteq {"jsonrpc", "method", "id", "params"}
        /\ \A m \in J!ToSet(document) : AsNamed(m)
  BY <1>3, Zenon DEF Conforming
<1> HIDE DEF n, names, there, known, count
<1>9. ASSUME Conforming(document)
      PROVE  J!Is_id_accepted(document) /\ J!Is_request(document)
  <2>1. J!Has(document, "jsonrpc") /\ J!Has(document, "method") /\ names \subseteq {"jsonrpc", "method", "id", "params"}
    BY <1>1, <1>8, <1>9
  <2>2. Distinct(document) /\ names = known
    BY <1>1, <1>5, <1>8, <1>9, <2>1
  <2>3. n = 2 + count
    BY <1>2, <1>8, <1>9, <2>2
  <2>4. \A m \in J!ToSet(document) : AsNamed(m)
    BY <1>8, <1>9
  <2> QED
    BY <1>7, <2>1, <2>2, <2>3, <2>4, AllFit DEF names
<1>10. ASSUME J!Is_id_accepted(document), J!Is_request(document)
       PROVE  Conforming(document)
  <2>1. J!Has(document, "jsonrpc") /\ J!Has(document, "method") /\ n = 2 + count
    BY <1>7, <1>10
  <2>2. known \subseteq names /\ Cardinality(known) <= Cardinality(names)
    BY <1>1, <1>4, <2>1, FS_Subset
  <2>3. Cardinality(names) = Cardinality(known) /\ n = Cardinality(names)
    BY <1>1, <1>2, <2>1, <2>2
  <2>4. names = known
    BY <1>1, <2>2, <2>3, FS_Subset
  <2>5. Distinct(document) /\ names \subseteq {"jsonrpc", "method", "id", "params"} /\ {"jsonrpc", "method"} \subseteq names
    BY <1>1, <1>6, <2>1, <2>3, <2>4
  <2>6. \A m \in J!ToSet(document) : AsNamed(m)
    BY <1>7, <1>10, <2>1, <2>5, AllFit DEF names
  <2> QED
    BY <1>8, <2>3, <2>5, <2>6
<1> QED
  BY <1>9, <1>10

\* What is read of any document whose id has a type that the value of a member may have.
LEMMA RequestRead ==
  ASSUME NEW S, NEW document \in Seq(S),
         J!Has(document, "id") =>
           J!Of(document, "id").type \in J!Numbers \union J!Strings \union {"null", "bool"}
  PROVE  J!RequestChecked(document)
<1> DEFINE read == J!From_json(document)
           accepted == J!Is_id_accepted(document) /\ J!Is_request(document)
<1>1. Conforming(document) <=> accepted
  BY ConformingAccepted
<1>2. \A what, id : J!Outcome(what, id).what = what /\ J!Outcome(what, id).id = id
  BY DEF J!Outcome
<1>3. ~J!Is_id_accepted(document) => read.what = "invalid_request" /\ J!Id(document).type = "bool"
  <2> SUFFICES ASSUME ~J!Is_id_accepted(document)
               PROVE  read.what = "invalid_request" /\ J!Id(document).type = "bool"
    OBVIOUS
  <2>1. read.what = "invalid_request"
    BY <1>2 DEF J!From_json
  <2> QED
    BY <2>1 DEF J!Is_id_accepted, J!Id
<1>4. /\ J!Is_id_accepted(document) => (J!Is_id(J!Id(document)) <=> J!Id(document).type # "float")
      /\ J!Id(document).type = "float" => J!Is_id_accepted(document)
      /\ J!Id(document).type = "bool" => ~J!Is_id(J!Id(document))
  BY DEF J!Is_id_accepted, J!Is_id, J!Id, J!Numbers, J!Strings, J!Null, J!Value
<1>5. accepted => (J!Is_invariant_ok(document) <=> J!Is_id(J!Id(document)))
  <2>1. J!Is_id(J!Null)
    BY DEF J!Is_id, J!Null, J!Value
  <2> QED
    BY <2>1 DEF J!Is_request, J!Is_invariant_ok, J!Id
<1>6. J!Is_id_accepted(document) =>
        read.what = CASE ~J!Is_request(document) /\ J!Is_id(J!Id(document)) -> "invalid_request"
                      [] J!Is_request(document) /\ J!Is_invariant_ok(document) -> "parsed"
                      [] OTHER -> "terminated"
  BY <1>2, Zenon DEF J!From_json
<1>7. read.what = "invalid_request" /\ J!Id(document).type # "bool" => read.id = J!Id(document)
  <2> SUFFICES ASSUME read.what = "invalid_request", J!Id(document).type # "bool" PROVE read.id = J!Id(document)
    OBVIOUS
  <2>1. J!Is_id_accepted(document)
    BY DEF J!Is_id_accepted, J!Id
  <2> QED
    BY <1>2, <2>1 DEF J!From_json
<1>8. J!Is_id_accepted(document) =>
         /\ read.what = "parsed" <=> accepted /\ J!Is_id(J!Id(document))
         /\ read.what = "terminated" <=> J!Id(document).type = "float"
  BY <1>4, <1>5, <1>6
<1>9. /\ read.what = "parsed" <=> Conforming(document) /\ J!Is_id(J!Id(document))
      /\ read.what = "terminated" <=> J!Id(document).type = "float"
  BY <1>1, <1>3, <1>4, <1>8
<1> HIDE DEF read, accepted
<1> QED
  BY <1>7, <1>9, Zenon DEF J!RequestChecked, Conforming, NamesIn, AsNamed, read

LEMMA TwoNames == IsFiniteSet({"jsonrpc", "id"}) /\ Cardinality({"jsonrpc", "id"}) = 2
<1>1. IsFiniteSet({"jsonrpc"}) /\ Cardinality({"jsonrpc"}) = 1
  BY FS_Singleton
<1>2. IsFiniteSet({"jsonrpc"} \union {"id"}) /\ Cardinality({"jsonrpc"} \union {"id"}) = 2
  BY <1>1, FS_AddElement
<1>3. {"jsonrpc", "id"} = {"jsonrpc"} \union {"id"}
  OBVIOUS
<1> QED
  BY <1>2, <1>3

\* Three members that are named are all there are of three.
LEMMA ThreeNamed ==
  ASSUME NEW S, NEW document \in Seq(S), Len(document) = 3, NEW of, of # "jsonrpc", of # "id"
  PROVE  NamesIn(document) = {"jsonrpc", "id", of} <=>
           J!Has(document, "jsonrpc") /\ J!Has(document, "id") /\ J!Has(document, of)
<1> DEFINE names == NamesIn(document)
           known == {"jsonrpc", "id", of}
<1>1. /\ \A name : name \in names <=> J!Has(document, name)
      /\ IsFiniteSet(names) /\ Cardinality(names) \in Nat /\ Cardinality(names) <= 3
  BY NamesOf
<1>3. IsFiniteSet({"jsonrpc", "id"}) /\ Cardinality({"jsonrpc", "id"}) = 2
  BY TwoNames
<1>4. of \notin {"jsonrpc", "id"}
  OBVIOUS
<1>5. known = {"jsonrpc", "id"} \union {of}
  OBVIOUS
<1>6. Cardinality({"jsonrpc", "id"} \union {of}) = Cardinality({"jsonrpc", "id"}) + 1
  <2> DEFINE base == {"jsonrpc", "id"}
  <2>1. IsFiniteSet(base) /\ of \notin base
    BY <1>3, <1>4
  <2> HIDE DEF base
  <2>2. Cardinality(base \union {of}) = IF of \in base THEN Cardinality(base) ELSE Cardinality(base) + 1
    BY <2>1, FS_AddElement
  <2>3. Cardinality(base \union {of}) = Cardinality(base) + 1
    BY <2>1, <2>2, Zenon
  <2> QED
    BY <2>3 DEF base
<1>7. Cardinality(known) = 3
  <2>1. Cardinality(known) = 2 + 1
    BY <1>3, <1>5, <1>6, Zenon
  <2> HIDE DEF known
  <2> QED
    BY <2>1
<1> HIDE DEF names
<1>8. names = known => J!Has(document, "jsonrpc") /\ J!Has(document, "id") /\ J!Has(document, of)
  BY <1>1
<1>9. ASSUME J!Has(document, "jsonrpc"), J!Has(document, "id"), J!Has(document, of)
      PROVE  names = known
  <2>1. known \subseteq names
    BY <1>1, <1>9
  <2> HIDE DEF known
  <2>2. Cardinality(known) <= Cardinality(names)
    BY <1>1, <2>1, FS_Subset
  <2>3. Cardinality(names) = Cardinality(known)
    BY <1>1, <1>7, <2>2
  <2> QED
    BY <1>1, <2>1, <2>3, FS_Subset
<1> QED
  BY <1>8, <1>9 DEF names

\* A document that is a result or an error.
Answers(document, of) ==
  /\ Len(document) = 3 /\ NamesIn(document) = {"jsonrpc", "id", of}
  /\ J!Of(document, "jsonrpc") = J!Version
  /\ J!Of(document, "id").type \in J!Numbers \union J!Strings \union {"null"}
  /\ of = "error" => J!Is_error_object(J!Of(document, of))

\* What is read of any document that may be a response.
LEMMA ResponseRead ==
  ASSUME NEW S, NEW document \in Seq(S)
  PROVE  J!ResponseChecked(document)
<1> DEFINE read == J!Response(document)
           bad == \/ Len(document) # 3
                  \/ ~J!Has(document, "jsonrpc") \/ ~J!Has(document, "id")
                  \/ J!Of(document, "jsonrpc") # J!Version
                  \/ J!Of(document, "id").type \notin J!Numbers \union J!Strings \union {"null"}
           result == J!Has(document, "result") /\ ~J!Has(document, "error")
           error == J!Has(document, "error") /\ ~J!Has(document, "result")
           object == J!Is_error_object(J!Of(document, "error"))
           id == J!Is_id(J!Of(document, "id"))
<1>1. read = IF bad THEN "thrown"
             ELSE IF result THEN IF id THEN "result" ELSE "terminated"
             ELSE IF error /\ object THEN "error"
             ELSE "thrown"
  BY Zenon DEF J!Response
<1>2. \A name : name \in NamesIn(document) <=> J!Has(document, name)
  BY NamesOf
<1>3. ASSUME NEW of \in {"result", "error"}
      PROVE  Answers(document, of) <=>
               ~bad /\ J!Has(document, of) /\ (of = "error" => J!Is_error_object(J!Of(document, of)))
  <2>1. of # "jsonrpc" /\ of # "id"
    OBVIOUS
  <2>2. Len(document) = 3 =>
          (NamesIn(document) = {"jsonrpc", "id", of} <=>
             J!Has(document, "jsonrpc") /\ J!Has(document, "id") /\ J!Has(document, of))
    BY <2>1, ThreeNamed
  <2> QED
    BY <2>2 DEF Answers
<1>4. /\ Answers(document, "result") => ~J!Has(document, "error")
      /\ Answers(document, "error") => ~J!Has(document, "result")
  BY <1>2 DEF Answers
<1>5. ~bad /\ J!Has(document, "result") /\ J!Has(document, "error") =>
        ~Answers(document, "result") /\ ~Answers(document, "error")
  BY <1>4
<1>6. Answers(document, "result") <=> ~bad /\ result
  BY <1>3, <1>4
<1>7. Answers(document, "error") <=> ~bad /\ error /\ object
  BY <1>3, <1>4
<1>8. ~bad /\ ~id => J!Of(document, "id").type = "float"
  BY DEF J!Is_id, J!Numbers
<1> HIDE DEF read, bad, result, error, object, id
<1>9. result => ~error
  BY DEF result, error
<1>10. /\ Answers(document, "result") <=> read \in {"result", "terminated"}
       /\ Answers(document, "error") <=> read = "error"
       /\ read = "terminated" => J!Of(document, "id").type = "float"
  BY <1>1, <1>6, <1>7, <1>8, <1>9
<1> QED
  BY <1>10, Zenon DEF J!ResponseChecked, Answers, NamesIn, read

-----------------------------------------------------------------------------
(* Members of objects of JSON.                                             *)

Bases == {2, 4, 16, 256}

LEMMA Powers ==
  ASSUME ByteBase \in Bases
  PROVE  /\ \A size \in 1..4 : ByteBase ^ size \in Nat
         /\ \A size \in 1..3 : ByteBase ^ size <= ByteBase ^ 3
<1>1. CASE ByteBase = 2
  <2>1. ByteBase ^ 1 = 2 /\ ByteBase ^ 2 = 4 /\ ByteBase ^ 3 = 8 /\ ByteBase ^ 4 = 16
    BY <1>1
  <2> QED
    BY <2>1
<1>2. CASE ByteBase = 4
  <2>1. ByteBase ^ 1 = 4 /\ ByteBase ^ 2 = 16 /\ ByteBase ^ 3 = 64 /\ ByteBase ^ 4 = 256
    BY <1>2
  <2> QED
    BY <2>1
<1>3. CASE ByteBase = 16
  <2>1. ByteBase ^ 1 = 16 /\ ByteBase ^ 2 = 256 /\ ByteBase ^ 3 = 4096 /\ ByteBase ^ 4 = 65536
    BY <1>3
  <2> QED
    BY <2>1
<1>4. CASE ByteBase = 256
  <2>1. ByteBase ^ 1 = 256 /\ ByteBase ^ 2 = 65536 /\ ByteBase ^ 3 = 16777216 /\ ByteBase ^ 4 = 4294967296
    BY <1>4
  <2> QED
    BY <2>1
<1> QED
  BY <1>1, <1>2, <1>3, <1>4 DEF Bases

\* A number that a type has is one of 32 bits if the type has 32 bits or less.
LEMMA FitsWider ==
  ASSUME ByteBase \in Bases, NEW type, NEW size \in 1..3, NEW n \in Int, N!Fits(type, size, n)
  PROVE  N!Fits(type, 3, n)
<1> DEFINE v == ByteBase ^ size
           w == ByteBase ^ 3
<1>1. v \in Nat /\ w \in Nat /\ v <= w
  BY Powers
<1>2. IF type.signed THEN -(v \div 2) <= n /\ n < v \div 2 ELSE 0 <= n /\ n < v
  BY DEF N!Fits
<1> HIDE DEF v, w
<1>3. IF type.signed THEN -(w \div 2) <= n /\ n < w \div 2 ELSE 0 <= n /\ n < w
  <2>1. v \div 2 <= w \div 2 /\ v \div 2 \in Nat /\ w \div 2 \in Nat
    BY <1>1
  <2>2. CASE type.signed
    BY <1>2, <2>1, <2>2
  <2>3. CASE ~type.signed
    BY <1>1, <1>2, <2>3
  <2> QED
    BY <2>2, <2>3
<1> QED
  BY <1>3 DEF N!Fits, w

\* Numbers of few bits are those of a floating point type.
LEMMA LosslessFew ==
  ASSUME NEW n \in Int, n \in -(2 ^ N!FloatBits)..(2 ^ N!FloatBits)
  PROVE  N!Lossless(n, N!FloatBits) /\ N!Lossless(n, N!DoubleBits)
<1>1. 2 ^ 0 = 1 /\ 2 ^ 3 = 8 /\ 2 ^ 5 = 32
  OBVIOUS
<1>2. n \in -8..8
  BY <1>1 DEF N!FloatBits
<1> DEFINE m == IF n < 0 THEN -n ELSE n
<1>3. m \in 0..8
  BY <1>2
<1> HIDE DEF m
<1>4. \E k \in 0..10 : m % (2 ^ k) = 0 /\ m \div (2 ^ k) < 2 ^ 3
  <2>1. CASE m < 8
    <3>1. 0 \in 0..10 /\ m % (2 ^ 0) = 0 /\ m \div (2 ^ 0) < 2 ^ 3
      BY <1>1, <1>3, <2>1
    <3> QED
      BY <3>1
  <2>2. CASE m = 8
    <3>1. 3 \in 0..10 /\ m % (2 ^ 3) = 0 /\ m \div (2 ^ 3) < 2 ^ 3
      BY <1>1, <2>2
    <3> QED
      BY <3>1
  <2> QED
    BY <1>3, <2>1, <2>2
<1>5. \E k \in 0..10 : m % (2 ^ k) = 0 /\ m \div (2 ^ k) < 2 ^ 5
  <2>1. 0 \in 0..10 /\ m % (2 ^ 0) = 0 /\ m \div (2 ^ 0) < 2 ^ 5
    BY <1>1, <1>3
  <2> QED
    BY <2>1
<1> QED
  BY <1>4, <1>5 DEF N!Lossless, N!FloatBits, N!DoubleBits, m

\* The member that is looked for is the first one with the name.
LEMMA MemberFound ==
  ASSUME NEW members, NEW n \in Nat, DOMAIN members = 1..n, Len(members) = n, NEW name
  PROVE  /\ N!Optional_iterator(members, name) \in DOMAIN members <=>
              ~(name = <<>> \/ \A i \in DOMAIN members : members[i].name # name)
         /\ \A i \in DOMAIN members :
              members[i].name = name /\ (\A j \in 1..(i - 1) : members[j].name # name) /\ name # <<>> =>
                N!Optional_iterator(members, name) = i
<1> DEFINE found == {i \in DOMAIN members : members[i].name = name}
<1>1. CASE name = <<>> \/ found = {}
  <2>1. N!Optional_iterator(members, name) = n + 1
    BY <1>1 DEF N!Optional_iterator
  <2> QED
    BY <1>1, <2>1
<1>2. CASE name # <<>> /\ found # {}
  <2>1. N!Optional_iterator(members, name) = N!Min(found)
    BY <1>2 DEF N!Optional_iterator
  <2>2. PICK i \in found : \A j \in found : i <= j
    <3>1. found \subseteq Nat /\ found # {}
      BY <1>2
    <3> HIDE DEF found
    <3> QED
      BY <3>1, Least
  <2>3. \A j \in found : j \in Nat
    OBVIOUS
  <2>4. N!Min(found) = i
    <3> HIDE DEF found
    <3>1. \A x \in found : (\A y \in found : x <= y) => x = i
      BY <2>2, <2>3
    <3> QED
      BY <2>2, <3>1, Zenon DEF N!Min
  <2>5. \A k \in DOMAIN members : members[k].name = name /\ (\A j \in 1..(k - 1) : members[j].name # name) => k = i
    BY <2>2
  <2> QED
    BY <1>2, <2>1, <2>4, <2>5
<1> QED
  BY <1>1, <1>2

LEMMA TypesOf ==
  ASSUME NEW type \in N!JsonTypes
  PROVE  \/ /\ type.of = "integer" /\ type.elements = "none" /\ type.size \in 1..4
         \/ /\ type.of \in {"bool", "string", "float", "double"} /\ type.elements = "none"
         \/ /\ type.of \in {"vector", "vector of optionals"} /\ type.elements = "integer"
            /\ type = N!JsonVector(type.of, "integer")
<1>1. ASSUME type \in N!JsonInteger
      PROVE  type.of = "integer" /\ type.elements = "none" /\ type.size \in 1..4
  BY <1>1 DEF N!JsonInteger
<1>2. ASSUME NEW of \in {"bool", "string", "float", "double"}, type = N!JsonType(of)
      PROVE  type.of \in {"bool", "string", "float", "double"} /\ type.elements = "none"
  BY <1>2 DEF N!JsonType
<1>3. ASSUME NEW of \in {"vector", "vector of optionals"}, type = N!JsonVector(of, "integer")
      PROVE  /\ type.of \in {"vector", "vector of optionals"} /\ type.elements = "integer"
             /\ type = N!JsonVector(type.of, "integer")
  BY <1>3 DEF N!JsonVector
<1>4. \/ type \in N!JsonInteger
      \/ \E of \in {"bool", "string", "float", "double"} : type = N!JsonType(of)
      \/ \E of \in {"vector", "vector of optionals"} : type = N!JsonVector(of, "integer")
  BY Zenon DEF N!JsonTypes
<1> QED
  BY <1>1, <1>2, <1>3, <1>4

\* A scalar that is read is of its type, and a number of the type is read.
LEMMA ScalarRead ==
  ASSUME ByteBase \in Bases, NEW type, NEW value, type.size \in 1..4 \/ type.of # "integer"
  PROVE  /\ type.of = "integer" /\ N!IsScalar(type, value) =>
              value.kind = "number" /\ N!Fits(type, type.size, value.number)
         /\ type.of = "integer" /\ value.kind = "number" /\ value.number \in Int
              /\ N!Fits(type, type.size, value.number) => N!IsScalar(type, value)
         /\ type.of \in {"float", "double"} /\ value.kind = "number" /\ value.number \in Int
              /\ value.number \in -(2 ^ N!FloatBits)..(2 ^ N!FloatBits) => N!IsScalar(type, value)
<1>1. type.of = "integer" => (N!IsScalar(type, value) <=> N!IsInteger(type, value))
  BY DEF N!IsScalar
<1>2. type.of = "float" => (N!IsScalar(type, value) <=> N!IsFloat(value))
  BY DEF N!IsScalar
<1>3. type.of = "double" => (N!IsScalar(type, value) <=> N!IsDouble(value))
  BY DEF N!IsScalar
<1>4. ASSUME type.of = "integer", value.kind = "number", value.number \in Int,
             N!Fits(type, type.size, value.number)
      PROVE  N!IsInteger(type, value)
  <2>1. CASE type.size = 4
    BY <1>4, <2>1 DEF N!IsInteger
  <2>2. CASE type.size # 4
    <3>1. type.size \in 1..3
      BY <1>4, <2>2
    <3>2. N!Fits(type, 3, value.number)
      BY <1>4, <3>1, FitsWider
    <3> QED
      BY <1>4, <2>2, <3>2 DEF N!IsInteger
  <2> QED
    BY <2>1, <2>2
<1>5. ASSUME value.kind = "number", value.number \in Int, value.number \in -(2 ^ N!FloatBits)..(2 ^ N!FloatBits)
      PROVE  N!IsFloat(value) /\ N!IsDouble(value)
  BY <1>5, LosslessFew DEF N!IsFloat, N!IsDouble
<1>6. N!IsInteger(type, value) => value.kind = "number" /\ N!Fits(type, type.size, value.number)
  BY DEF N!IsInteger
<1> QED
  BY <1>1, <1>2, <1>3, <1>4, <1>5, <1>6

\* An item of an array is read as an integer of the type of the elements, a null only as
\* an optional.
LEMMA ItemRead ==
  ASSUME ByteBase \in Bases, NEW of, NEW item,
         N!IsScalar([N!JsonVector(of, "integer") EXCEPT !.of = "integer"], item)
  PROVE  item # N!JsonNull /\ N!Fits(N!JsonVector(of, "integer"), 1, item.number)
<1> DEFINE vector == N!JsonVector(of, "integer")
           type == [vector EXCEPT !.of = "integer"]
<1>1. vector.signed = TRUE /\ type.of = "integer" /\ type.size = 1 /\ type.signed = TRUE
  <2>1. vector = [of |-> of, signed |-> TRUE, size |-> 1, elements |-> "integer"]
    BY Zenon DEF N!JsonVector
  <2> HIDE DEF vector
  <2> QED
    BY <2>1
<1>2. N!JsonNull.kind = "null"
  BY DEF N!JsonNull, N!Json
<1> HIDE DEF vector, type
<1>3. item.kind = "number" /\ N!Fits(type, 1, item.number)
  <2>1. N!IsScalar(type, item)
    BY Zenon DEF type, vector
  <2> QED
    BY <1>1, <2>1, ScalarRead
<1>4. N!Fits(vector, 1, item.number)
  BY <1>1, <1>3 DEF N!Fits
<1> QED
  BY <1>2, <1>3, <1>4 DEF vector

\* What is said of a value in a type that it is asked for.
LEMMA JsonRead ==
  ASSUME ByteBase \in Bases, NEW type \in N!JsonTypes, NEW value
  PROVE  LET read == N!Json_to(type, value) IN
         /\ read.what \in {"value", "exception"}
         /\ read.what = "value" =>
              /\ read.value = value
              /\ type.of = "integer" => N!Fits(type, type.size, value.number)
              /\ type.of = "vector" => N!JsonNull \notin N!ToSet(value.items)
              /\ type.elements = "integer" =>
                   \A item \in N!ToSet(value.items) \ {N!JsonNull} : N!Fits(type, 1, item.number)
         /\ read.what = "exception" /\ value.kind = "number" /\ value.number \in Int =>
              \/ type.of = "integer" /\ ~N!Fits(type, type.size, value.number)
              \/ type.of \in {"float", "double"} /\ value.number \notin -(2 ^ N!FloatBits)..(2 ^ N!FloatBits)
              \/ type.of \notin {"integer", "float", "double"}
<1> DEFINE read == N!Json_to(type, value)
           Element(item) == \/ type.of = "vector of optionals" /\ item = N!JsonNull
                            \/ N!IsScalar([type EXCEPT !.of = type.elements], item)
           array == value.kind = "array" /\ \A i \in DOMAIN value.items : Element(value.items[i])
           reads == IF type.elements = "none" THEN N!IsScalar(type, value) ELSE array
<1>1. read = IF reads THEN [what |-> "value", value |-> value] ELSE [what |-> "exception", value |-> N!JsonNull]
  BY Zenon DEF N!Json_to
<1>2. /\ read.what \in {"value", "exception"}
      /\ read.what = "value" => reads /\ read.value = value
      /\ read.what = "exception" => ~reads
  <2> HIDE DEF reads, read
  <2> QED
    BY <1>1
<1> HIDE DEF read
<1>3. CASE type.elements = "none" /\ (type.of = "integer" => type.size \in 1..4) /\ type.of \notin {"vector", "vector of optionals"}
  <2>1. type.size \in 1..4 \/ type.of # "integer"
    BY <1>3
  <2>2. reads <=> N!IsScalar(type, value)
    BY <1>3
  <2> HIDE DEF reads
  <2>3. reads => (type.of = "integer" => N!Fits(type, type.size, value.number))
    BY <2>1, <2>2, ScalarRead
  <2>4. ~reads /\ value.kind = "number" /\ value.number \in Int =>
              \/ type.of = "integer" /\ ~N!Fits(type, type.size, value.number)
              \/ type.of \in {"float", "double"} /\ value.number \notin -(2 ^ N!FloatBits)..(2 ^ N!FloatBits)
              \/ type.of \notin {"integer", "float", "double"}
    BY <2>1, <2>2, ScalarRead
  <2> QED
    BY <1>2, <1>3, <2>3, <2>4 DEF read
<1>4. CASE /\ type.of \in {"vector", "vector of optionals"} /\ type.elements = "integer"
           /\ type = N!JsonVector(type.of, "integer")
  <2>1. reads <=> array
    BY <1>4
  <2>2. ASSUME array, NEW item \in N!ToSet(value.items)
        PROVE  Element(item)
    BY <2>2 DEF N!ToSet
  <2>3. ASSUME NEW item, Element(item)
        PROVE  /\ item = N!JsonNull => type.of = "vector of optionals"
               /\ item # N!JsonNull => N!Fits(type, 1, item.number)
    <3>1. CASE type.of = "vector of optionals" /\ item = N!JsonNull
      BY <3>1
    <3>2. CASE N!IsScalar([type EXCEPT !.of = type.elements], item)
      <4>1. N!IsScalar([N!JsonVector(type.of, "integer") EXCEPT !.of = "integer"], item)
        BY <1>4, <3>2
      <4>2. item # N!JsonNull /\ N!Fits(N!JsonVector(type.of, "integer"), 1, item.number)
        BY <4>1, ItemRead
      <4> QED
        BY <1>4, <4>2
    <3> QED
      BY <2>3, <3>1, <3>2
  <2> HIDE DEF Element
  <2>4. array => /\ type.of = "vector" => N!JsonNull \notin N!ToSet(value.items)
                 /\ \A item \in N!ToSet(value.items) \ {N!JsonNull} : N!Fits(type, 1, item.number)
    BY <2>2, <2>3
  <2> HIDE DEF reads, array
  <2> QED
    BY <1>2, <1>4, <2>1, <2>4 DEF read
<1> HIDE DEF reads
<1> QED
  BY <1>3, <1>4, TypesOf DEF read

LEMMA MembersAllRead ==
  ASSUME ByteBase \in Bases, NEW S, NEW members \in Seq(S),
         \A i \in DOMAIN members : members[i].value.number \in Int
  PROVE  N!MembersRead(members)
<1>1. DOMAIN members = 1..Len(members) /\ Len(members) \in Nat
  OBVIOUS
<1> SUFFICES ASSUME NEW type \in N!JsonTypes, NEW name PROVE N!MemberRead(members, name, type)
  BY Zenon DEF N!MembersRead
<1> DEFINE i == N!Optional_iterator(members, name)
           optional == N!Optional(members, name, type)
           mandatory == N!Mandatory(members, name, type)
<1>2. /\ i \in DOMAIN members <=> ~(name = <<>> \/ \A j \in DOMAIN members : members[j].name # name)
      /\ \A k \in DOMAIN members :
           members[k].name = name /\ (\A j \in 1..(k - 1) : members[j].name # name) /\ name # <<>> => i = k
  BY <1>1, MemberFound
<1>3. IF i \in DOMAIN members THEN optional = N!Json_to(type, members[i].value) /\ mandatory = optional
      ELSE optional.what = "nullopt" /\ mandatory.what = "absent"
  BY DEF N!Optional, N!Mandatory
<1> HIDE DEF i, optional, mandatory
<1>4. CASE i \notin DOMAIN members
  <2>1. optional.what = "nullopt" /\ mandatory.what = "absent"
    BY <1>3, <1>4
  <2> QED
    BY <1>2, <1>4, <2>1 DEF N!MemberRead, optional, mandatory
<1>5. CASE i \in DOMAIN members
  <2> DEFINE value == members[i].value
  <2>1. optional = N!Json_to(type, value) /\ mandatory = optional /\ value.number \in Int
    BY <1>3, <1>5
  <2> HIDE DEF value
  <2>2. /\ optional.what \in {"value", "exception"}
        /\ optional.what = "value" =>
              /\ optional.value = value
              /\ type.of = "integer" => N!Fits(type, type.size, value.number)
              /\ type.of = "vector" => N!JsonNull \notin N!ToSet(value.items)
              /\ type.elements = "integer" =>
                   \A item \in N!ToSet(value.items) \ {N!JsonNull} : N!Fits(type, 1, item.number)
        /\ optional.what = "exception" /\ value.kind = "number" =>
              \/ type.of = "integer" /\ ~N!Fits(type, type.size, value.number)
              \/ type.of \in {"float", "double"} /\ value.number \notin -(2 ^ N!FloatBits)..(2 ^ N!FloatBits)
              \/ type.of \notin {"integer", "float", "double"}
    BY <2>1, JsonRead
  <2>3. ~(name = <<>> \/ \A j \in DOMAIN members : members[j].name # name)
    BY <1>2, <1>5
  <2>4. optional.what # "nullopt" /\ mandatory.what # "absent"
    BY <2>1, <2>2
  <2>5. \A k \in DOMAIN members :
          members[k].name = name /\ (\A j \in 1..(k - 1) : members[j].name # name) => members[k].value = value
    BY <1>2, <2>3 DEF value
  <2> QED
    BY <2>2, <2>3, <2>4, <2>5 DEF N!MemberRead, optional, mandatory
<1> QED
  BY <1>4, <1>5
=============================================================================
