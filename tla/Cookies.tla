------------------------------- MODULE Cookies -------------------------------
(***************************************************************************)
(* The headers Cookie and Set-Cookie of src/http. A word is a character:   *)
(* the names and values of attributes and the prefixes of names. The case  *)
(* of letters, which attributes ignore, is left out.                       *)
(***************************************************************************)
EXTENDS Integers, SequencesExt

CONSTANTS
  Name, Value,  \* of the calls
  MaxEntries    \* bound: entries of a Cookie

VARIABLES
  entries_,    \* the entries of a Cookie: [name, value]
  set_cookie,  \* a Set_cookie
  failed       \* the calls that have terminated the program

vars == <<entries_, set_cookie, failed>>

Separators == {"(", "="}
Forbidden == {";", " ", "\"", ",", "\n"}
Is_valid_token_character(c) == c \notin Separators \union Forbidden
Is_valid_cookie_octet(c) == c \notin Forbidden
Is_valid_cookie_name(name) == name # <<>> /\ \A i \in DOMAIN name : Is_valid_token_character(name[i])
Is_valid_cookie_value(value) == \A i \in DOMAIN value : Is_valid_cookie_octet(value[i])

-----------------------------------------------------------------------------
(* Cookie.                                                                 *)

Entry(name, value) == [name |-> name, value |-> value]
NoEntry == Entry(<<>>, <<>>)

Cookie_start == [state |-> "name", what |-> "reading", entries |-> <<NoEntry>>]

Cookie_step(m, c) ==
  LET n == Len(m.entries)
      thrown == [m EXCEPT !.what = "thrown"]
      \* The entry is checked by an assertion.
      next == [m EXCEPT !.state = "semicolon", !.entries = Append(@, NoEntry),
                        !.what = IF m.entries[n].name = <<>> THEN "terminated" ELSE @]
  IN
  CASE m.what # "reading" -> m
    [] m.state = "name" /\ c = "=" -> [m EXCEPT !.state = "value"]
    [] m.state = "name" /\ Is_valid_token_character(c) -> [m EXCEPT !.entries[n].name = Append(@, c)]
    [] m.state = "value" /\ c = ";" -> next
    [] m.state = "value" /\ Is_valid_cookie_octet(c) -> [m EXCEPT !.entries[n].value = Append(@, c)]
    [] m.state = "semicolon" /\ c = " " -> [m EXCEPT !.state = "name"]
    [] OTHER -> thrown

Cookie(input) ==
  LET read[i \in 0..Len(input)] == IF i = 0 THEN Cookie_start ELSE Cookie_step(read[i - 1], input[i])
      end == read[Len(input)]
  IN
  CASE input = <<>> -> [end EXCEPT !.what = "parsed", !.entries = <<>>]
    [] input # <<>> /\ end.what = "reading" ->
         [end EXCEPT !.what = IF end.state = "value" THEN "parsed" ELSE "thrown"]
    [] OTHER -> end

Cookie_to_string(entries) ==
  FlattenSeq([i \in DOMAIN entries |->
    entries[i].name \o <<"=">> \o entries[i].value
      \o (IF i = Len(entries) THEN <<>> ELSE <<";", " ">>)])

\* entry_index(), 0 if there is none.
Entry_index(entries, name, offset) ==
  Min({i \in (offset + 1)..Len(entries) : entries[i].name = name} \union {Len(entries) + 1})

Append_entry(name, value) ==
  /\ Is_valid_cookie_name(name) /\ Is_valid_cookie_value(value)
  /\ Len(entries_) < MaxEntries
  /\ entries_' = Append(entries_, Entry(name, value))
  /\ UNCHANGED <<set_cookie, failed>>

Set_entry(i, name, value) ==
  /\ i \in DOMAIN entries_
  /\ Is_valid_cookie_name(name) /\ Is_valid_cookie_value(value)
  /\ entries_' = [entries_ EXCEPT ![i] = Entry(name, value)]
  /\ UNCHANGED <<set_cookie, failed>>

Remove_entry(i) ==
  /\ i \in DOMAIN entries_
  /\ entries_' = RemoveAt(entries_, i)
  /\ UNCHANGED <<set_cookie, failed>>

\* remove_entry(name, offset) asserts that there is no other entry of the name.
Remove_named(name, offset) ==
  LET i == Entry_index(entries_, name, offset)
      rest == IF i \in DOMAIN entries_ THEN RemoveAt(entries_, i) ELSE entries_
  IN
  /\ entries_' = rest
  /\ failed' = IF Entry_index(rest, name, offset) \in DOMAIN rest
               THEN failed \union {"remove_entry"} ELSE failed
  /\ UNCHANGED set_cookie

-----------------------------------------------------------------------------
(* Set_cookie. An attribute that is not set is {}.                         *)

NoAttributes ==
  [expires |-> {}, max_age |-> {}, domain |-> {}, path |-> {}, secure |-> FALSE,
   http_only |-> FALSE, same_site |-> {}]
Constructed(name, value) == [name |-> name, value |-> value] @@ NoAttributes

\* requirement_violation_details()
Consistent(c) ==
  /\ Head(c.name) = "__Secure-" => c.secure
  /\ Head(c.name) = "__Host-" => c.secure /\ c.domain = {} /\ c.path = {<<"/">>}
Is_invariant_ok(c) ==
  Is_valid_cookie_name(c.name) /\ Is_valid_cookie_value(c.value) /\ Consistent(c)

SetCookie_start ==
  [state |-> "name", what |-> "reading", extracted |-> <<>>, type |-> "", cookie |-> Constructed(<<>>, <<>>)]

Attribute_words == {"Expires", "Max-Age", "Domain", "Path", "Secure", "HttpOnly", "SameSite", "a"}

Throw(m) == [m EXCEPT !.what = "thrown"]
Go(m, state) == [m EXCEPT !.state = state]
Extract(m, c) == [m EXCEPT !.extracted = Append(@, c)]
Store_name(m) == [m EXCEPT !.cookie.name = m.extracted, !.extracted = <<>>]
Store_value(m) == [m EXCEPT !.cookie.value = m.extracted, !.extracted = <<>>]

Process_boolean_attr_type(m) ==
  CASE m.extracted = <<"Secure">> -> [m EXCEPT !.cookie.secure = TRUE, !.extracted = <<>>]
    [] m.extracted = <<"HttpOnly">> -> [m EXCEPT !.cookie.http_only = TRUE, !.extracted = <<>>]
    [] OTHER -> Throw(m)

\* The rest of the value without the leading dots is a host name or empty.
Valid_domain(value) ==
  LET host == SelectSeq(value, LAMBDA c : c # ".") IN
  host = <<>> \/ (host = <<"example">> /\ Last(value) # ".")

\* What is stored; a flag with a value fails an assertion, but not an empty value.
Store_attr_value(m) ==
  LET v == m.extracted
      done == [m EXCEPT !.extracted = <<>>]
  IN
  CASE v = <<>> -> Throw(m)
    [] v # <<>> /\ m.type \in {"Secure", "HttpOnly"} -> [m EXCEPT !.what = "terminated"]
    [] m.type = "Expires" /\ v = <<"date">> -> [done EXCEPT !.cookie.expires = {v}]
    [] m.type = "Max-Age" /\ v \in {<<"60">>, <<" ", "60">>} -> [done EXCEPT !.cookie.max_age = {60}]
    [] m.type = "Domain" /\ v # <<>> /\ Valid_domain(v) -> [done EXCEPT !.cookie.domain = {v}]
    [] m.type = "Path" /\ v # <<>> /\ v[1] = "/" -> [done EXCEPT !.cookie.path = {v}]
    [] m.type = "SameSite" /\ v \in {<<"Strict">>, <<"Lax">>} -> [done EXCEPT !.cookie.same_site = {v[1]}]
    [] OTHER -> Throw(m)

\* The constructor's state machine. An attribute's name falls through to the check of
\* its values, which any character of a name passes.
SetCookie_step(m, c) ==
  CASE m.what # "reading" -> m
    [] m.state = "name" /\ c = "=" -> Go(Store_name(m), "before_value")
    [] m.state = "name" /\ Is_valid_token_character(c) -> Extract(m, c)
    [] m.state = "before_value" /\ c = ";" -> Go(m, "semicolon")
    [] m.state = "before_value" /\ c = "\"" -> Go(m, "value_quoted")
    [] m.state = "before_value" /\ Is_valid_token_character(c) -> Extract(Go(m, "value_unquoted"), c)
    [] m.state = "value_quoted" /\ c = "\"" -> Go(m, "after_value_quoted")
    [] m.state = "value_quoted" /\ Is_valid_cookie_octet(c) -> Extract(m, c)
    [] m.state \in {"value_unquoted", "after_value_quoted"} /\ c = ";" -> Go(Store_value(m), "semicolon")
    [] m.state = "value_unquoted" /\ Is_valid_cookie_octet(c) -> Extract(m, c)
    [] m.state = "semicolon" /\ c = " " -> Go(m, "attr_name")
    [] m.state = "attr_name" /\ c = ";" -> Go(Process_boolean_attr_type(m), "semicolon")
    [] m.state = "attr_name" /\ c = "=" ->
         Go([m EXCEPT !.type = IF Len(m.extracted) = 1 THEN m.extracted[1] ELSE "", !.extracted = <<>>],
            "attr_value")
    [] m.state = "attr_name" /\ c \in Attribute_words -> Extract(m, c)
    [] m.state = "attr_value" /\ c = ";" -> Go(Store_attr_value(m), "semicolon")
    [] m.state = "attr_value" /\ c \notin {";", "\n"} -> Extract(m, c)
    [] OTHER -> Throw(m)

SetCookie_finish(m) ==
  CASE m.what # "reading" -> m
    [] m.state \in {"value_unquoted", "after_value_quoted"} -> Store_value(m)
    [] m.state = "attr_name" -> Process_boolean_attr_type(m)
    [] m.state = "attr_value" -> Store_attr_value(m)
    [] OTHER -> Throw(m)

Set_cookie(input) ==
  LET read[i \in 0..Len(input)] == IF i = 0 THEN SetCookie_start ELSE SetCookie_step(read[i - 1], input[i])
      end == SetCookie_finish(read[Len(input)])
  IN
  IF end.what # "reading" THEN end
  ELSE [end EXCEPT !.what = IF end.cookie.name # <<>> /\ Is_invariant_ok(end.cookie)
                            THEN "parsed" ELSE "terminated"]

SetCookie_to_string(c) ==
  LET Attribute(name, values) ==
        IF values = {} THEN <<>> ELSE <<";", " ", name, "=">> \o (CHOOSE v \in values : TRUE)
      Flag(name, set) == IF set THEN <<";", " ", name>> ELSE <<>>
  IN c.name \o <<"=">> \o c.value
       \o Attribute("Expires", c.expires)
       \o Attribute("Max-Age", {<<"60">> : age \in c.max_age})
       \o Attribute("Domain", c.domain) \o Attribute("Path", c.path)
       \o Flag("Secure", c.secure) \o Flag("HttpOnly", c.http_only)
       \o Attribute("SameSite", {<<s>> : s \in c.same_site})

\* Each setter of what is checked against the rest: check_consistency() throws before
\* the change, and the invariant is asserted after it.
Set_checked(c) ==
  /\ Consistent(c)
  /\ set_cookie' = c
  /\ failed' = IF Is_invariant_ok(c) THEN failed ELSE failed \union {"set_cookie"}
  /\ UNCHANGED entries_
Set_name(name) == Is_valid_cookie_name(name) /\ Set_checked([set_cookie EXCEPT !.name = name])
Set_domain(domain) == Set_checked([set_cookie EXCEPT !.domain = domain])
Set_path(path) == Set_checked([set_cookie EXCEPT !.path = path])
Set_secure(secure) == Set_checked([set_cookie EXCEPT !.secure = secure])

\* The setters of the others.
Set_unchecked(c) ==
  /\ set_cookie' = c
  /\ failed' = IF Is_invariant_ok(c) THEN failed ELSE failed \union {"set_cookie"}
  /\ UNCHANGED entries_
Set_value(value) == Is_valid_cookie_value(value) /\ Set_unchecked([set_cookie EXCEPT !.value = value])
Set_expires(expires) == Set_unchecked([set_cookie EXCEPT !.expires = expires])
Set_max_age(age) == Set_unchecked([set_cookie EXCEPT !.max_age = age])
Set_http_only(flag) == Set_unchecked([set_cookie EXCEPT !.http_only = flag])
Set_same_site(site) == Set_unchecked([set_cookie EXCEPT !.same_site = site])

-----------------------------------------------------------------------------
(* The calls, and the properties.                                          *)

Init ==
  /\ entries_ = <<>> /\ failed = {}
  /\ set_cookie \in {c \in {Constructed(n, v) : n \in Name, v \in Value} : Is_invariant_ok(c)}

Cookie_call ==
  \/ \E name \in Name :
       \/ \E value \in Value : Append_entry(name, value) \/ \E i \in 1..MaxEntries : Set_entry(i, name, value)
       \/ \E offset \in 0..MaxEntries : Remove_named(name, offset)
  \/ \E i \in 1..MaxEntries : Remove_entry(i)

SetCookie_call ==
  \/ \E name \in Name : Set_name(name)
  \/ \E value \in Value : Set_value(value)
  \/ \E domain \in {{}, {<<"example">>}} : Set_domain(domain)
  \/ \E path \in {{}, {<<"/">>}, {<<"/", "a">>}} : Set_path(path)
  \/ \E flag \in BOOLEAN : Set_secure(flag) \/ Set_http_only(flag)
  \/ \E expires \in {{}, {<<"date">>}} : Set_expires(expires)
  \/ \E age \in {{}, {60}} : Set_max_age(age)
  \/ \E site \in {{}, {"Strict"}, {"Lax"}} : Set_same_site(site)

\* A Set_cookie whose text can be read: the parser wants a token character first in a
\* value that is not quoted, and something after the name.
Readable(c) ==
  IF c.value = <<>> THEN SetCookie_to_string(c) # c.name \o <<"=">>
  ELSE Is_valid_token_character(Head(c.value))

\* Whatever has been called, the text of either header is read as the header it is of,
\* and only the removal of one of several entries of a name terminates the program.
Kept ==
  /\ LET read == Cookie(Cookie_to_string(entries_)) IN
     read.what = "parsed" /\ read.entries = entries_
  /\ LET read == Set_cookie(SetCookie_to_string(set_cookie)) IN
     Readable(set_cookie) => read.what = "parsed" /\ read.cookie = set_cookie
  /\ failed \subseteq {"remove_entry"}

\* A text that is accepted as a Cookie is the text of its entries, and these are valid
\* but for an empty name of the last one; the same empty name terminates elsewhere.
CookieRead(input) ==
  LET read == Cookie(input)
      valid == {i \in DOMAIN read.entries :
                  Is_valid_cookie_name(read.entries[i].name) /\ Is_valid_cookie_value(read.entries[i].value)}
  IN
  /\ read.what = "parsed" =>
       Cookie_to_string(read.entries) = input /\ 1..(Len(read.entries) - 1) \subseteq valid
  /\ read.what = "terminated" =>
       \E i \in 1..(Len(input) - 1) : input[i] = "=" /\ (i = 1 \/ input[i - 1] = " ")

\* A text of Set-Cookie that is accepted says of each attribute what its last part with
\* that attribute says, and the text of the cookie is read as the cookie.
SetCookieRead(parts) ==
  LET input == FlattenSeq(parts)
      read == Set_cookie(input)
      With(name) == {i \in 2..Len(parts) : parts[i][3] = name}
      Of(name) == IF With(name) = {} THEN {}
                  ELSE LET part == parts[Max(With(name))] IN {SubSeq(part, 5, Len(part))}
  IN
  /\ read.what = "parsed" =>
       /\ Is_invariant_ok(read.cookie)
       /\ read.cookie.domain = Of("Domain") /\ read.cookie.path = Of("Path")
       /\ {<<s>> : s \in read.cookie.same_site} = Of("SameSite")
       /\ read.cookie.secure <=> With("Secure") # {}
       /\ read.cookie.http_only <=> With("HttpOnly") # {}
       /\ Readable(read.cookie) => Set_cookie(SetCookie_to_string(read.cookie)).cookie = read.cookie
  /\ read.what = "terminated" =>
       \/ Head(input) \in {"=", "__Secure-", "__Host-"}
       \/ \E i \in 2..Len(parts) : parts[i][3] \in {"Secure", "HttpOnly"} /\ Len(parts[i]) > 4
=============================================================================
