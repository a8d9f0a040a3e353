----------------------------- MODULE SshConfig -----------------------------
(***************************************************************************)
(* The text of ~/.ssh/config and what src/src/config_parser.c makes of it: *)
(* reading it into hosts, writing hosts back, and their form in JSON.  A   *)
(* file is a sequence of lines, a line a keyword and its value; lower and  *)
(* upper case, blanks and indentation are left out.  Everything the reader *)
(* skips (a blank line, a comment, a keyword without a value) is the line  *)
(* Skipped.  Texts are opaque and fit their buffers.                       *)
(***************************************************************************)
EXTENDS Integers, SequencesExt

CONSTANTS
  Patterns,     \* host patterns with '*' or '?'
  TextKeys,     \* User, IdentityFile, ProxyJump
  ForwardKeys,  \* LocalForward, RemoteForward, DynamicForward
  MaxForwards,  \* MAX_FORWARDS
  MaxOptions    \* MAX_OPTIONS

ASSUME LimitsAssumption ==
  MaxForwards \in Nat \ {0} /\ MaxOptions \in Nat \ {0}

\* No two keywords are the same, and a comment is none.
ASSUME KeysAssumption ==
  /\ TextKeys \in SUBSET STRING /\ IsFiniteSet(TextKeys)
  /\ ForwardKeys \in SUBSET STRING /\ IsFiniteSet(ForwardKeys)
  /\ TextKeys \cap ForwardKeys = {}
  /\ {"#", "Host", "HostName", "Port"} \cap (TextKeys \cup ForwardKeys) = {}

Unset == ""
DefaultPort == 22
Skipped == <<"#", "">>
Key(line) == line[1]
Value(line) == line[2]

\* The elements of a sequence at the positions of a set.
Only(seq, positions) ==
  FlattenSeq([i \in DOMAIN seq |-> IF i \in positions THEN <<seq[i]>> ELSE <<>>])

-----------------------------------------------------------------------------
(* What a line, a rule and a host can be                                   *)

\* The texts; those the code itself supplies are named.  A host has a name.
Words == STRING \cup {Unset, "localhost", "*"}
HostNames == Words \ {Unset}

Spellings == [form : {"space", "colons", "other"}, bind : Words, port : Int, to : Words]
OptionKeys == STRING \ ({"#", "Host", "HostName", "Port"} \cup TextKeys \cup ForwardKeys)
OptionLines == OptionKeys \X Words

Lines ==
  {Skipped} \cup ({"Host"} \X HostNames) \cup ({"HostName"} \X Words) \cup ({"Port"} \X Int)
    \cup (TextKeys \X Words) \cup (ForwardKeys \X Spellings) \cup OptionLines

\* A rule that was understood: without an address it has localhost.
RuleSet == [bind : Words \ {"none"}, port : Int, to : Words]

\* A host fits its arrays.
HostSet ==
  {h \in [name : HostNames, hostname : Words, port : Int, text : [TextKeys -> Words],
           forwards : [ForwardKeys -> Seq(RuleSet)], options : Seq(OptionLines)] :
     /\ \A k \in ForwardKeys : Len(h.forwards[k]) <= MaxForwards
     /\ Len(h.options) <= MaxOptions}

\* A host as the pages have it.
JsonSet ==
  [name : HostNames, hostname : Words, port : Int, text : [TextKeys -> Words],
   forwards : [ForwardKeys -> Seq(RuleSet)]]

-----------------------------------------------------------------------------
(* Hosts                                                                   *)

\* has_wildcard
HasWildcard(name) == name \in Patterns

\* A host as a Host line leaves it: the name is also the host name.
NewHost(name) ==
  [name |-> name, hostname |-> name, port |-> DefaultPort,
   text |-> [k \in TextKeys |-> Unset],
   forwards |-> [k \in ForwardKeys |-> <<>>],
   options |-> <<>>]

\* The global directives before any was read; their name is never looked at.
NoDefaults == [NewHost("*") EXCEPT !.hostname = Unset, !.port = 0]

ValidPort(p) == p > 0 /\ p <= 65535

-----------------------------------------------------------------------------
(* Forwards                                                                *)

\* parse_forward, parse_dynamic.  A rule is spelt with a blank or with colons
\* only, or is not understood; only the first spelling has its ports checked,
\* and a dynamic rule is always taken.
AcceptsForward(key, f) ==
  \/ key = "DynamicForward"
  \/ f.form = "space" /\ f.port > 0
  \/ f.form = "colons"

ForwardRule(f) ==
  [bind |-> IF f.bind = "none" THEN "localhost" ELSE f.bind, port |-> f.port, to |-> f.to]

\* A plausible bug: the address is not written.
ForwardTextNoBind(r) == [form |-> "space", bind |-> "none", port |-> r.port, to |-> r.to]

\* How a rule is written: always with a blank, and with the address.
ForwardText(r) == [form |-> "space", bind |-> r.bind, port |-> r.port, to |-> r.to]

-----------------------------------------------------------------------------
(* Reading                                                                 *)

\* A plausible bug: the first value of a keyword wins, as in ssh itself.
ProcessFirst(host, line) ==
  LET key == Key(line) IN
  CASE key \in TextKeys ->
         IF host.text[key] = Unset THEN [host EXCEPT !.text[key] = Value(line)] ELSE host
    [] key = "HostName" -> [host EXCEPT !.hostname = Value(line)]
    [] key = "Port" -> IF ValidPort(Value(line)) THEN [host EXCEPT !.port = Value(line)] ELSE host
    [] key \in ForwardKeys ->
         IF Len(host.forwards[key]) < MaxForwards /\ AcceptsForward(key, Value(line))
           THEN [host EXCEPT !.forwards[key] = Append(@, ForwardRule(Value(line)))]
           ELSE host
    [] OTHER ->
         IF Len(host.options) < MaxOptions THEN [host EXCEPT !.options = Append(@, line)] ELSE host

\* process_kv: a port or a forward that is not understood is dropped, and what
\* exceeds the tables too; any other keyword is an option.
Process(host, line) ==
  LET key == Key(line)
      value == Value(line) IN
  CASE key = "HostName" -> [host EXCEPT !.hostname = value]
    [] key \in TextKeys -> [host EXCEPT !.text[key] = value]
    [] key = "Port" -> IF ValidPort(value) THEN [host EXCEPT !.port = value] ELSE host
    [] key \in ForwardKeys ->
         IF Len(host.forwards[key]) < MaxForwards /\ AcceptsForward(key, value)
           THEN [host EXCEPT !.forwards[key] = Append(@, ForwardRule(value))]
           ELSE host
    [] OTHER ->
         IF Len(host.options) < MaxOptions THEN [host EXCEPT !.options = Append(@, line)] ELSE host

HasOption(options, key) == \E i \in DOMAIN options : Key(options[i]) = key

\* The generic options of apply_defaults, one at a time.
MergeOption(options, option) ==
  IF HasOption(options, Key(option)) \/ Len(options) >= MaxOptions
    THEN options ELSE Append(options, option)

\* apply_defaults: what the host has not set, and the options it does not name.
\* Forwards are not inherited.
Inherit(host, defaults) ==
  [host EXCEPT
     !.hostname = IF @ = Unset THEN defaults.hostname ELSE @,
     !.port = IF @ = 0 THEN defaults.port ELSE @,
     !.text = [k \in TextKeys |-> IF @[k] = Unset THEN defaults.text[k] ELSE @[k]],
     !.options = FoldLeft(MergeOption, @, defaults.options)]

\* What parse_ssh_config keeps between two lines; "at" is what current and
\* skip_current say: the defaults, the last host, or a pattern to skip.
ReaderStart == [hosts |-> <<>>, defaults |-> NoDefaults, at |-> "defaults"]

\* The last host is finished before the next Host line and at the end.
Finish(reader) ==
  IF reader.at = "host"
    THEN [reader EXCEPT !.hosts[Len(reader.hosts)] = Inherit(@, reader.defaults)]
    ELSE reader

\* A plausible bug: the directives of a pattern's block become defaults.
ReadLineNoSkip(reader, line) ==
  CASE line = Skipped -> reader
    [] Key(line) = "Host" /\ HasWildcard(Value(line)) -> [Finish(reader) EXCEPT !.at = "defaults"]
    [] Key(line) = "Host" /\ ~HasWildcard(Value(line)) ->
         [Finish(reader) EXCEPT !.hosts = Append(@, NewHost(Value(line))), !.at = "host"]
    [] OTHER ->
         CASE reader.at = "defaults" -> [reader EXCEPT !.defaults = Process(@, line)]
           [] OTHER -> [reader EXCEPT !.hosts[Len(reader.hosts)] = Process(@, line)]

\* One turn of the loop of parse_ssh_config.
ReadLine(reader, line) ==
  CASE line = Skipped -> reader
    [] Key(line) = "Host" /\ HasWildcard(Value(line)) -> [Finish(reader) EXCEPT !.at = "skip"]
    [] Key(line) = "Host" /\ ~HasWildcard(Value(line)) ->
         [Finish(reader) EXCEPT !.hosts = Append(@, NewHost(Value(line))), !.at = "host"]
    [] OTHER ->
         CASE reader.at = "skip" -> reader
           [] reader.at = "defaults" -> [reader EXCEPT !.defaults = Process(@, line)]
           [] reader.at = "host" -> [reader EXCEPT !.hosts[Len(reader.hosts)] = Process(@, line)]

\* parse_ssh_config on the contents of a file.
Parse(file) == Finish(FoldLeft(ReadLine, ReaderStart, file)).hosts

-----------------------------------------------------------------------------
(* Writing                                                                 *)

Given(key, value, omitted) == IF value \in omitted THEN <<>> ELSE << <<key, value>> >>

\* An option without a value is written as a keyword alone.
OptionLine(option) == IF Value(option) = "" THEN Skipped ELSE option

\* The lines of the texts, and those of the rules, of the keywords in a sequence.
TextLines(h, keys) ==
  FlattenSeq([i \in DOMAIN keys |-> Given(keys[i], h.text[keys[i]], {Unset})])
RuleLines(key, rules) == [i \in DOMAIN rules |-> <<key, ForwardText(rules[i])>>]
ForwardLines(h, keys) ==
  FlattenSeq([i \in DOMAIN keys |-> RuleLines(keys[i], h.forwards[keys[i]])])

\* The lines ssh_hosts_write_config writes for a host.
HostLines(h) ==
  << Skipped, <<"Host", h.name>> >>
    \o Given("HostName", h.hostname, {Unset, h.name})
    \o Given("Port", h.port, {0, DefaultPort})
    \o TextLines(h, SetToSeq(TextKeys))
    \o ForwardLines(h, SetToSeq(ForwardKeys))
    \o [i \in DOMAIN h.options |-> OptionLine(h.options[i])]

\* A comment, then the hosts.
Written(hosts) == <<Skipped>> \o FlattenSeq([i \in DOMAIN hosts |-> HostLines(hosts[i])])

-----------------------------------------------------------------------------
(* JSON, between the manager and the pages                                 *)

\* ssh_hosts_to_json: the options are left out.
ToJson(h) ==
  [name |-> h.name, hostname |-> h.hostname, port |-> IF h.port = 0 THEN DefaultPort ELSE h.port,
   text |-> h.text, forwards |-> h.forwards]

Clamped(rules) == SubSeq(rules, 1, IF Len(rules) > MaxForwards THEN MaxForwards ELSE Len(rules))

\* A plausible bug: the length of the array is not looked at.
FromJsonAll(j) ==
  [name |-> j.name, hostname |-> j.hostname, port |-> j.port, text |-> j.text,
   forwards |-> j.forwards, options |-> <<>>]

\* ssh_hosts_from_json, for one host.
FromJson(j) ==
  [name |-> j.name, hostname |-> j.hostname, port |-> j.port, text |-> j.text,
   forwards |-> [k \in ForwardKeys |-> Clamped(j.forwards[k])],
   options |-> <<>>]

-----------------------------------------------------------------------------
(* What a file says, read off its lines without a reader's state, and what  *)
(* of a host the format of the file can carry                              *)

IsHostLine(line) == Key(line) = "Host"

\* The positions from one on, up to the next Host line.
Block(file, from) == {i \in from..Len(file) : \A j \in from..i : ~IsHostLine(file[j])}

With(file, block, key) == {i \in block : Key(file[i]) = key}

\* The value at the last of some positions.
LastOr(file, positions, other) ==
  IF positions = {} THEN other ELSE Value(file[Max(positions)])

Upto(n, seq) == SubSeq(seq, 1, IF Len(seq) < n THEN Len(seq) ELSE n)

IsOption(line) == Key(line) \notin {"#", "Host", "HostName", "Port"} \cup TextKeys \cup ForwardKeys
Options(file, block) == Upto(MaxOptions, Only(file, {i \in block : IsOption(file[i])}))

ValidPorts(file, block) == {i \in With(file, block, "Port") : ValidPort(Value(file[i]))}

Accepted(file, block, k) == {i \in With(file, block, k) : AcceptsForward(k, Value(file[i]))}
Rules(file, block, k) ==
  LET lines == Upto(MaxForwards, Only(file, Accepted(file, block, k))) IN
  [i \in DOMAIN lines |-> ForwardRule(Value(lines[i]))]

\* What the lines of a block say, of a host that is otherwise as given: the last
\* value of each keyword counts, among the ports the last valid one.
Gathered(file, block, host) ==
  [host EXCEPT
     !.hostname = LastOr(file, With(file, block, "HostName"), @),
     !.port = LastOr(file, ValidPorts(file, block), @),
     !.text = [k \in TextKeys |-> LastOr(file, With(file, block, k), @[k])],
     !.forwards = [k \in ForwardKeys |-> Rules(file, block, k)],
     !.options = Options(file, block)]

\* Of each keyword of the global options the first, unless the host has it.
InheritedOptions(own, global) ==
  Only(global, {i \in DOMAIN global :
                  /\ ~HasOption(own, Key(global[i]))
                  /\ \A j \in 1..(i - 1) : Key(global[j]) # Key(global[i])})

\* The host whose Host line is at a position.
DeclaredHost(file, i) ==
  LET own == Gathered(file, Block(file, i + 1), NewHost(Value(file[i])))
      global == Gathered(file, Block(file, 1), NoDefaults) IN
  [own EXCEPT
     !.hostname = IF @ = Unset THEN global.hostname ELSE @,
     !.text = [k \in TextKeys |-> IF @[k] = Unset THEN global.text[k] ELSE @[k]],
     !.options = Upto(MaxOptions, @ \o InheritedOptions(@, global.options))]

\* The positions of the Host lines that are not patterns, in order.
NamedLines(file) ==
  Only([i \in DOMAIN file |-> i],
       {i \in DOMAIN file : IsHostLine(file[i]) /\ ~HasWildcard(Value(file[i]))})

Declared(file) == [n \in DOMAIN NamedLines(file) |-> DeclaredHost(file, NamedLines(file)[n])]

\* What the head of config_parser.c says of a host: what its block does not set
\* is inherited from the global directives, whatever their keyword.
DocumentedHost(file, i) ==
  LET block == Block(file, i + 1)
      global == Gathered(file, Block(file, 1), NoDefaults)
      own == DeclaredHost(file, i) IN
  [own EXCEPT
     !.hostname =
       IF With(file, block, "HostName") = {} /\ global.hostname # Unset THEN global.hostname ELSE @,
     !.port = IF ValidPorts(file, block) = {} /\ global.port # 0 THEN global.port ELSE @,
     !.forwards = [k \in ForwardKeys |-> Upto(MaxForwards, @[k] \o global.forwards[k])]]

Documented(file) == [n \in DOMAIN NamedLines(file) |-> DocumentedHost(file, NamedLines(file)[n])]

\* No directive but a forward occurs twice in a block.
NoRepeats(file) ==
  \A i, j \in DOMAIN file :
    i < j /\ Key(file[i]) = Key(file[j]) /\ Key(file[i]) \notin {"#", "Host"} \cup ForwardKeys
      => \E l \in i..j : IsHostLine(file[l])

\* The global directives are of the kinds apply_defaults hands down.
GlobalsHandedDown(file) ==
  \A i \in Block(file, 1) : Key(file[i]) \notin {"HostName", "Port"} \cup ForwardKeys

\* The rules the spelling with a blank can carry.
Readable(key, rules) ==
  Only(rules, {i \in DOMAIN rules : AcceptsForward(key, ForwardText(rules[i]))})

\* What of a host survives being written: an empty host name means the name, a
\* port that is none means 22, rules without a port and options without a value
\* are lost.
Carried(h) ==
  [h EXCEPT
     !.hostname = IF @ = Unset THEN h.name ELSE @,
     !.port = IF ValidPort(@) THEN @ ELSE DefaultPort,
     !.forwards = [k \in ForwardKeys |-> Readable(k, @[k])],
     !.options = Only(@, {i \in DOMAIN @ : Value(@[i]) # ""})]

\* ... and of a sequence of hosts: those whose name is a pattern are lost.
CarriedHosts(hosts) ==
  LET named == {i \in DOMAIN hosts : ~HasWildcard(hosts[i].name)} IN
  Only([i \in DOMAIN hosts |-> Carried(hosts[i])], named)
=============================================================================
