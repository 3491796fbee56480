-------------------------------- MODULE DnsCalls -------------------------------
(***************************************************************************)
(* libchaos-dns: the lines its parser takes, the rule that answers a       *)
(* lookup, and the wrappers.  A selector is a record: dir says which way   *)
(* it looks ("lookup" by name, "reverse" by address), name is a sequence   *)
(* of labels, an address one label, and len the length of its text.  What  *)
(* the effects do to a list of results is DnsResults'.                     *)
(***************************************************************************)
EXTENDS RuleFile

DnsSelector(dir, kind, name, len) == [dir |-> dir, kind |-> kind, name |-> name, len |-> len]

DnsAddresses == {<<"1.1">>, <<"2.2">>, <<"::3">>}

(* no name is a wildcard inside; an address has no suffixes *)
DnsReverseSelectorOk(sel) == sel.kind = "any" \/ (sel.kind = "exact" /\ sel.name \in DnsAddresses)
DnsSelectorOk(sel) ==
  IF sel.dir = "reverse" THEN DnsReverseSelectorOk(sel)
  ELSE sel.kind = "any" \/ (sel.name # <<>> /\ ~Contains(sel.name, "*"))

(* a suffix takes the names below it, never itself *)
DnsMatchesDomain(sel, dir, name) ==
  /\ name # <<>> /\ sel.dir = dir
  /\ CASE sel.kind = "any"    -> TRUE
       [] sel.kind = "exact"  -> sel.name = name
       [] sel.kind = "suffix" -> Len(name) > Len(sel.name) /\ IsSuffix(sel.name, name)
DnsRank(sel) == CASE sel.kind = "any" -> 1 [] sel.kind = "suffix" -> 2 [] sel.kind = "exact" -> 3

DnsGaiNames == {"EAI_AGAIN", "EAI_FAIL", "EAI_NONAME", "EAI_MEMORY", "EAI_SYSTEM"}
DnsFamilyFilters == {"inet4", "ipv4", "inet6", "ipv6", "any"}

DnsEffectAllowed(sel, eff) ==
  sel.dir = "reverse" => eff \in {"GAI", "LATENCY", "REWRITE", "SERVICE"}
DnsLimitOk(val) == IsNumeral(val) /\ Numerals[val] > 0
DnsOverrideOk(val) == val # <<>> /\ \A i \in DOMAIN val : <<val[i]>> \in DnsAddresses

(* the name of a resolver's error is the effect of its line: here its value *)
DnsLineOk(l) ==
  /\ DnsSelectorOk(l.sel) /\ ProbabilityValid(l.prob) /\ DnsEffectAllowed(l.sel, l.eff)
  /\ CASE l.eff = "GAI"      -> l.val \in DnsGaiNames
       [] l.eff = "LATENCY"  -> IsMillis(l.val)
       [] l.eff \in {"REWRITE", "SERVICE"} -> l.val # ""
       [] l.eff = "OVERRIDE" -> DnsOverrideOk(l.val)
       [] l.eff = "FILTER_FAMILY" -> l.val \in DnsFamilyFilters
       [] l.eff = "LIMIT"    -> DnsLimitOk(l.val)
       [] OTHER              -> l.eff = "SHUFFLE"

DnsParseBuffer(lines) == Parsed(lines, DnsLineOk)

DnsSelectRule(rules, eff, dir, name) ==
  SelectRule(rules, LAMBDA l : l.eff = eff /\ DnsMatchesDomain(l.sel, dir, name),
                    LAMBDA l : DnsRank(l.sel), LAMBDA l : l.sel.len)

-----------------------------------------------------------------------------
(* The library's copy of the loading code *)

DnsInit == FreshLib
DnsReadFile(f) == ReadFile(f)
DnsAttachHits(lib, lines) == AttachHits(lib, lines)
DnsRefresh(lib, f) == Refresh(lib, f, TakesFile(f, DnsParseBuffer(f.lines)))
DnsMatchLoaded(lib, eff, call) == Chosen(lib.rules, DnsSelectRule(lib.rules, eff, call.dir, call.name))
DnsReportHits(lib) == ReportHits(lib)
DnsAfterFork(lib) == AfterFork(lib)

-----------------------------------------------------------------------------
(* Wrappers.  A rule is looked up at each phase, by the name or the address  *)
(* the program asked for, whatever REWRITE has made of it.                   *)

DnsWrapper(name, dir, phases) ==
  [lib |-> "dns", fn |-> name, op |-> dir, dir |-> dir, phases |-> phases, sized |-> FALSE]

DnsPrelude == <<"LATENCY", "GAI">>
(* OVERRIDE is asked for only at its place, and then nobody else is *)
DnsResolve == <<"REWRITE", "SERVICE", "OVERRIDE", "CALL", "FILTER_FAMILY", "SHUFFLE", "LIMIT">>
DnsGetaddrinfo == DnsWrapper("getaddrinfo", "lookup", DnsPrelude \o DnsResolve)
(* the answer's host and service are replaced where the program asked for    *)
(* them                                                                      *)
DnsGetnameinfo == DnsWrapper("getnameinfo", "reverse", DnsPrelude \o <<"CALL", "REWRITE", "SERVICE">>)

(* the older calls: the answer is built from a resolved list when a rule     *)
(* wants to change it (RULED), and is the C library's otherwise              *)
DnsHostentPhases == DnsPrelude \o <<"RULED">>
DnsGethostbynameR == DnsWrapper("gethostbyname2_r", "lookup", DnsHostentPhases)
DnsGethostbyname  == DnsWrapper("gethostbyname2", "lookup", DnsHostentPhases)
DnsAddressPhases == DnsPrelude \o <<"REWRITE", "CALL">>
DnsGethostbyaddrR == DnsWrapper("gethostbyaddr_r", "reverse", DnsAddressPhases)
DnsGethostbyaddr  == DnsWrapper("gethostbyaddr", "reverse", DnsAddressPhases)

DnsHasResultRule(lib, call) ==
  \E eff \in {"REWRITE", "OVERRIDE", "FILTER_FAMILY", "SHUFFLE", "LIMIT"} : DnsMatchLoaded(lib, eff, call) # {}

DnsWrappers ==
  {DnsGetaddrinfo, DnsGetnameinfo, DnsGethostbynameR, DnsGethostbyname, DnsGethostbyaddrR, DnsGethostbyaddr}
=============================================================================
