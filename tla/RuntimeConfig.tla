--------------------------- MODULE RuntimeConfig ---------------------------
(***************************************************************************)
(* core.go, the configuration itself: Start reads the user's file and two  *)
(* patches, merges them, forces the settings of the tunnel, and injects a  *)
(* DNS policy for every Tailscale control host no policy of the user's     *)
(* covers; the hook, the end of Start and later network changes then edit  *)
(* the live list of policies.  The local proxy for control traffic is      *)
(* computed twice: from the YAML tree at the build, and from Mihomo's      *)
(* General section in the hook.                                            *)
(*                                                                         *)
(* CoreRuntime has the interleavings with the locks, and one value for     *)
(* what is spelled out here.  Hosts and policies are sets: the order of the *)
(* lists, and equal entries of them, are left out.                         *)
(***************************************************************************)
EXTENDS Integers, SequencesExt, YamlTree

CONSTANTS
  File,       \* names of files
  Merge(_, _), \* mergeMapping, of module YamlMerge
  Content,    \* [File -> [state, root]]: what reading each one gives
  Host,       \* Tailscale control hosts
  HostOf,     \* [control-url -> Host, or NoHost when it names none]
  NoHost,
  Split,      \* [key of nameserver-policy -> the patterns it lists]
  Covers,     \* [pattern -> SUBSET Host]; a host is a pattern
  Matchers,   \* the patterns only Mihomo can read: geosite, rule-set
  Number,     \* [scalar -> Int]: strconv.Atoi, where it does not fail
  YamlNumber, \* [scalar -> Int]: the integers of YAML, as Mihomo decodes them
  YamlBool,   \* the booleans of YAML, as Mihomo decodes them
  YamlTrue,   \* those that are true
  YamlNull,   \* the scalars with which Mihomo leaves a setting at its default
  Decimal,    \* plain decimal numerals, which both read alike
  Credential, \* the authentication records of the form user:password
  Servers,    \* non-empty lists of physical DNS servers
  NoServers   \* the empty list

ASSUME ConfigAssumption ==
  /\ Host \subseteq DOMAIN Covers
  /\ \A h \in Host : Covers[h] = {h} /\ Split[h] = <<h>> /\ h \notin Matchers
  /\ NoHost \notin Host
  /\ NoServers \notin Servers
  /\ Decimal \subseteq DOMAIN Number \cap DOMAIN YamlNumber
  /\ \A n \in Decimal : Number[n] = YamlNumber[n]
  /\ YamlTrue \subseteq YamlBool /\ "true" \in YamlTrue /\ "false" \in YamlBool \ YamlTrue
  /\ "" \in YamlNull \ (DOMAIN Number \cup DOMAIN YamlNumber \cup YamlBool)

VARIABLES
  pc,        \* "idle", "built", "applied" (after the hook), "running"
  files,     \* the files of the last build, in the order they are merged
  built,     \* [root, hosts]: runtimeConfigBuild
  user,      \* history: the applied configuration without injected policies
  live,      \* the live control hosts, providers' included
  policies,  \* lastDNSConfig.NameServerPolicy
  hosts,     \* lastDNSPolicyHosts
  proxy,     \* tailscaleProxyURL
  servers,   \* tailscaleDNSServers
  due,       \* the servers changed, a refresh waits for Start to end
  raced      \* history: a reload came between the hook of a start and its end

vars == <<pc, files, built, user, live, policies, hosts, proxy, servers, due, raced>>

----------------------------------------------------------------------------
(* Reading.                                                                *)

\* readYamlMapping: "missing" and "empty" are errors of the first file only, and
\* "broken" (unreadable, a directory, no mapping) of any.
Readable(fs) ==
  \A i \in DOMAIN fs :
    Content[fs[i]].state \in (IF i = 1 THEN {"ok"} ELSE {"ok", "missing", "empty"})

\* readMergedConfigRoot: the base, the patch and the final patch
Patched(root, f) == IF Content[f].state = "ok" THEN Merge(root, Content[f].root) ELSE root
MergedRoot(fs) == Patched(Patched(Content[fs[1]].root, fs[2]), fs[3])

----------------------------------------------------------------------------
(* The local proxy, from either representation of the configuration.       *)

\* scalarInt
Int0(m, k) == IF Text(m, k) \in DOMAIN Number THEN Number[Text(m, k)] ELSE 0

NoProxy == [host |-> "", port |-> 0, user |-> ""]

\* localHTTPProxyHostFromValues
ProxyHost(lan, bind) ==
  IF ~lan \/ bind \in {"", "*", "0.0.0.0"} THEN "127.0.0.1"
  ELSE IF bind = "::" THEN "::1" ELSE bind

ProxyURL(host, ports, records) ==
  LET open  == SelectSeq(ports, LAMBDA p : p > 0)
      valid == SelectSeq(records, LAMBDA r : r \in Credential)
  IN  IF open = << >> THEN NoProxy
      ELSE [host |-> host, port |-> Head(open),
            user |-> IF valid = << >> THEN "" ELSE Head(valid)]

Scalars(s) == LET ns == SelectSeq(s, LAMBDA n : n.kind = "scalar")
              IN  [i \in DOMAIN ns |-> ns[i].of]

\* findLocalHTTPProxyURL
ProxyOfRoot(root) ==
  ProxyURL(ProxyHost(Text(root, "allow-lan") = "true", Text(root, "bind-address")),
           <<Int0(root, "mixed-port"), Int0(root, "port")>>,
           Scalars(Entries(root, "authentication")))

\* Mihomo's General section: what YAML says, over Mihomo's defaults.
YamlInt(root, k) ==
  IF Text(root, k) \in DOMAIN YamlNumber THEN YamlNumber[Text(root, k)] ELSE 0
General(root) ==
  [allowLan |-> Text(root, "allow-lan") \in YamlTrue,
   bind |-> IF Text(root, "bind-address") \in YamlNull THEN "*" ELSE Text(root, "bind-address"),
   mixedPort |-> YamlInt(root, "mixed-port"), port |-> YamlInt(root, "port"),
   records |-> Scalars(Entries(root, "authentication"))]

\* Fault: the HTTP port comes first.
ProxyOfGeneralPortFirst(g) ==
  ProxyURL(ProxyHost(g.allowLan, g.bind), <<g.port, g.mixedPort>>, g.records)

\* findLocalHTTPProxyURLFromGeneral
ProxyOfGeneral(g) ==
  ProxyURL(ProxyHost(g.allowLan, g.bind), <<g.mixedPort, g.port>>, g.records)

----------------------------------------------------------------------------
(* The build.                                                              *)

\* A list of proxies has a Tailscale one with this control host, or with none.
Lists(proxies, h) ==
  \E i \in DOMAIN proxies :
    /\ IsMapping(proxies[i]) /\ Text(proxies[i], "type") = "tailscale"
    /\ HostOf[Text(proxies[i], "control-url")] = h

\* tailscaleControlHosts: those of the proxies and of the payloads of providers.
ControlHosts(root) ==
  LET providers == Section(root, "proxy-providers").of
  IN  {h \in Host : \/ Lists(Entries(root, "proxies"), h)
                   \/ \E p \in DOMAIN providers :
                        IsMapping(providers[p]) /\ Lists(Entries(providers[p], "payload"), h)}

\* Fault: a key is compared as a whole.
HasPolicyForWholeKey(policy, h) == h \in DOMAIN policy.of

\* hasDNSPolicyForHost, which cannot read matchers
HasPolicyFor(policy, h) ==
  \E k \in DOMAIN policy.of : \E p \in ToSet(Split[k]) \ Matchers : h \in Covers[p]

\* injectAndroidTailscaleDNSPolicy: [dns, hosts]; a policy that is there and is no
\* mapping leaves all as it is.
InjectPolicy(root, dns) ==
  LET policy == Section(dns, "nameserver-policy")
      found  == IF Find(dns, "nameserver-policy").kind \in {"none", "mapping"}
                THEN {h \in ControlHosts(root) : ~HasPolicyFor(policy, h)}
                ELSE {}
      added  == [h \in found |-> Scalar(servers)]
  IN  [dns |-> IF servers = NoServers \/ found = {} THEN dns
               ELSE Set(dns, "nameserver-policy", Mapping(Over(added, policy.of))),
       hosts |-> found]

ForcedTun == [k \in {"enable", "file-descriptor", "auto-route", "auto-detect-interface", "mtu"} |->
                Scalar("android")]
ForcedDNS == [k \in {"fake-ip-range"} |-> Scalar("android")]

\* EffectiveIPv6, with which the service decides about its own addresses
EffectiveIPv6(root) == Text(root, "ipv6") = "true"

DefaultTun(root) ==
  [k \in {"stack", "dns-hijack"} \cup (IF EffectiveIPv6(root) THEN {"inet6-address"} ELSE {}) |->
     Scalar("android")]

BuiltTun(root) == Mapping(Over(ForcedTun, Over(Section(root, "tun").of, DefaultTun(root))))

\* buildRuntimeConfigWithMetadata
BuildOf(root) ==
  LET tunned == Set(root, "tun", BuiltTun(root))
      dns    == Mapping(Over(ForcedDNS, Section(tunned, "dns").of))
      policy == InjectPolicy(tunned, dns)
  IN  [root |-> Set(tunned, "dns", policy.dns), hosts |-> policy.hosts]

----------------------------------------------------------------------------
(* The live list of policies.                                              *)

\* Mihomo's parser: ports are numbers, allow-lan is a boolean, policies are a mapping,
\* and each may be null.
Parses(root) ==
  /\ \A k \in {"mixed-port", "port"} : Text(root, k) \in DOMAIN YamlNumber \cup YamlNull
  /\ Text(root, "allow-lan") \in YamlBool \cup YamlNull
  /\ LET policy == Find(Section(root, "dns"), "nameserver-policy")
     IN  policy.kind \in {"none", "mapping"} \/ (policy.kind = "scalar" /\ policy.of \in YamlNull)

Parsed(root) ==
  LET policy == Section(Section(root, "dns"), "nameserver-policy").of
  IN  UNION {{[pattern |-> p, servers |-> policy[k].of] : p \in ToSet(Split[k])} :
               k \in DOMAIN policy}

\* Fault: without servers the policies stay, empty.
ReplaceKeeping(ps, hs, s) ==
  {p \in ps : p.pattern \notin hs} \cup {[pattern |-> h, servers |-> s] : h \in hs}

\* replaceDNSPoliciesForHosts
Replace(ps, hs, s) ==
  {p \in ps : p.pattern \notin hs} \cup
  IF s = NoServers THEN {} ELSE {[pattern |-> h, servers |-> s] : h \in hs}

\* filterDNSPolicyHostsForCurrentPolicies
Uncovered(hs, ps) == {h \in hs : \A p \in ps : h \notin Covers[p.pattern]}

\* Fault: the hosts of the hook are forgotten.
MergeHostsForgetting(existing, incoming) == incoming

\* mergeDNSPolicyHosts
MergeHosts(existing, incoming) == existing \cup incoming

----------------------------------------------------------------------------
Init ==
  /\ pc = "idle"
  /\ files = << >>
  /\ built = [root |-> Mapping(<< >>), hosts |-> {}]
  /\ user = Mapping(<< >>)
  /\ live = {}
  /\ policies = {}
  /\ hosts = {}
  /\ proxy = NoProxy
  /\ servers = NoServers
  /\ due = FALSE
  /\ raced = FALSE

\* Start reads and builds; an unreadable file leaves all as it is.
Build(fs) ==
  /\ pc = "idle"
  /\ Readable(fs)
  /\ pc' = "built"
  /\ files' = fs
  /\ built' = BuildOf(MergedRoot(fs))
  /\ proxy' = ProxyOfRoot(built'.root)
  /\ raced' = FALSE
  /\ UNCHANGED <<user, live, policies, hosts, servers, due>>

\* tailscaleControlHostsFromConfig: those of the file, and what the providers
\* have fetched.
LiveHosts(root, fetched) ==
  ControlHosts(root) \cup
  IF DOMAIN Section(root, "proxy-providers").of = {} THEN {} ELSE fetched

\* The hook: syncRuntimeConfigStateFromAppliedConfig.
Sync(root, fetched) ==
  /\ live' = LiveHosts(root, fetched)
  /\ hosts' = Uncovered(live', Parsed(root))
  /\ policies' = IF servers = NoServers THEN Parsed(root)
                 ELSE Replace(Parsed(root), hosts', servers)
  /\ proxy' = ProxyOfGeneral(General(root))

Apply(fetched) ==
  /\ pc = "built"
  /\ Parses(built.root)
  /\ Sync(built.root, fetched)
  /\ pc' = "applied"
  /\ user' = MergedRoot(files)
  /\ UNCHANGED <<files, built, servers, due, raced>>

\* mergeStartupRuntimeConfigState
EndStart ==
  /\ pc = "applied"
  /\ hosts' = MergeHosts(hosts, built.hosts)
  /\ pc' = "running"
  /\ files' = << >>
  /\ built' = [built EXCEPT !.root = Mapping(<< >>)]
  /\ UNCHANGED <<user, live, policies, proxy, servers, due, raced>>

\* The external controller loads a file as it is.
Reload(f, fetched) ==
  /\ pc \in {"applied", "running"}
  /\ Content[f].state = "ok"
  /\ Parses(Content[f].root)
  /\ Sync(Content[f].root, fetched)
  /\ user' = Content[f].root
  /\ raced' = (raced \/ pc = "applied")
  /\ UNCHANGED <<pc, files, built, servers, due>>

\* SetAndroidNetworkInfo, up to the refresh
NetworkInfo(s) ==
  /\ s # servers
  /\ servers' = s
  /\ due' = TRUE
  /\ UNCHANGED <<pc, files, built, user, live, policies, hosts, proxy, raced>>

\* refreshAndroidTailscaleDNSPolicy, which waits for a Start
Refresh ==
  /\ due
  /\ pc \in {"idle", "running"}
  /\ due' = FALSE
  /\ policies' = IF pc = "running" /\ hosts # {}
                 THEN Replace(policies, hosts, servers) ELSE policies
  /\ UNCHANGED <<pc, files, built, user, live, hosts, proxy, servers, raced>>

\* Start fails: the configuration does not parse, or the TUN listener did not come
\* up.  What the hook cached stays until the hook of the next start.
FailStart ==
  /\ pc \in {"built", "applied"}
  /\ pc' = "idle"
  /\ files' = << >>
  /\ built' = [root |-> Mapping(<< >>), hosts |-> {}]
  /\ user' = Mapping(<< >>)
  /\ live' = {}
  /\ raced' = FALSE
  /\ UNCHANGED <<policies, hosts, proxy, servers, due>>

\* shutdownLocked of a core that runs: clearRuntimeConfigStateLocked.
Stop ==
  /\ pc = "running"
  /\ pc' = "idle"
  /\ policies' = {}
  /\ hosts' = {}
  /\ files' = << >>
  /\ built' = [root |-> Mapping(<< >>), hosts |-> {}]
  /\ user' = Mapping(<< >>)
  /\ live' = {}
  /\ raced' = FALSE
  /\ UNCHANGED <<proxy, servers, due>>

Next ==
  \/ \E b, p, f \in File : Build(<<b, p, f>>)
  \/ \E fetched \in SUBSET Host : Apply(fetched) \/ \E f \in File : Reload(f, fetched)
  \/ EndStart \/ FailStart \/ Stop \/ Refresh
  \/ \E s \in Servers \cup {NoServers} : NetworkInfo(s)

Spec == Init /\ [][Next]_vars

----------------------------------------------------------------------------
(* Properties.                                                             *)

TypeOK ==
  /\ pc \in {"idle", "built", "applied", "running"}
  /\ files \in Seq(File)
  /\ built.hosts \cup live \cup hosts \subseteq Host
  /\ servers \in Servers \cup {NoServers}
  /\ due \in BOOLEAN /\ raced \in BOOLEAN

CONSTANT Path  \* the settings to look at, in any of the files

\* A skipped name below the top is dropped from a mapping that is merged, and kept in
\* one that is copied as a whole: what the files say of it is not defined.
ASSUME PathAssumption ==
  \A path \in Path :
    /\ path \in Seq(STRING) /\ Len(path) \in 1..3
    /\ \A i \in 2..Len(path) : path[i] \notin Skipped

\* What a tree says of the setting at a path: nothing (None), a value, or that
\* there is none, because something on the way is no mapping (Cut).
Cut == [kind |-> "cut", of |-> "cut"]
Below(n, k) == IF IsMapping(n) THEN Find(n, k) ELSE IF n.kind = "none" THEN None ELSE Cut
Walk(root, path) ==
  LET one == Below(root, path[1])
      two == Below(one, path[2])
  IN  IF Len(path) = 1 THEN one ELSE IF Len(path) = 2 THEN two ELSE Below(two, path[3])

Unset(n)   == n.kind \in {"none", "cut"}
Same(x, y) == x.kind = y.kind /\ (IsMapping(x) \/ x.of = y.of)
Alike(x, y) == (Unset(x) /\ Unset(y)) \/ Same(x, y)

\* What a patch says of it; patches say nothing of the skipped sections.
Patches(f, path) ==
  IF Content[f].state # "ok" \/ path[1] \in Skipped THEN None ELSE Walk(Content[f].root, path)

\* What the files say together: the last one that says anything decides.
Decided(fs, path) ==
  LET final == Patches(fs[3], path)
      patch == Patches(fs[2], path)
  IN  IF final.kind # "none" THEN final
      ELSE IF patch.kind # "none" THEN patch ELSE Walk(Content[fs[1]].root, path)

Forced(path) ==
  \/ path[1] = "tun" /\ Len(path) > 1 /\ path[2] \in DOMAIN ForcedTun
  \/ path[1] = "dns" /\ Len(path) > 1 /\ path[2] \in DOMAIN ForcedDNS

DefaultPaths == {<<"tun", k>> : k \in {"stack", "dns-hijack", "inet6-address"}}
Injected     == {<<"dns", "nameserver-policy", h>> : h \in built.hosts}
Sections     == {<<"tun">>, <<"dns">>, <<"dns", "nameserver-policy">>}

\* The built configuration has every setting the user's files decide, the later
\* file before the earlier one and any of them before the service's defaults,
\* except those the tunnel forces and a section that is no mapping, and it has no
\* other setting than the user's, the tunnel's and the injected policies.
UsersSettingsSurvive ==
  pc = "built" =>
    \A path \in Path :
      LET said  == Decided(files, path)
          found == Walk(built.root, path)
      IN  \/ Alike(found, said)
          \/ Forced(path)
          \/ Unset(said) /\ path \in DefaultPaths \cup Injected
          \/ path \in Sections /\ IsMapping(found)

\* "dns.nameserver-policy already covers it": builds, hooks and any series of
\* network changes leave the user's own policies as they are, and what they add is
\* a physical policy of a host that the next refresh replaces.  Only a reload
\* during a start can cost a policy for a host of that start, which stays tracked
\* although the reloaded configuration covers it.
UsersPoliciesKept ==
  pc \in {"applied", "running"} =>
    /\ \A p \in Parsed(user) : p \in policies \/ (raced /\ p.pattern \in built.hosts)
    /\ \A p \in policies \ Parsed(user) :
         /\ p.servers \in Servers
         /\ p.pattern \in hosts \/ (pc = "applied" /\ p.pattern \in built.hosts)

\* Once no refresh is due, a control host of the live configuration that no policy
\* of the user's covers has the physical policy of the servers notified last and no
\* other, and none without servers; another host has that one or none, as the last
\* start injected it or not.
PhysicalPolicies ==
  (pc = "running" /\ ~due) =>
    \A h \in Host :
      LET mine    == {p \in policies \ Parsed(user) : p.pattern = h}
          current == IF servers = NoServers THEN {}
                     ELSE {[pattern |-> h, servers |-> servers]}
          needed  == h \in Uncovered(live, Parsed(user))
      IN  mine = current \/ (~needed /\ mine = {})

\* The settings of the local proxy are spelled so that scalarBool, scalarInt and
\* scalarString read what YAML says: not "True", "0x1ed2" or "~".
PlainlySpelled(root) ==
  /\ Text(root, "allow-lan") \in {"", "true", "false"}
  /\ \A k \in {"mixed-port", "port"} : Text(root, k) \in Decimal \cup {""}
  /\ Text(root, "bind-address") \notin YamlNull \ {""}

\* Both computations of the local proxy agree where the settings are plainly
\* spelled: the hook of a start, which has the parsed configuration and Mihomo's
\* defaults, keeps the proxy the build found in the YAML tree.  With another spelling
\* they may differ, and the hook moves the proxy to where Mihomo listens.
HookKeepsProxy ==
  [][(pc = "built" /\ pc' = "applied" /\ PlainlySpelled(built.root)) => proxy' = proxy]_vars
=============================================================================
