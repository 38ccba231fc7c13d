------------------------- MODULE RuntimeConfigProofs -------------------------
(* RuntimeConfig, for any files, any way to merge them, any control hosts   *)
(* and lists of servers: the user's policies survive, the control hosts     *)
(* have the physical policies they need, and the two computations of the    *)
(* local proxy agree where its settings are plainly spelled.                *)
EXTENDS RuntimeConfig, TLAPS

----------------------------------------------------------------------------
(* Trees.                                                                  *)

LEMMA Overlaid ==
  ASSUME NEW f, NEW g
  PROVE  /\ DOMAIN Over(f, g) = DOMAIN f \cup DOMAIN g
         /\ \A k \in DOMAIN f : Over(f, g)[k] = f[k]
         /\ \A k \in DOMAIN g \ DOMAIN f : Over(f, g)[k] = g[k]
BY DEF Over

\* A node that is set is found; the others stay.
LEMMA FindSet ==
  ASSUME NEW m, NEW k, NEW v
  PROVE  /\ Find(Set(m, k, v), k) = v
         /\ \A j : j # k => Find(Set(m, k, v), j) = Find(m, j)
<1> DEFINE f == Over([j \in {k} |-> v], m.of)
<1>1. Set(m, k, v).of = f
      BY DEF Set, Mapping
<1>2. DOMAIN f = {k} \cup DOMAIN m.of /\ f[k] = v /\ \A j \in DOMAIN m.of : j # k => f[j] = m.of[j]
      BY DEF Over
<1> HIDE DEF f
<1>3. QED BY <1>1, <1>2 DEF Find

LEMMA SectionSet ==
  ASSUME NEW m, NEW k, NEW v, IsMapping(v)
  PROVE  /\ Section(Set(m, k, v), k) = v
         /\ \A j : j # k => Section(Set(m, k, v), j) = Section(m, j)
BY FindSet DEF Section

\* The entries of a policy.
EntriesOf(policy) ==
  UNION {{[pattern |-> p, servers |-> policy[k].of] : p \in ToSet(Split[k])} :
           k \in DOMAIN policy}

LEMMA EntryOf ==
  ASSUME NEW policy
  PROVE  \A e : e \in EntriesOf(policy) <=>
           \E k \in DOMAIN policy : \E p \in ToSet(Split[k]) :
             e = [pattern |-> p, servers |-> policy[k].of]
BY DEF EntriesOf

LEMMA OwnPattern == \A h \in Host : ToSet(Split[h]) = {h} /\ Covers[h] = {h} /\ h \notin Matchers
<1>1. \A h : ToSet(<<h>>) = {h}
      BY DEF ToSet
<1>2. QED BY <1>1, ConfigAssumption

Physical(hs, s) == IF s = NoServers THEN {} ELSE {[pattern |-> h, servers |-> s] : h \in hs}

\* Injected hosts are in no entry of the user's.
LEMMA InjectedEntries ==
  ASSUME NEW policy, NEW hs \in SUBSET Host, NEW s, s # NoServers,
         \A h \in hs : ~HasPolicyFor(Mapping(policy), h)
  PROVE  /\ \A e \in EntriesOf(policy) : e.pattern \notin hs
         /\ EntriesOf(Over([h \in hs |-> Scalar(s)], policy)) = EntriesOf(policy) \cup Physical(hs, s)
<1> DEFINE added == [h \in hs |-> Scalar(s)]
           both  == Over(added, policy)
<1>1. \A h \in hs : \A k \in DOMAIN policy : h \notin ToSet(Split[k])
      BY OwnPattern DEF HasPolicyFor, Mapping
<1>2. \A h \in hs : h \notin DOMAIN policy
      BY <1>1, OwnPattern
<1>3. /\ DOMAIN both = hs \cup DOMAIN policy
      /\ \A h \in hs : both[h].of = s
      /\ \A k \in DOMAIN policy : both[k] = policy[k]
  <2>1. DOMAIN added = hs /\ \A h \in hs : added[h] = Scalar(s)
        OBVIOUS
  <2>2. Scalar(s).of = s
        BY DEF Scalar
  <2> HIDE DEF added
  <2>3. /\ DOMAIN both = DOMAIN added \cup DOMAIN policy
        /\ \A k \in DOMAIN added : both[k] = added[k]
        /\ \A k \in DOMAIN policy \ DOMAIN added : both[k] = policy[k]
        BY Overlaid
  <2>4. \A h \in hs : both[h].of = s
        BY <2>1, <2>2, <2>3
  <2>5. \A k \in DOMAIN policy : both[k] = policy[k]
        BY <1>2, <2>1, <2>3
  <2>6. QED BY <2>1, <2>3, <2>4, <2>5
<1> HIDE DEF both
<1>4. \A e \in EntriesOf(policy) : e.pattern \notin hs
      BY <1>1, EntryOf
<1>5. \A e \in EntriesOf(policy) : e \in EntriesOf(both)
      BY <1>3, EntryOf
<1>6. \A e \in Physical(hs, s) : e \in EntriesOf(both)
      BY <1>3, EntryOf, OwnPattern DEF Physical
<1>7. ASSUME NEW e \in EntriesOf(both) PROVE e \in EntriesOf(policy) \cup Physical(hs, s)
  <2>1. PICK k \in DOMAIN both : \E p \in ToSet(Split[k]) :
               e = [pattern |-> p, servers |-> both[k].of]
        BY EntryOf
  <2>2. CASE k \in hs
        BY <1>3, <2>1, <2>2, OwnPattern DEF Physical
  <2>3. CASE k \in DOMAIN policy
        BY <1>3, <2>1, <2>3, EntryOf
  <2>4. QED BY <1>3, <2>2, <2>3
<1>8. EntriesOf(both) = EntriesOf(policy) \cup Physical(hs, s)
      BY <1>5, <1>6, <1>7
<1>9. QED BY <1>4, <1>8 DEF both

\* What the build makes of the user's policies: it adds a physical one for each host
\* that they do not cover, when there are servers.
LEMMA BuildPolicies ==
  ASSUME NEW root
  PROVE  LET b == BuildOf(root)
         IN  /\ b = [root |-> b.root, hosts |-> b.hosts] /\ b.hosts \subseteq Host
             /\ \A p \in Parsed(root) : p.pattern \notin b.hosts
             /\ Parsed(b.root) = Parsed(root) \cup Physical(b.hosts, servers)
<1> DEFINE np     == "nameserver-policy"
           tunned == Set(root, "tun", BuiltTun(root))
           d      == Section(root, "dns")
           dns    == Mapping(Over(ForcedDNS, Section(tunned, "dns").of))
           p      == Section(d, np).of
           inj    == InjectPolicy(tunned, dns)
           b      == BuildOf(root)
<1>1. b = [root |-> Set(tunned, "dns", inj.dns), hosts |-> inj.hosts]
      BY DEF BuildOf
<1>2. Section(tunned, "dns") = d
  <2>1. IsMapping(BuiltTun(root)) /\ "dns" # "tun"
        BY DEF BuiltTun, IsMapping, Mapping
  <2>2. QED BY <2>1, SectionSet
<1>3. Find(dns, np) = Find(d, np) /\ IsMapping(dns)
  <2>1. DOMAIN ForcedDNS = {"fake-ip-range"}
        BY DEF ForcedDNS
  <2>2. dns.of = Over(ForcedDNS, d.of) /\ IsMapping(dns)
        BY <1>2 DEF Mapping, IsMapping
  <2>3. /\ np \in DOMAIN dns.of <=> np \in DOMAIN d.of
        /\ np \in DOMAIN d.of => dns.of[np] = d.of[np]
    <3>1. /\ DOMAIN dns.of = DOMAIN ForcedDNS \cup DOMAIN d.of
          /\ \A k \in DOMAIN d.of \ DOMAIN ForcedDNS : dns.of[k] = d.of[k]
      <4> DEFINE o == Over(ForcedDNS, d.of)
      <4>1. /\ DOMAIN o = DOMAIN ForcedDNS \cup DOMAIN d.of
            /\ \A k \in DOMAIN d.of \ DOMAIN ForcedDNS : o[k] = d.of[k]
            BY Overlaid
      <4>2. dns.of = o
            BY <2>2
      <4> HIDE DEF dns, d, o
      <4>3. QED BY <4>1, <4>2
    <3>2. np \notin DOMAIN ForcedDNS
          BY <2>1
    <3>3. QED BY <3>1, <3>2
  <2>4. QED BY <2>2, <2>3 DEF Find
<1>4. Section(dns, np).of = p
      BY <1>3 DEF Section
<1>5. Parsed(root) = EntriesOf(p)
      BY DEF Parsed, EntriesOf
<1> DEFINE found == IF Find(dns, np).kind \in {"none", "mapping"}
                    THEN {h \in ControlHosts(tunned) : ~HasPolicyFor(Section(dns, np), h)}
                    ELSE {}
<1>6. /\ inj.hosts = found
      /\ inj.dns = IF servers = NoServers \/ found = {} THEN dns
                   ELSE Set(dns, np, Mapping(Over([h \in found |-> Scalar(servers)], p)))
      BY <1>4 DEF InjectPolicy
<1>7. found \subseteq Host
      BY DEF ControlHosts
<1>8. \A h \in found : ~HasPolicyFor(Mapping(p), h)
      BY <1>4 DEF HasPolicyFor, Mapping
<1> HIDE DEF found, inj, dns, tunned, p, d
<1>9. \A e \in EntriesOf(p) : e.pattern \notin found
  <2>1. \A h \in found : \A k \in DOMAIN p : h \notin ToSet(Split[k])
        BY <1>7, <1>8, OwnPattern DEF HasPolicyFor, Mapping
  <2>2. QED BY <2>1, EntryOf
<1>10. IsMapping(inj.dns)
       BY <1>3, <1>6 DEF Set, IsMapping, Mapping
<1>11. Parsed(b.root) = EntriesOf(Section(inj.dns, np).of)
  <2>1. Section(b.root, "dns") = inj.dns
        BY <1>1, <1>10, SectionSet
  <2>2. QED BY <2>1 DEF Parsed, EntriesOf
<1>12. CASE servers = NoServers \/ found = {}
  <2>1. Physical(found, servers) = {}
        BY <1>12 DEF Physical
  <2>2. QED BY <1>1, <1>4, <1>5, <1>6, <1>7, <1>9, <1>11, <1>12, <2>1
<1>13. CASE ~(servers = NoServers \/ found = {})
  <2>1. Section(inj.dns, np).of = Over([h \in found |-> Scalar(servers)], p)
        BY <1>6, <1>13, SectionSet DEF IsMapping, Mapping
  <2>2. EntriesOf(Section(inj.dns, np).of) = EntriesOf(p) \cup Physical(found, servers)
    <3>1. found \in SUBSET Host /\ servers # NoServers
          BY <1>7, <1>13
    <3>2. EntriesOf(Over([h \in found |-> Scalar(servers)], p)) =
            EntriesOf(p) \cup Physical(found, servers)
          BY <1>8, <3>1, InjectedEntries
    <3>3. QED BY <2>1, <3>2
  <2>3. QED BY <1>1, <1>5, <1>6, <1>7, <1>9, <1>11, <2>2
<1>14. QED BY <1>12, <1>13

----------------------------------------------------------------------------
(* The inductive invariant.                                                *)

Own == Parsed(user)

ConfigTyping == TypeOK /\ built = [root |-> built.root, hosts |-> built.hosts]

\* The build has added to the user's policies what the servers of that moment ask
\* for, which are still the present ones unless a refresh is due.
Built ==
  pc = "built" =>
    /\ proxy = ProxyOfRoot(built.root)
    /\ \A p \in Parsed(MergedRoot(files)) : p.pattern \notin built.hosts
    /\ \E s \in Servers \cup {NoServers} :
         /\ ~due => s = servers
         /\ Parsed(built.root) = Parsed(MergedRoot(files)) \cup Physical(built.hosts, s)

\* The hosts a refresh replaces, those that the end of the start will add included.
Tracked == hosts \cup IF pc = "applied" THEN built.hosts ELSE {}

Live == pc \in {"applied", "running"}

\* The user's policies are there and are nobody else's, and the others are physical.
Policies ==
  Live =>
    /\ \A p \in Own :
         /\ p \in policies \/ (raced /\ p.pattern \in built.hosts)
         /\ p.pattern \in Tracked => raced /\ p.pattern \in built.hosts
         /\ p.pattern \in hosts => pc = "running"
    /\ \A p \in policies \ Own :
         /\ p = [pattern |-> p.pattern, servers |-> p.servers]
         /\ p.servers \in Servers
         /\ p.pattern \in Tracked

\* Who needs a policy is tracked, and has the present one once no refresh is due.
Needs ==
  Live =>
    /\ \A h \in Uncovered(live, Own) : h \in Tracked
    /\ ~due =>
         /\ \A p \in policies \ Own : p.servers = servers
         /\ servers # NoServers =>
              \A h \in Uncovered(live, Own) : [pattern |-> h, servers |-> servers] \in policies

ConfigInv == ConfigTyping /\ Built /\ Policies /\ Needs

LEMMA ConfigInit == Init => ConfigInv
<1> SUFFICES ASSUME Init PROVE ConfigInv
    OBVIOUS
<1>1. pc = "idle" /\ ~(pc = "built") /\ ~Live
      BY DEF Init, Live
<1>2. Built /\ Policies /\ Needs
      BY <1>1 DEF Built, Policies, Needs
<1>3. << >> \in Seq(File)
      OBVIOUS
<1>4. /\ files = << >> /\ live = {} /\ hosts = {} /\ servers = NoServers
      /\ due = FALSE /\ raced = FALSE
      BY DEF Init
<1>5. built.hosts = {} /\ built = [root |-> built.root, hosts |-> built.hosts]
      BY DEF Init
<1>6. built.hosts \cup live \cup hosts \subseteq Host
      BY <1>4, <1>5
<1>7. TypeOK
      BY <1>1, <1>3, <1>4, <1>6 DEF TypeOK
<1>8. QED BY <1>2, <1>5, <1>7 DEF ConfigInv, ConfigTyping

LEMMA BuildStep ==
  ASSUME ConfigInv, NEW fs \in Seq(File), Build(fs)
  PROVE  ConfigInv'
<1>1. /\ pc' = "built" /\ files' = fs /\ built' = BuildOf(MergedRoot(fs))
      /\ proxy' = ProxyOfRoot(built'.root) /\ raced' = FALSE
      /\ UNCHANGED <<user, live, policies, hosts, servers, due>>
      BY DEF Build
<1>2. /\ built' = [root |-> built'.root, hosts |-> built'.hosts] /\ built'.hosts \subseteq Host
      /\ \A p \in Parsed(MergedRoot(fs)) : p.pattern \notin built'.hosts
      /\ Parsed(built'.root) = Parsed(MergedRoot(fs)) \cup Physical(built'.hosts, servers)
      BY <1>1, BuildPolicies
<1>3. ConfigTyping'
      BY <1>1, <1>2 DEF ConfigInv, ConfigTyping, TypeOK
<1>4. Built'
  <2>1. servers \in Servers \cup {NoServers}
        BY DEF ConfigInv, ConfigTyping, TypeOK
  <2>2. QED BY <1>1, <1>2, <2>1 DEF Built
<1>5. Policies' /\ Needs'
      BY <1>1 DEF Policies, Needs, Live
<1>6. QED BY <1>3, <1>4, <1>5 DEF ConfigInv

\* A set of policies in which those of some hosts were replaced.
LEMMA Replaced ==
  ASSUME NEW ps, NEW hs, NEW s, NEW new, new = Replace(ps, hs, s)
  PROVE  /\ \A p \in ps : p.pattern \notin hs => p \in new
         /\ \A p \in new : \/ p \in ps /\ p.pattern \notin hs
                           \/ /\ s # NoServers /\ p = [pattern |-> p.pattern, servers |-> s]
                              /\ p.servers = s /\ p.pattern \in hs
         /\ s # NoServers => \A h \in hs : [pattern |-> h, servers |-> s] \in new
BY DEF Replace

\* The hook keeps the policies of the configuration it syncs with, and adds the
\* present ones of the hosts these do not cover.
LEMMA Synced ==
  ASSUME ConfigTyping, NEW root, NEW fetched \in SUBSET Host, Sync(root, fetched)
  PROVE  /\ live' \subseteq Host /\ hosts' \subseteq live'
         /\ \A p \in Parsed(root) : p \in policies' /\ p.pattern \notin hosts'
         /\ \A p \in policies' : \/ p \in Parsed(root)
                                 \/ /\ p = [pattern |-> p.pattern, servers |-> p.servers]
                                    /\ p.servers = servers /\ p.servers \in Servers
                                    /\ p.pattern \in hosts'
         /\ \A h \in live' : h \in hosts' \/ \E p \in Parsed(root) : h \in Covers[p.pattern]
         /\ servers # NoServers =>
              \A h \in hosts' : [pattern |-> h, servers |-> servers] \in policies'
<1> DEFINE R == Parsed(root)
<1>1. live' \subseteq Host
      BY DEF Sync, LiveHosts, ControlHosts
<1>2. hosts' = Uncovered(live', R)
      BY DEF Sync
<1>3. policies' = IF servers = NoServers THEN R ELSE Replace(R, hosts', servers)
      BY DEF Sync
<1> HIDE DEF R
<1>4. hosts' \subseteq live' /\ \A h \in live' : h \in hosts' \/ \E p \in R : h \in Covers[p.pattern]
      BY <1>2 DEF Uncovered
<1>5. \A p \in R : p.pattern \notin hosts'
      BY <1>1, <1>2, OwnPattern DEF Uncovered
<1>6. servers # NoServers => servers \in Servers
      BY DEF ConfigTyping, TypeOK
<1>7. CASE servers = NoServers
      BY <1>1, <1>3, <1>4, <1>5, <1>7 DEF R
<1>8. CASE servers # NoServers
  <2>1. policies' = Replace(R, hosts', servers)
        BY <1>3, <1>8
  <2>2. QED BY <1>1, <1>4, <1>5, <1>6, <1>8, <2>1, Replaced DEF R
<1>9. QED BY <1>7, <1>8

LEMMA ApplyStep ==
  ASSUME ConfigInv, NEW fetched \in SUBSET Host, Apply(fetched)
  PROVE  ConfigInv'
<1> DEFINE R == Parsed(built.root)
<1>1. /\ pc = "built" /\ pc' = "applied" /\ user' = MergedRoot(files)
      /\ UNCHANGED <<files, built, servers, due, raced>> /\ Sync(built.root, fetched)
      BY DEF Apply
<1>2. PICK s \in Servers \cup {NoServers} :
        /\ ~due => s = servers
        /\ R = Own' \cup Physical(built.hosts, s)
      BY <1>1 DEF ConfigInv, Built, Own
<1>3. \A p \in Own' : p.pattern \notin built.hosts
      BY <1>1 DEF ConfigInv, Built, Own
<1>4. ConfigTyping /\ built.hosts \subseteq Host
      BY DEF ConfigInv, ConfigTyping, TypeOK
<1> HIDE DEF R
<1>5. /\ live' \subseteq Host /\ hosts' \subseteq live'
      /\ \A p \in R : p \in policies' /\ p.pattern \notin hosts'
      /\ \A p \in policies' : \/ p \in R
                              \/ /\ p = [pattern |-> p.pattern, servers |-> p.servers]
                                 /\ p.servers = servers /\ p.servers \in Servers
                                 /\ p.pattern \in hosts'
      /\ \A h \in live' : h \in hosts' \/ \E p \in R : h \in Covers[p.pattern]
      /\ servers # NoServers =>
           \A h \in hosts' : [pattern |-> h, servers |-> servers] \in policies'
      BY <1>1, <1>4, Synced DEF R
<1>6. \A p \in R : \/ p \in Own'
                   \/ /\ p = [pattern |-> p.pattern, servers |-> p.servers]
                      /\ s # NoServers /\ p.servers = s /\ p.servers \in Servers
                      /\ p.pattern \in built.hosts
      BY <1>2 DEF Physical
<1>7. Tracked' = hosts' \cup built.hosts
      BY <1>1 DEF Tracked
<1>8. ConfigTyping'
      BY <1>1, <1>4, <1>5 DEF ConfigTyping, TypeOK
<1>9. Built'
      BY <1>1 DEF Built
<1>10. Policies'
  <2>1. \A p \in Own' : p \in policies' /\ p.pattern \notin hosts'
        BY <1>2, <1>5
  <2>2. \A p \in policies' \ Own' :
          /\ p = [pattern |-> p.pattern, servers |-> p.servers]
          /\ p.servers \in Servers /\ p.pattern \in Tracked'
        BY <1>5, <1>6, <1>7
  <2>3. QED BY <1>3, <1>7, <2>1, <2>2 DEF Policies
<1>11. Needs'
  <2>1. ASSUME NEW h \in Uncovered(live', Own')
        PROVE  \/ h \in hosts'
               \/ /\ h \in built.hosts
                  /\ s # NoServers => [pattern |-> h, servers |-> s] \in R
    <3>1. h \in live' /\ \A p \in Own' : h \notin Covers[p.pattern]
          BY DEF Uncovered
    <3>2. ASSUME NEW p \in R, h \in Covers[p.pattern]
          PROVE  h = p.pattern /\ p \notin Own'
          BY <1>4, <1>6, <3>1, <3>2, OwnPattern
    <3>3. QED BY <1>5, <1>6, <3>1, <3>2
  <2>2. \A h \in Uncovered(live', Own') : h \in Tracked'
        BY <1>7, <2>1
  <2>3. ASSUME ~due
        PROVE  /\ \A p \in policies' \ Own' : p.servers = servers
               /\ servers # NoServers =>
                    \A h \in Uncovered(live', Own') :
                      [pattern |-> h, servers |-> servers] \in policies'
        BY <1>2, <1>5, <1>6, <2>1, <2>3
  <2>4. QED BY <1>1, <2>2, <2>3 DEF Needs
<1>12. QED BY <1>8, <1>9, <1>10, <1>11 DEF ConfigInv

LEMMA ReloadStep ==
  ASSUME ConfigInv, NEW f \in File, NEW fetched \in SUBSET Host, Reload(f, fetched)
  PROVE  ConfigInv'
<1>1. /\ pc \in {"applied", "running"} /\ user' = Content[f].root
      /\ Sync(Content[f].root, fetched) /\ raced' = (raced \/ pc = "applied")
      /\ UNCHANGED <<pc, files, built, servers, due>>
      BY DEF Reload
<1>2. ConfigTyping /\ Own' = Parsed(Content[f].root)
      BY <1>1 DEF ConfigInv, Own
<1>3. /\ live' \subseteq Host /\ hosts' \subseteq live'
      /\ \A p \in Own' : p \in policies' /\ p.pattern \notin hosts'
      /\ \A p \in policies' : \/ p \in Own'
                              \/ /\ p = [pattern |-> p.pattern, servers |-> p.servers]
                                 /\ p.servers = servers /\ p.servers \in Servers
                                 /\ p.pattern \in hosts'
      /\ \A h \in live' : h \in hosts' \/ \E p \in Own' : h \in Covers[p.pattern]
      /\ servers # NoServers =>
           \A h \in hosts' : [pattern |-> h, servers |-> servers] \in policies'
      BY <1>1, <1>2, Synced
<1>4. ConfigTyping'
      BY <1>1, <1>2, <1>3 DEF ConfigTyping, TypeOK
<1>5. Built'
      BY <1>1 DEF Built
<1>6. Tracked' = hosts' \cup IF pc = "applied" THEN built.hosts ELSE {}
      BY <1>1 DEF Tracked
<1>7. Policies'
  <2>1. \A p \in Own' : p.pattern \in Tracked' => raced' /\ p.pattern \in built.hosts
        BY <1>1, <1>3, <1>6
  <2>2. QED BY <1>1, <1>3, <1>6, <2>1 DEF Policies
<1>8. Needs'
  <2>1. \A h \in Uncovered(live', Own') : h \in hosts'
        BY <1>3 DEF Uncovered
  <2>2. QED BY <1>1, <1>3, <1>6, <2>1 DEF Needs
<1>9. QED BY <1>4, <1>5, <1>7, <1>8 DEF ConfigInv

LEMMA EndStartStep == ASSUME ConfigInv, EndStart PROVE ConfigInv'
<1>1. /\ pc = "applied" /\ pc' = "running" /\ hosts' = hosts \cup built.hosts
      /\ files' = << >> /\ built' = [built EXCEPT !.root = Mapping(<< >>)]
      /\ UNCHANGED <<user, live, policies, servers, due, raced>>
      BY DEF EndStart, MergeHosts
<1>2. built' = [root |-> built'.root, hosts |-> built.hosts]
      BY <1>1 DEF ConfigInv, ConfigTyping
<1>3. built'.hosts = built.hosts
      BY <1>2
<1>4. ConfigTyping'
  <2>1. files' \in Seq(File)
        BY <1>1
  <2>2. QED BY <1>1, <1>2, <1>3, <2>1 DEF ConfigInv, ConfigTyping, TypeOK
<1>5. Tracked' = Tracked /\ Own' = Own
      BY <1>1 DEF Tracked, Own
<1>6. Built'
      BY <1>1 DEF Built
<1>7. Policies'
      BY <1>1, <1>3, <1>5 DEF ConfigInv, Policies, Live
<1>8. Needs'
      BY <1>1, <1>5 DEF ConfigInv, Needs, Live
<1>9. QED BY <1>4, <1>6, <1>7, <1>8 DEF ConfigInv

LEMMA NetworkInfoStep ==
  ASSUME ConfigInv, NEW s \in Servers \cup {NoServers}, NetworkInfo(s)
  PROVE  ConfigInv'
<1>1. /\ servers' = s /\ due' = TRUE
      /\ UNCHANGED <<pc, files, built, user, live, policies, hosts, proxy, raced>>
      BY DEF NetworkInfo
<1>2. ConfigTyping'
      BY <1>1 DEF ConfigInv, ConfigTyping, TypeOK
<1>3. Built'
      BY <1>1 DEF ConfigInv, Built
<1>4. Tracked' = Tracked /\ Own' = Own
      BY <1>1 DEF Tracked, Own
<1>5. Policies'
      BY <1>1, <1>4 DEF ConfigInv, Policies, Live
<1>6. Needs'
      BY <1>1, <1>4 DEF ConfigInv, Needs, Live
<1>7. QED BY <1>2, <1>3, <1>5, <1>6 DEF ConfigInv

LEMMA RefreshStep == ASSUME ConfigInv, Refresh PROVE ConfigInv'
<1>1. /\ pc \in {"idle", "running"} /\ due' = FALSE
      /\ policies' = IF pc = "running" /\ hosts # {}
                     THEN Replace(policies, hosts, servers) ELSE policies
      /\ UNCHANGED <<pc, files, built, user, live, hosts, proxy, servers, raced>>
      BY DEF Refresh
<1>2. ConfigTyping'
      BY <1>1 DEF ConfigInv, ConfigTyping, TypeOK
<1>3. Built'
      BY <1>1 DEF Built
<1>4. Tracked' = Tracked /\ Own' = Own
      BY <1>1 DEF Tracked, Own
<1>5. CASE pc = "idle"
      BY <1>1, <1>2, <1>3, <1>5 DEF ConfigInv, Policies, Needs, Live
<1>6. CASE pc = "running"
  <2>1. Tracked = hosts
        BY <1>6 DEF Tracked
  <2>2. /\ \A p \in policies : p.pattern \notin hosts => p \in policies'
        /\ \A p \in policies' :
             \/ p \in policies /\ p.pattern \notin hosts
             \/ /\ servers # NoServers /\ p = [pattern |-> p.pattern, servers |-> servers]
                /\ p.servers = servers /\ p.pattern \in hosts
        /\ servers # NoServers =>
             \A h \in hosts : [pattern |-> h, servers |-> servers] \in policies'
    <3>1. CASE hosts = {}
          BY <1>1, <3>1
    <3>2. CASE hosts # {}
          BY <1>1, <1>6, <3>2, Replaced
    <3>3. QED BY <3>1, <3>2
  <2>3. servers # NoServers => servers \in Servers
        BY DEF ConfigInv, ConfigTyping, TypeOK
  <2>4. \A p \in policies' \ Own :
          /\ p = [pattern |-> p.pattern, servers |-> p.servers]
          /\ p.servers = servers /\ p.servers \in Servers /\ p.pattern \in hosts
    <3>1. \A p \in policies : p.pattern \notin hosts => p \in Own
          BY <1>6, <2>1 DEF ConfigInv, Policies, Live
    <3>2. QED BY <2>2, <2>3, <3>1
  <2>5. Policies'
    <3>1. \A p \in Own :
            /\ p \in policies' \/ (raced /\ p.pattern \in built.hosts)
            /\ p.pattern \in hosts => raced /\ p.pattern \in built.hosts
          BY <1>6, <2>1, <2>2 DEF ConfigInv, Policies, Live
    <3>2. QED BY <1>1, <1>4, <1>6, <2>1, <2>4, <3>1 DEF Policies
  <2>6. Needs'
    <3>1. \A h \in Uncovered(live, Own) : h \in hosts
          BY <1>6, <2>1 DEF ConfigInv, Needs, Live
    <3>2. QED BY <1>1, <1>4, <2>1, <2>2, <2>4, <3>1 DEF Needs
  <2>7. QED BY <1>2, <1>3, <2>5, <2>6 DEF ConfigInv
<1>7. QED BY <1>1, <1>5, <1>6

LEMMA StopStep == ASSUME ConfigInv, Stop \/ FailStart PROVE ConfigInv'
<1>1. /\ pc' = "idle" /\ hosts' \subseteq hosts /\ live' = {} /\ files' = << >>
      /\ raced' = FALSE /\ built' = [root |-> Mapping(<< >>), hosts |-> {}]
      /\ UNCHANGED <<servers, due>>
      BY DEF Stop, FailStart
<1>2. files' \in Seq(File)
      BY <1>1
<1>3. ConfigTyping'
      BY <1>1, <1>2 DEF ConfigInv, ConfigTyping, TypeOK
<1>4. Built' /\ Policies' /\ Needs'
      BY <1>1 DEF Built, Policies, Needs, Live
<1>5. QED BY <1>3, <1>4 DEF ConfigInv

LEMMA ConfigStep == ConfigInv /\ [Next]_vars => ConfigInv'
<1> SUFFICES ASSUME ConfigInv, [Next]_vars PROVE ConfigInv'
    OBVIOUS
<1>1. CASE UNCHANGED vars
      BY <1>1 DEF vars, ConfigInv, ConfigTyping, TypeOK, Built, Policies, Needs, Live,
                  Tracked, Own
<1>2. \A b, p, f \in File : <<b, p, f>> \in Seq(File)
      OBVIOUS
<1>3. ASSUME NEW b \in File, NEW p \in File, NEW f \in File, Build(<<b, p, f>>)
      PROVE  ConfigInv'
      BY <1>2, <1>3, BuildStep
<1>4. QED BY <1>1, <1>3, ApplyStep, ReloadStep, EndStartStep, NetworkInfoStep, RefreshStep,
             StopStep DEF Next

\* What the theorems below rest on: what the build added and what the hook and the
\* refreshes replace are policies of tracked hosts, which the user's do not name.
THEOREM ConfigInvariant == Spec => []ConfigInv
BY ConfigInit, ConfigStep, PTL DEF Spec

\* "dns.nameserver-policy already covers it": builds, hooks and network changes leave
\* the user's own policies as they are, but for those a reload during a start can cost.
THEOREM UsersPoliciesAreKept == Spec => []UsersPoliciesKept
<1>1. ConfigInv => UsersPoliciesKept
      BY DEF ConfigInv, Policies, Live, Tracked, Own, UsersPoliciesKept
<1>2. QED BY <1>1, ConfigInvariant, PTL

\* Once no refresh is due, a control host that the user's policies do not cover has the
\* physical policy of the servers notified last, and no other.
THEOREM PhysicalPoliciesArePresent == Spec => []PhysicalPolicies
<1>1. ConfigInv => PhysicalPolicies
  <2> SUFFICES ASSUME ConfigInv, pc = "running", ~due, NEW h \in Host
               PROVE  LET mine    == {p \in policies \ Own : p.pattern = h}
                          current == IF servers = NoServers THEN {}
                                     ELSE {[pattern |-> h, servers |-> servers]}
                          needed  == h \in Uncovered(live, Own)
                      IN  mine = current \/ (~needed /\ mine = {})
      BY DEF PhysicalPolicies, Own
  <2> DEFINE mine == {p \in policies \ Own : p.pattern = h}
             now  == [pattern |-> h, servers |-> servers]
  <2>1. \A p \in policies \ Own : /\ p = [pattern |-> p.pattern, servers |-> p.servers]
                                  /\ p.servers = servers /\ p.servers \in Servers
        BY DEF ConfigInv, Policies, Needs, Live
  <2>2. \A p \in mine : servers # NoServers /\ p = now
    <3>1. NoServers \notin Servers
          BY ConfigAssumption
    <3>2. QED BY <2>1, <3>1
  <2>3. ASSUME h \in Uncovered(live, Own), servers # NoServers PROVE now \in mine
    <3>1. now \in policies
          BY <2>3 DEF ConfigInv, Needs, Live
    <3>2. now.pattern = h /\ h \in Covers[h]
          BY OwnPattern
    <3>3. now \notin Own
          BY <2>3, <3>2 DEF Uncovered
    <3>4. QED BY <3>1, <3>2, <3>3
  <2> HIDE DEF mine, now
  <2>4. mine = {} \/ (servers # NoServers /\ mine = {now})
        BY <2>2
  <2>5. QED BY <2>3, <2>4 DEF mine, now
<1>2. QED BY <1>1, ConfigInvariant, PTL

\* Plainly spelled settings are read alike: "" is what YAML leaves at its default, and
\* an unset bind address and Mihomo's default mean the same.
LEMMA ProxiesAgree ==
  ASSUME NEW root, PlainlySpelled(root)
  PROVE  ProxyOfGeneral(General(root)) = ProxyOfRoot(root)
<1> DEFINE g    == General(root)
           lan  == Text(root, "allow-lan")
           bind == Text(root, "bind-address")
<1>1. /\ g.allowLan = (lan \in YamlTrue)
      /\ g.bind = IF bind \in YamlNull THEN "*" ELSE bind
      /\ g.mixedPort = YamlInt(root, "mixed-port")
      /\ g.port = YamlInt(root, "port")
      /\ g.records = Scalars(Entries(root, "authentication"))
      BY DEF General
<1>2. g.allowLan = (lan = "true")
  <2>1. lan \in {"", "true", "false"}
        BY DEF PlainlySpelled
  <2>2. "true" \in YamlTrue /\ "false" \notin YamlTrue /\ "" \notin YamlTrue
        BY ConfigAssumption
  <2>3. lan \in YamlTrue <=> lan = "true"
        BY <2>1, <2>2
  <2>4. QED BY <1>1, <2>3
<1>3. g.bind = IF bind = "" THEN "*" ELSE bind
      BY <1>1, ConfigAssumption DEF PlainlySpelled
<1>4. \A k \in {"mixed-port", "port"} : YamlInt(root, k) = Int0(root, k)
  <2>1. \A t \in Decimal \cup {""} :
          (IF t \in DOMAIN YamlNumber THEN YamlNumber[t] ELSE 0) =
            (IF t \in DOMAIN Number THEN Number[t] ELSE 0)
        BY ConfigAssumption
  <2>2. QED BY <2>1 DEF PlainlySpelled, YamlInt, Int0
<1> HIDE DEF g, lan, bind
<1>5. ProxyHost(g.allowLan, g.bind) = ProxyHost(lan = "true", bind)
      BY <1>2, <1>3 DEF ProxyHost
<1>6. QED BY <1>1, <1>4, <1>5 DEF ProxyOfGeneral, ProxyOfRoot, g, lan, bind

\* Where the proxy's settings are plainly spelled, the hook of a start keeps the proxy
\* that the build found in the YAML tree, whatever the rest of the configuration says.
THEOREM ProxyIsKept == Spec => HookKeepsProxy
<1>1. ConfigInv /\ [Next]_vars =>
        [(pc = "built" /\ pc' = "applied" /\ PlainlySpelled(built.root)) => proxy' = proxy]_vars
  <2> SUFFICES ASSUME ConfigInv, Next, pc = "built", pc' = "applied", PlainlySpelled(built.root)
               PROVE  proxy' = proxy
      OBVIOUS
  <2>1. PICK fetched \in SUBSET Host : Apply(fetched)
        BY DEF Next, Build, Reload, EndStart, FailStart, Stop, Refresh, NetworkInfo
  <2>2. proxy' = ProxyOfGeneral(General(built.root))
        BY <2>1 DEF Apply, Sync
  <2>3. QED BY <2>2, ProxiesAgree DEF ConfigInv, Built
<1>2. QED BY <1>1, ConfigInvariant, PTL DEF Spec, HookKeepsProxy

----------------------------------------------------------------------------
(* The settings of the files.                                              *)

\* YAML trees, with what is met below them and by merging them, and a merge of them
\* as mergeMapping does it: key by key, a mapping into a mapping, whatever else in
\* place of what is there.  MergeMapping is one, on all finite trees.
MergesTrees(Tree) ==
  /\ \A t \in Tree :
       /\ t.kind \in {"scalar", "sequence", "mapping"}
       /\ IsMapping(t) => \A k \in DOMAIN t.of : t.of[k] \in Tree
  /\ \A f \in File : Content[f].state = "ok" =>
       Content[f].root \in Tree /\ IsMapping(Content[f].root)
  /\ \A d, p \in Tree : (IsMapping(d) /\ IsMapping(p)) =>
       /\ Merge(d, p) \in Tree
       /\ Merge(d, p) =
            Mapping(Over([k \in DOMAIN p.of \ Skipped |->
                            IF IsMapping(Find(d, k)) /\ IsMapping(p.of[k])
                            THEN Merge(Find(d, k), p.of[k]) ELSE p.of[k]], d.of))

\* The node x of a merged tree against the nodes d and p of the two: nothing to merge,
\* p in place of d, p merged into d, or neither has a setting below a scalar.
Fits(Tree, x, d, p) ==
  \/ p.kind = "none" /\ (x = d \/ (Unset(x) /\ Unset(d)))
  \/ p.kind = "cut" /\ x.kind = "cut"
  \/ p \in Tree /\ x = p /\ ~(IsMapping(d) /\ IsMapping(p))
  \/ p \in Tree /\ d \in Tree /\ IsMapping(d) /\ IsMapping(p) /\ x = Merge(d, p)

\* What is found under a key of a merged mapping.
LEMMA MergedFind ==
  ASSUME NEW Tree, MergesTrees(Tree), NEW d \in Tree, NEW p \in Tree,
         IsMapping(d), IsMapping(p), NEW k
  PROVE  /\ IsMapping(Merge(d, p))
         /\ k \notin DOMAIN p.of \ Skipped => Find(Merge(d, p), k) = Find(d, k)
         /\ k \in DOMAIN p.of \ Skipped =>
              Find(Merge(d, p), k) = IF IsMapping(Find(d, k)) /\ IsMapping(p.of[k])
                                     THEN Merge(Find(d, k), p.of[k]) ELSE p.of[k]
<1> DEFINE f == [j \in DOMAIN p.of \ Skipped |->
                   IF IsMapping(Find(d, j)) /\ IsMapping(p.of[j])
                   THEN Merge(Find(d, j), p.of[j]) ELSE p.of[j]]
           o == Over(f, d.of)
<1>1. Merge(d, p) = Mapping(o)
      BY DEF MergesTrees
<1>2. Merge(d, p).of = o /\ IsMapping(Merge(d, p))
      BY <1>1 DEF Mapping, IsMapping
<1>3. /\ DOMAIN f = DOMAIN p.of \ Skipped
      /\ k \in DOMAIN f => f[k] = IF IsMapping(Find(d, k)) /\ IsMapping(p.of[k])
                                  THEN Merge(Find(d, k), p.of[k]) ELSE p.of[k]
      OBVIOUS
<1> HIDE DEF f
<1>4. /\ DOMAIN o = DOMAIN f \cup DOMAIN d.of
      /\ \A j \in DOMAIN f : o[j] = f[j]
      /\ \A j \in DOMAIN d.of \ DOMAIN f : o[j] = d.of[j]
      BY Overlaid
<1> HIDE DEF o
<1>5. k \in DOMAIN f => Find(Merge(d, p), k) = f[k]
      BY <1>2, <1>4 DEF Find
<1>6. k \notin DOMAIN f => Find(Merge(d, p), k) = Find(d, k)
      BY <1>2, <1>4 DEF Find
<1>7. QED BY <1>2, <1>3, <1>5, <1>6

\* A node below a tree is a tree, or none.
LEMMA FoundBelow ==
  ASSUME NEW Tree, MergesTrees(Tree), NEW t \in Tree, IsMapping(t), NEW k
  PROVE  /\ k \in DOMAIN t.of => Find(t, k) = t.of[k] /\ Find(t, k) \in Tree
         /\ k \notin DOMAIN t.of => Find(t, k) = None
         /\ IsMapping(Find(t, k)) => Find(t, k) \in Tree
BY DEF MergesTrees, Find, None, IsMapping

\* One key further down.
LEMMA FitsBelow ==
  ASSUME NEW Tree, MergesTrees(Tree), NEW x, NEW d, NEW p, Fits(Tree, x, d, p),
         NEW k, k \notin Skipped
  PROVE  Fits(Tree, Below(x, k), Below(d, k), Below(p, k))
<1>0. /\ None.kind = "none" /\ Cut.kind = "cut"
      /\ \A n : n.kind \in {"none", "cut"} => ~IsMapping(n)
      /\ \A n : IsMapping(n) => Below(n, k) = Find(n, k)
      /\ \A n : n.kind = "none" => Below(n, k) = None
      /\ \A n : ~IsMapping(n) => Unset(Below(n, k))
      /\ \A n : (~IsMapping(n) /\ n.kind # "none") => Below(n, k) = Cut
      BY DEF None, Cut, IsMapping, Below, Unset
<1>1. CASE p.kind = "none" /\ x = d
      BY <1>0, <1>1 DEF Fits
<1>2. CASE p.kind = "none" /\ Unset(x) /\ Unset(d)
  <2>1. Unset(Below(x, k)) /\ Unset(Below(d, k)) /\ Below(p, k) = None
        BY <1>0, <1>2 DEF Unset
  <2>2. QED BY <1>0, <2>1 DEF Fits
<1>3. CASE p.kind = "cut" /\ x.kind = "cut"
  <2>1. Below(p, k) = Cut /\ Below(x, k) = Cut
        BY <1>0, <1>3
  <2>2. QED BY <1>0, <2>1 DEF Fits
<1>4. CASE p \in Tree /\ x = p /\ ~(IsMapping(d) /\ IsMapping(p))
  <2>1. CASE ~IsMapping(p)
    <3>1. p.kind # "none"
          BY <1>4 DEF MergesTrees
    <3>2. Below(p, k) = Cut /\ Below(x, k) = Cut
          BY <1>0, <1>4, <2>1, <3>1
    <3>3. QED BY <1>0, <3>2 DEF Fits
  <2>2. CASE IsMapping(p)
    <3>1. ~IsMapping(d) /\ Unset(Below(d, k)) /\ Below(x, k) = Below(p, k) /\ Below(p, k) = Find(p, k)
          BY <1>0, <1>4, <2>2
    <3>2. ~IsMapping(Below(d, k))
          BY <1>0, <3>1 DEF Unset
    <3>3. Find(p, k) \in Tree \/ Find(p, k) = None
          BY <1>4, <2>2, FoundBelow
    <3>4. CASE Find(p, k) \in Tree
          BY <3>1, <3>2, <3>4 DEF Fits
    <3>5. CASE Find(p, k) = None
          BY <1>0, <3>1, <3>5 DEF Fits, Unset
    <3>6. QED BY <3>3, <3>4, <3>5
  <2>3. QED BY <2>1, <2>2
<1>5. CASE p \in Tree /\ d \in Tree /\ IsMapping(d) /\ IsMapping(p) /\ x = Merge(d, p)
  <2>1. /\ Below(x, k) = Find(x, k) /\ Below(d, k) = Find(d, k) /\ Below(p, k) = Find(p, k)
        BY <1>0, <1>5, MergedFind
  <2>2. CASE k \notin DOMAIN p.of
    <3>1. Find(p, k) = None /\ Find(x, k) = Find(d, k)
          BY <1>5, <2>2, MergedFind, FoundBelow
    <3>2. QED BY <1>0, <2>1, <3>1 DEF Fits
  <2>3. CASE k \in DOMAIN p.of
    <3>1. /\ Find(p, k) = p.of[k] /\ Find(p, k) \in Tree
          /\ IsMapping(Find(d, k)) => Find(d, k) \in Tree
          /\ Find(x, k) = IF IsMapping(Find(d, k)) /\ IsMapping(p.of[k])
                          THEN Merge(Find(d, k), p.of[k]) ELSE p.of[k]
          BY <1>5, <2>3, MergedFind, FoundBelow
    <3>2. QED BY <2>1, <3>1 DEF Fits
  <2>4. QED BY <2>2, <2>3
<1>6. QED BY <1>1, <1>2, <1>3, <1>4, <1>5 DEF Fits

\* So the patch decides where it says something, and the other tree elsewhere.
LEMMA FitsDecides ==
  ASSUME NEW Tree, MergesTrees(Tree), NEW x, NEW d, NEW p, Fits(Tree, x, d, p)
  PROVE  Alike(x, IF p.kind # "none" THEN p ELSE d)
<1>1. ASSUME p \in Tree, d \in Tree, IsMapping(d), IsMapping(p), x = Merge(d, p)
      PROVE  IsMapping(x) /\ p.kind # "none"
      BY <1>1, MergedFind DEF IsMapping
<1>2. \A t \in Tree : t.kind # "none"
      BY DEF MergesTrees
<1>3. QED BY <1>1, <1>2 DEF Fits, Alike, Same, Unset, IsMapping

\* The rest of a walk, from the second key on.
Onward(n, path) ==
  IF Len(path) = 1 THEN n
  ELSE IF Len(path) = 2 THEN Below(n, path[2]) ELSE Below(Below(n, path[2]), path[3])

LEMMA Walked == ASSUME NEW root, NEW path
                PROVE  Walk(root, path) = Onward(Below(root, path[1]), path)
BY DEF Walk, Onward

LEMMA KeysOf ==
  ASSUME NEW path \in Path
  PROVE  /\ Len(path) \in {1, 2, 3}
         /\ Len(path) = 1 => path = <<path[1]>>
         /\ Len(path) = 2 => path = <<path[1], path[2]>> /\ path[2] \notin Skipped
         /\ Len(path) = 3 => path = <<path[1], path[2], path[3]>>
                             /\ path[2] \notin Skipped /\ path[3] \notin Skipped
<1>1. path \in Seq(STRING) /\ Len(path) \in 1..3 /\ \A i \in 2..Len(path) : path[i] \notin Skipped
      BY PathAssumption
<1>2. Len(path) \in {1, 2, 3}
      BY <1>1
<1>3. Len(path) = 2 => path[2] \notin Skipped
      BY <1>1
<1>4. Len(path) = 3 => path[2] \notin Skipped /\ path[3] \notin Skipped
      BY <1>1
<1>5. Len(path) = 1 => path = <<path[1]>>
      BY <1>1
<1>6. Len(path) = 2 => path = <<path[1], path[2]>>
      BY <1>1
<1>7. Len(path) = 3 => path = <<path[1], path[2], path[3]>>
      BY <1>1
<1>8. QED BY <1>2, <1>3, <1>4, <1>5, <1>6, <1>7

LEMMA UnsetOnward ==
  ASSUME NEW n, NEW path
  PROVE  /\ Unset(n) => Unset(Onward(n, path))
         /\ (Len(path) # 1 /\ Unset(Below(n, path[2]))) => Unset(Onward(n, path))
<1>1. \A m, k : Unset(m) => Unset(Below(m, k))
      BY DEF Unset, Below, IsMapping, None, Cut
<1>2. QED BY <1>1 DEF Onward

LEMMA FitsOnward ==
  ASSUME NEW Tree, MergesTrees(Tree), NEW x, NEW d, NEW p, Fits(Tree, x, d, p), NEW path \in Path
  PROVE  Fits(Tree, Onward(x, path), Onward(d, path), Onward(p, path))
<1>1. CASE Len(path) = 1
      BY <1>1 DEF Onward
<1>2. CASE Len(path) = 2
  <2>1. path[2] \notin Skipped
        BY <1>2, KeysOf
  <2>2. Fits(Tree, Below(x, path[2]), Below(d, path[2]), Below(p, path[2]))
        BY <2>1, FitsBelow
  <2>3. QED BY <1>2, <2>2 DEF Onward
<1>3. CASE Len(path) = 3
  <2>1. path[2] \notin Skipped /\ path[3] \notin Skipped
        BY <1>3, KeysOf
  <2>2. Fits(Tree, Below(x, path[2]), Below(d, path[2]), Below(p, path[2]))
        BY <2>1, FitsBelow
  <2>3. Fits(Tree, Below(Below(x, path[2]), path[3]), Below(Below(d, path[2]), path[3]),
             Below(Below(p, path[2]), path[3]))
        BY <2>1, <2>2, FitsBelow
  <2>4. QED BY <1>3, <2>3 DEF Onward
<1>4. QED BY <1>1, <1>2, <1>3, KeysOf

\* A patch decides what it says something about, and leaves the rest.
LEMMA PatchedWalk ==
  ASSUME NEW Tree, MergesTrees(Tree), NEW root \in Tree, IsMapping(root),
         NEW f \in File, NEW path \in Path
  PROVE  /\ Patched(root, f) \in Tree /\ IsMapping(Patched(root, f))
         /\ Alike(Walk(Patched(root, f), path),
                  IF Patches(f, path).kind # "none" THEN Patches(f, path) ELSE Walk(root, path))
<1> DEFINE p == Content[f].root
           k == path[1]
<1>1. CASE Content[f].state # "ok"
      BY <1>1 DEF Patched, Patches, None, Alike, Same
<1>2. CASE Content[f].state = "ok"
  <2>1. p \in Tree /\ IsMapping(p) /\ Patched(root, f) = Merge(root, p)
        BY <1>2 DEF MergesTrees, Patched
  <2>2. Merge(root, p) \in Tree /\ IsMapping(Merge(root, p))
        BY <2>1, MergedFind DEF MergesTrees
  <2> HIDE DEF p
  <2>3. CASE k \in Skipped
    <3>1. Find(Merge(root, p), k) = Find(root, k)
          BY <2>1, <2>3, MergedFind
    <3>2. Below(Merge(root, p), k) = Below(root, k)
          BY <2>2, <3>1 DEF Below
    <3>3. Walk(Merge(root, p), path) = Walk(root, path)
          BY <3>2, Walked
    <3>4. Patches(f, path).kind = "none"
          BY <2>3 DEF Patches, None
    <3>5. QED BY <2>1, <2>2, <3>3, <3>4 DEF Alike, Same
  <2>4. CASE k \notin Skipped
    <3>1. Fits(Tree, Merge(root, p), root, p)
          BY <2>1 DEF Fits
    <3>2. Fits(Tree, Below(Merge(root, p), k), Below(root, k), Below(p, k))
          BY <2>4, <3>1, FitsBelow
    <3>3. Fits(Tree, Walk(Merge(root, p), path), Walk(root, path), Walk(p, path))
          BY <3>2, FitsOnward, Walked
    <3>4. Patches(f, path) = Walk(p, path)
          BY <1>2, <2>4 DEF Patches, p
    <3>5. QED BY <2>1, <2>2, <3>3, <3>4, FitsDecides
  <2>5. QED BY <2>3, <2>4
<1>3. QED BY <1>1, <1>2

\* The merged configuration has what the three files decide.
LEMMA MergedDecides ==
  ASSUME NEW Tree, MergesTrees(Tree), NEW b \in File, NEW p \in File, NEW f \in File,
         Content[b].state = "ok", NEW path \in Path
  PROVE  /\ IsMapping(MergedRoot(<<b, p, f>>))
         /\ Alike(Walk(MergedRoot(<<b, p, f>>), path), Decided(<<b, p, f>>, path))
<1> DEFINE base == Content[b].root
           one  == Patched(base, p)
           two  == Patched(one, f)
           pp   == Patches(p, path)
           pf   == Patches(f, path)
<1>1. base \in Tree /\ IsMapping(base)
      BY DEF MergesTrees
<1>2. MergedRoot(<<b, p, f>>) = two
      BY DEF MergedRoot
<1>3. Decided(<<b, p, f>>, path) =
        IF pf.kind # "none" THEN pf ELSE IF pp.kind # "none" THEN pp ELSE Walk(base, path)
      BY DEF Decided
<1> HIDE DEF base, pp, pf
<1>4. /\ one \in Tree /\ IsMapping(one)
      /\ Alike(Walk(one, path), IF pp.kind # "none" THEN pp ELSE Walk(base, path))
      BY <1>1, PatchedWalk DEF pp
<1> HIDE DEF one
<1>5. /\ IsMapping(two)
      /\ Alike(Walk(two, path), IF pf.kind # "none" THEN pf ELSE Walk(one, path))
      BY <1>4, PatchedWalk DEF pf
<1> HIDE DEF two
<1>6. \A x, y, z : Alike(x, y) /\ Alike(y, z) => Alike(x, z)
      BY DEF Alike, Same, Unset, IsMapping
<1>7. QED BY <1>2, <1>3, <1>4, <1>5, <1>6

\* The three parts of what the build returns.
LEMMA BuiltParts ==
  ASSUME NEW root
  PROVE  LET d   == Section(root, "dns")
             dns == Mapping(Over(ForcedDNS, d.of))
             inj == InjectPolicy(Set(root, "tun", BuiltTun(root)), dns)
         IN  /\ BuildOf(root).hosts = inj.hosts /\ IsMapping(BuildOf(root).root)
             /\ Find(BuildOf(root).root, "dns") = inj.dns
             /\ Find(BuildOf(root).root, "tun") = BuiltTun(root)
             /\ \A k : k \notin {"tun", "dns"} => Find(BuildOf(root).root, k) = Find(root, k)
<1> DEFINE tunned == Set(root, "tun", BuiltTun(root))
           dns    == Mapping(Over(ForcedDNS, Section(root, "dns").of))
           inj    == InjectPolicy(tunned, dns)
<1>1. IsMapping(BuiltTun(root)) /\ "dns" # "tun"
      BY DEF BuiltTun, IsMapping, Mapping
<1>2. Section(tunned, "dns") = Section(root, "dns")
      BY <1>1, SectionSet
<1>3. BuildOf(root) = [root |-> Set(tunned, "dns", inj.dns), hosts |-> inj.hosts]
      BY <1>2 DEF BuildOf
<1>4. /\ Find(tunned, "tun") = BuiltTun(root)
      /\ \A k : k # "tun" => Find(tunned, k) = Find(root, k)
      BY FindSet
<1> HIDE DEF tunned, inj
<1>5. /\ Find(Set(tunned, "dns", inj.dns), "dns") = inj.dns
      /\ \A k : k # "dns" => Find(Set(tunned, "dns", inj.dns), k) = Find(tunned, k)
      BY FindSet
<1>6. IsMapping(Set(tunned, "dns", inj.dns))
      BY DEF Set, IsMapping, Mapping
<1>7. QED BY <1>1, <1>3, <1>4, <1>5, <1>6 DEF tunned, inj

\* What is found in a mapping laid over another.
LEMMA FindOver ==
  ASSUME NEW f, NEW g, NEW k
  PROVE  /\ IsMapping(Mapping(Over(f, g)))
         /\ k \in DOMAIN f => Find(Mapping(Over(f, g)), k) = f[k]
         /\ (k \notin DOMAIN f /\ k \in DOMAIN g) => Find(Mapping(Over(f, g)), k) = g[k]
         /\ (k \notin DOMAIN f /\ k \notin DOMAIN g) => Find(Mapping(Over(f, g)), k) = None
<1> DEFINE o == Over(f, g)
<1>1. /\ DOMAIN o = DOMAIN f \cup DOMAIN g
      /\ \A j \in DOMAIN f : o[j] = f[j]
      /\ \A j \in DOMAIN g \ DOMAIN f : o[j] = g[j]
      BY Overlaid
<1> HIDE DEF o
<1>2. Mapping(o).of = o /\ IsMapping(Mapping(o))
      BY DEF Mapping, IsMapping
<1>3. QED BY <1>1, <1>2 DEF Find, o

\* A section that is no mapping becomes an empty one.
LEMMA InSection ==
  ASSUME NEW root, NEW k, NEW j
  PROVE  LET s == Section(root, k).of
         IN  /\ j \in DOMAIN s => Below(Find(root, k), j) = s[j]
             /\ j \notin DOMAIN s => Unset(Below(Find(root, k), j))
<1>1. CASE IsMapping(Find(root, k))
      BY <1>1 DEF Section, Below, Find, Unset, None
<1>2. CASE ~IsMapping(Find(root, k))
  <2>1. Section(root, k).of = << >>
        BY <1>2 DEF Section, Mapping
  <2>2. Unset(Below(Find(root, k), j))
        BY <1>2 DEF Below, Unset, None, Cut
  <2>3. QED BY <2>1, <2>2
<1>3. QED BY <1>1, <1>2

\* What the build leaves of a setting of the merged configuration.
Left(root, b, path) ==
  \/ Alike(Walk(b.root, path), Walk(root, path))
  \/ Forced(path)
  \/ /\ Unset(Walk(root, path))
     /\ path \in DefaultPaths \cup {<<"dns", "nameserver-policy", h>> : h \in b.hosts}
  \/ path \in Sections /\ IsMapping(Walk(b.root, path))

LEMMA LeftAlone ==
  ASSUME NEW root, IsMapping(root), NEW path \in Path, path[1] \notin {"tun", "dns"}
  PROVE  Left(root, BuildOf(root), path)
<1>1. Below(BuildOf(root).root, path[1]) = Below(root, path[1])
      BY BuiltParts DEF Below
<1>2. QED BY <1>1, Walked DEF Left, Alike, Same

LEMMA LeftOfTun ==
  ASSUME NEW root, IsMapping(root), NEW path \in Path, path[1] = "tun"
  PROVE  Left(root, BuildOf(root), path)
<1> DEFINE b == BuildOf(root)
           k == path[2]
           s == Section(root, "tun").of
           t == BuiltTun(root)
           r == Find(root, "tun")
<1>1. Walk(b.root, path) = Onward(t, path) /\ Walk(root, path) = Onward(r, path)
      BY BuiltParts, Walked DEF Below
<1>2. IsMapping(t)
      BY FindOver DEF BuiltTun
<1> HIDE DEF b, k, t, r
<1>3. CASE Len(path) = 1
  <2>1. path = <<"tun">> /\ Onward(t, path) = t
        BY <1>3, KeysOf DEF Onward
  <2>2. QED BY <1>1, <1>2, <2>1 DEF Left, Sections, b
<1>4. CASE Len(path) # 1 /\ k \in DOMAIN ForcedTun
  <2>1. Len(path) > 1
        BY <1>4, KeysOf
  <2>2. QED BY <1>4, <2>1 DEF Left, Forced, k
<1>5. CASE Len(path) # 1 /\ k \notin DOMAIN ForcedTun
  <2> DEFINE o == Over(s, DefaultTun(root))
  <2>1. k \in DOMAIN o => Find(t, k) = o[k]
        BY <1>5, FindOver DEF t, BuiltTun
  <2>2. k \notin DOMAIN o => Find(t, k) = None
        BY <1>5, FindOver DEF t, BuiltTun
  <2>3. /\ DOMAIN o = DOMAIN s \cup DOMAIN DefaultTun(root)
        /\ \A j \in DOMAIN s : o[j] = s[j]
        /\ \A j \in DOMAIN DefaultTun(root) \ DOMAIN s : o[j] = DefaultTun(root)[j]
        BY Overlaid
  <2>4. /\ k \in DOMAIN s => Below(r, k) = s[k]
        /\ k \notin DOMAIN s => Unset(Below(r, k))
        BY InSection DEF r
  <2>5. Below(t, k) = Find(t, k)
        BY <1>2 DEF Below
  <2> HIDE DEF o, s
  <2>6. CASE k \in DOMAIN s
    <3>1. Below(t, k) = Below(r, k)
          BY <2>1, <2>3, <2>4, <2>5, <2>6
    <3>2. Onward(t, path) = Onward(r, path)
          BY <1>5, <3>1 DEF Onward, k
    <3>3. QED BY <1>1, <3>2 DEF Left, Alike, Same, b
  <2>7. CASE k \notin DOMAIN s
    <3>1. Unset(Onward(r, path))
          BY <1>5, <2>4, <2>7, UnsetOnward DEF k
    <3>2. CASE k \notin DOMAIN DefaultTun(root)
      <4>1. Unset(Below(t, k))
            BY <2>2, <2>3, <2>5, <2>7, <3>2 DEF Unset, None
      <4>2. Unset(Onward(t, path))
            BY <1>5, <4>1, UnsetOnward DEF k
      <4>3. QED BY <1>1, <3>1, <4>2 DEF Left, Alike, b
    <3>3. CASE k \in DOMAIN DefaultTun(root)
      <4>1. k \in {"stack", "dns-hijack", "inet6-address"} /\ DefaultTun(root)[k] = Scalar("android")
            BY <3>3 DEF DefaultTun
      <4>2. Below(t, k) = Scalar("android")
            BY <2>1, <2>3, <2>5, <2>7, <3>3, <4>1
      <4>3. CASE Len(path) = 2
            BY <1>1, <3>1, <4>1, <4>3, KeysOf DEF Left, DefaultPaths, b, k
      <4>4. CASE Len(path) = 3
        <5>1. Onward(t, path) = Cut
              BY <4>2, <4>4 DEF Onward, Below, Scalar, IsMapping, k
        <5>2. QED BY <1>1, <3>1, <5>1 DEF Left, Alike, Unset, Cut, b
      <4>5. QED BY <1>5, <4>3, <4>4, KeysOf
    <3>4. QED BY <3>2, <3>3
  <2>8. QED BY <2>6, <2>7
<1>6. QED BY <1>3, <1>4, <1>5

\* The injection changes nothing but the policies, to which it adds those of hosts
\* that have none.
LEMMA InjectedWalk ==
  ASSUME NEW tunned, NEW dns, IsMapping(dns)
  PROVE  LET inj == InjectPolicy(tunned, dns)
             np  == "nameserver-policy"
             old == Section(dns, np).of
         IN  /\ IsMapping(inj.dns)
             /\ \A k : k # np => Find(inj.dns, k) = Find(dns, k)
             /\ \/ Find(inj.dns, np) = Find(dns, np)
                \/ /\ IsMapping(Find(inj.dns, np))
                   /\ \A k \in inj.hosts : k \notin DOMAIN old
                   /\ \A k : k \notin inj.hosts =>
                        /\ k \in DOMAIN old => Find(Find(inj.dns, np), k) = old[k]
                        /\ k \notin DOMAIN old => Find(Find(inj.dns, np), k) = None
<1> DEFINE np    == "nameserver-policy"
           inj   == InjectPolicy(tunned, dns)
           old   == Section(dns, np).of
           hs    == inj.hosts
           added == [h \in hs |-> Scalar(servers)]
           new   == Mapping(Over(added, old))
<1>1. /\ hs \subseteq {h \in Host : ~HasPolicyFor(Section(dns, np), h)}
      /\ inj.dns = IF servers = NoServers \/ hs = {} THEN dns ELSE Set(dns, np, new)
      BY DEF InjectPolicy, ControlHosts
<1>2. \A k \in hs : k \notin DOMAIN old
      BY <1>1, OwnPattern DEF HasPolicyFor
<1>3. CASE servers = NoServers \/ hs = {}
      BY <1>1, <1>3
<1>4. CASE ~(servers = NoServers \/ hs = {})
  <2>1. inj.dns = Set(dns, np, new)
        BY <1>1, <1>4
  <2>2. DOMAIN added = hs
        OBVIOUS
  <2> HIDE DEF added, old, hs, inj
  <2>3. /\ IsMapping(new)
        /\ \A k : k \notin hs => /\ k \in DOMAIN old => Find(new, k) = old[k]
                                 /\ k \notin DOMAIN old => Find(new, k) = None
        BY <2>2, FindOver
  <2> HIDE DEF new
  <2>4. Find(inj.dns, np) = new /\ \A k : k # np => Find(inj.dns, k) = Find(dns, k)
        BY <2>1, FindSet
  <2>5. IsMapping(inj.dns)
        BY <2>1 DEF Set, Mapping, IsMapping
  <2>6. QED BY <1>2, <2>3, <2>4, <2>5 DEF hs, old, inj
<1>5. QED BY <1>3, <1>4

LEMMA LeftOfDNS ==
  ASSUME NEW root, IsMapping(root), NEW path \in Path, path[1] = "dns"
  PROVE  Left(root, BuildOf(root), path)
<1> DEFINE np  == "nameserver-policy"
           b   == BuildOf(root)
           k   == path[2]
           r   == Find(root, "dns")
           s   == Section(root, "dns").of
           dns == Mapping(Over(ForcedDNS, s))
           inj == InjectPolicy(Set(root, "tun", BuiltTun(root)), dns)
           d   == inj.dns
           old == Section(dns, np).of
<1>1. /\ b.hosts = inj.hosts /\ Find(b.root, "dns") = d /\ IsMapping(b.root)
      BY BuiltParts
<1>2. Walk(b.root, path) = Onward(d, path) /\ Walk(root, path) = Onward(r, path)
      BY <1>1, Walked DEF Below
<1>3. IsMapping(dns)
      BY FindOver
<1>4. /\ IsMapping(d)
      /\ \A j : j # np => Find(d, j) = Find(dns, j)
      /\ \/ Find(d, np) = Find(dns, np)
         \/ /\ IsMapping(Find(d, np))
            /\ \A j \in inj.hosts : j \notin DOMAIN old
            /\ \A j : j \notin inj.hosts =>
                 /\ j \in DOMAIN old => Find(Find(d, np), j) = old[j]
                 /\ j \notin DOMAIN old => Find(Find(d, np), j) = None
      BY <1>3, InjectedWalk
<1> HIDE DEF inj, d, b
<1>5. \A j : j \notin DOMAIN ForcedDNS =>
        /\ j \in DOMAIN s => Find(dns, j) = s[j] /\ Below(r, j) = s[j]
        /\ j \notin DOMAIN s => Find(dns, j) = None /\ Unset(Below(r, j))
      BY FindOver, InSection
<1> HIDE DEF dns, s, r
<1>6. CASE Len(path) = 1
  <2>1. path = <<"dns">> /\ Onward(d, path) = d
        BY <1>6, KeysOf DEF Onward
  <2>2. QED BY <1>2, <1>4, <2>1 DEF Left, Sections, b
<1>7. CASE Len(path) # 1 /\ k \in DOMAIN ForcedDNS
  <2>1. Len(path) > 1
        BY <1>7, KeysOf
  <2>2. QED BY <1>7, <2>1 DEF Left, Forced
<1>8. ASSUME Len(path) # 1, k \notin DOMAIN ForcedDNS, Find(d, k) = Find(dns, k)
      PROVE  Left(root, b, path)
  <2>1. Below(d, k) = Find(dns, k)
        BY <1>4, <1>8 DEF Below
  <2>2. CASE k \in DOMAIN s
    <3>1. Below(d, k) = Below(r, k)
          BY <1>5, <1>8, <2>1, <2>2
    <3>2. Onward(d, path) = Onward(r, path)
          BY <1>8, <3>1 DEF Onward
    <3>3. QED BY <1>2, <3>2 DEF Left, Alike, Same
  <2>3. CASE k \notin DOMAIN s
    <3>1. Below(d, k) = None /\ Unset(Below(r, k))
          BY <1>5, <1>8, <2>1, <2>3
    <3>2. Unset(Below(d, k))
          BY <3>1 DEF Unset, None
    <3>3. Unset(Onward(d, path)) /\ Unset(Onward(r, path))
          BY <1>8, <3>1, <3>2, UnsetOnward
    <3>4. QED BY <1>2, <3>3 DEF Left, Alike
  <2>4. QED BY <2>2, <2>3
<1>9. CASE Len(path) # 1 /\ k = np /\ Find(d, np) # Find(dns, np)
  <2>1. np \notin DOMAIN ForcedDNS
        BY DEF ForcedDNS
  <2>2. Below(d, k) = Find(d, np)
        BY <1>4, <1>9 DEF Below
  <2>3. CASE Len(path) = 2
    <3>1. path = <<"dns", "nameserver-policy">> /\ Onward(d, path) = Find(d, np)
          BY <1>9, <2>2, <2>3, KeysOf DEF Onward
    <3>2. QED BY <1>2, <1>4, <1>9, <3>1 DEF Left, Sections, b
  <2>4. CASE Len(path) = 3
    <3> DEFINE j == path[3]
               q == Below(r, np)
    <3>1. Onward(d, path) = Find(Find(d, np), j)
          BY <1>4, <1>9, <2>2, <2>4 DEF Onward, Below
    <3>2. Onward(r, path) = Below(q, j)
          BY <1>9, <2>4 DEF Onward
    <3>3. Find(dns, np) = q \/ (Find(dns, np) = None /\ Unset(q))
          BY <1>5, <2>1
    <3>4. j \in DOMAIN old => Below(q, j) = old[j]
      <4>1. CASE IsMapping(Find(dns, np))
        <5>1. q = Find(dns, np) /\ old = q.of
              BY <3>3, <4>1 DEF Section, None, IsMapping
        <5>2. QED BY <4>1, <5>1 DEF Below, Find
      <4>2. CASE ~IsMapping(Find(dns, np))
            BY <4>2 DEF Section, Mapping
      <4>3. QED BY <4>1, <4>2
    <3>5. j \notin DOMAIN old => Unset(Below(q, j))
      <4>1. CASE IsMapping(Find(dns, np))
        <5>1. q = Find(dns, np) /\ old = q.of
              BY <3>3, <4>1 DEF Section, None, IsMapping
        <5>2. QED BY <4>1, <5>1 DEF Below, Find, Unset, None
      <4>2. CASE ~IsMapping(Find(dns, np))
        <5>1. ~IsMapping(q)
              BY <3>3, <4>2 DEF Unset, IsMapping
        <5>2. QED BY <5>1 DEF Below, Unset, None, Cut
      <4>3. QED BY <4>1, <4>2
    <3> HIDE DEF q, old
    <3>6. CASE j \in inj.hosts
      <4>1. Unset(Onward(r, path))
            BY <1>4, <1>9, <3>2, <3>5, <3>6
      <4>2. path = <<"dns", "nameserver-policy", j>>
            BY <1>9, <2>4, KeysOf
      <4>3. QED BY <1>1, <1>2, <3>6, <4>1, <4>2 DEF Left, b
    <3>7. CASE j \notin inj.hosts /\ j \in DOMAIN old
      <4>1. Onward(d, path) = Onward(r, path)
            BY <1>4, <1>9, <3>1, <3>2, <3>4, <3>7
      <4>2. QED BY <1>2, <4>1 DEF Left, Alike, Same, b
    <3>8. CASE j \notin inj.hosts /\ j \notin DOMAIN old
      <4>1. Unset(Onward(d, path)) /\ Unset(Onward(r, path))
            BY <1>4, <1>9, <3>1, <3>2, <3>5, <3>8 DEF Unset, None
      <4>2. QED BY <1>2, <4>1 DEF Left, Alike, b
    <3>9. QED BY <3>6, <3>7, <3>8
  <2>5. QED BY <1>9, <2>3, <2>4, KeysOf
<1>10. CASE Len(path) # 1 /\ k \notin DOMAIN ForcedDNS /\ k # np
       BY <1>4, <1>8, <1>10 DEF b
<1>11. CASE Len(path) # 1 /\ k = np /\ Find(d, np) = Find(dns, np)
  <2>1. k \notin DOMAIN ForcedDNS
        BY <1>11 DEF ForcedDNS
  <2>2. QED BY <1>8, <1>11, <2>1 DEF b
<1>12. QED BY <1>6, <1>7, <1>9, <1>10, <1>11 DEF b

\* Every setting that any of the three files decides is in what the build returns.
LEMMA BuildKeepsSettings ==
  ASSUME NEW Tree, MergesTrees(Tree), NEW b \in File, NEW p \in File, NEW f \in File,
         Build(<<b, p, f>>)
  PROVE  UsersSettingsSurvive'
<1> DEFINE fs   == <<b, p, f>>
           root == MergedRoot(fs)
<1>1. files' = fs /\ built' = BuildOf(root)
      BY DEF Build
<1>2. Content[b].state = "ok"
  <2>1. Readable(fs) /\ 1 \in DOMAIN fs /\ fs[1] = b
        BY DEF Build
  <2>2. QED BY <2>1 DEF Readable
<1>3. ASSUME NEW path \in Path
      PROVE  \/ Alike(Walk(built'.root, path), Decided(files', path))
             \/ Forced(path)
             \/ /\ Unset(Decided(files', path))
                /\ path \in DefaultPaths \cup
                             {<<"dns", "nameserver-policy", h>> : h \in built'.hosts}
             \/ path \in Sections /\ IsMapping(Walk(built'.root, path))
  <2>1. IsMapping(root) /\ Alike(Walk(root, path), Decided(fs, path))
        BY <1>2, MergedDecides
  <2> HIDE DEF fs, root
  <2>2. Left(root, BuildOf(root), path)
        BY <2>1, LeftAlone, LeftOfTun, LeftOfDNS
  <2>3. \A x, y, z : Alike(x, y) /\ Alike(y, z) => Alike(x, z)
        BY DEF Alike, Same, Unset, IsMapping
  <2>4. Unset(Walk(root, path)) => Unset(Decided(fs, path))
        BY <2>1 DEF Alike, Same, Unset
  <2>5. QED BY <1>1, <2>1, <2>2, <2>3, <2>4 DEF Left
<1>4. QED BY <1>3 DEF UsersSettingsSurvive, Injected

\* Whatever the files say, with any merge that merges trees key by key, the built
\* configuration has the user's settings, but for those the tunnel forces, and no others
\* than the user's, the tunnel's and the injected policies.
THEOREM UsersSettingsAreKept ==
  ASSUME NEW Tree, MergesTrees(Tree)
  PROVE  Spec => []UsersSettingsSurvive
<1>1. Init => UsersSettingsSurvive
      BY DEF Init, UsersSettingsSurvive
<1>2. UsersSettingsSurvive /\ [Next]_vars => UsersSettingsSurvive'
  <2> SUFFICES ASSUME UsersSettingsSurvive, [Next]_vars PROVE UsersSettingsSurvive'
      OBVIOUS
  <2>1. CASE \E b, p, f \in File : Build(<<b, p, f>>)
        BY <2>1, BuildKeepsSettings
  <2>2. CASE pc' # "built"
        BY <2>2 DEF UsersSettingsSurvive
  <2>3. CASE UNCHANGED <<pc, files, built>>
        BY <2>3 DEF UsersSettingsSurvive, Injected
  <2>4. QED
    BY <2>1, <2>2, <2>3
    DEF Next, vars, Apply, Reload, EndStart, FailStart, Stop, Refresh, NetworkInfo
<1>3. QED BY <1>1, <1>2, PTL DEF Spec
=============================================================================
