-------------------------- MODULE MCRuntimeConfig --------------------------
(* Model-checking instance of RuntimeConfig: small files that meet each      *)
(* other in every order.                                                     *)
EXTENDS RuntimeConfig, YamlMerge

Tailscale(url) == Mapping("type" :> Scalar("tailscale") @@ "control-url" :> Scalar(url))
Policies(f)    == Mapping("nameserver-policy" :> f)
User           == Scalar("user")
Ok(root)       == [state |-> "ok", root |-> root]
No(state)      == [state |-> state, root |-> Mapping(<< >>)]

MCContent ==
  "none" :> No("missing") @@ "void" :> No("empty") @@ "broken" :> No("broken") @@
  "plain" :> Ok(Mapping(
    "mixed-port" :> Scalar("7890") @@ "port" :> Scalar("8080") @@
    "proxies" :> Sequence(<<Tailscale("")>>) @@
    "tun" :> Mapping("stack" :> User) @@
    "extension" :> Mapping("stack" :> User) @@
    "dns" :> Policies(Mapping("b.ts" :> User)))) @@
  "wide" :> Ok(Mapping(
    "port" :> Scalar("8080") @@ "ipv6" :> Scalar("true") @@ "bind-address" :> Scalar("~") @@
    "proxies" :> Sequence(<<Mapping("type" :> Scalar("ss")), Tailscale("https://b.ts"),
                            Tailscale("https://10.0.0.1"), Tailscale("https://b.ts")>>) @@
    "proxy-providers" :> Mapping("p" :> Mapping("payload" :> Sequence(<<Tailscale("")>>))) @@
    "dns" :> Policies(Mapping("geosite:ts" :> User)))) @@
  "patch" :> Ok(Mapping(
    "mixed-port" :> Scalar("0") @@
    "allow-lan" :> Scalar("true") @@ "bind-address" :> Scalar("::") @@
    "authentication" :> Sequence(<<Scalar("nobody"), Scalar("u:p")>>) @@
    "tun" :> Mapping("dns-hijack" :> User @@ "mtu" :> User) @@
    "extension" :> Mapping("mtu" :> User) @@
    "dns" :> Policies(Mapping("a.ts,+.example" :> User @@ "c.ts" :> User)))) @@
  "spelled" :> Ok(Mapping(
    "mixed-port" :> Scalar("0x1ed2") @@ "port" :> Scalar("0100") @@
    "allow-lan" :> Scalar("True"))) @@
  "cut" :> Ok(Mapping(
    "mixed-port" :> Scalar("many") @@ "tun" :> Scalar("") @@
    "dns" :> Policies(Scalar(""))))

MCHostOf == "" :> "a.ts" @@ "https://b.ts" :> "b.ts" @@ "https://10.0.0.1" :> NoHost
MCSplit  == [k \in {"a.ts", "b.ts", "c.ts", "geosite:ts"} |-> <<k>>] @@
            "a.ts,+.example" :> <<"a.ts", "+.example">>
MCCovers == "a.ts" :> {"a.ts"} @@ "b.ts" :> {"b.ts"} @@ "c.ts" :> {"c.ts"} @@
            "geosite:ts" :> {"a.ts", "b.ts"} @@ "+.example" :> {}
MCDecimal    == {"0", "7890", "8080"}
MCNumber     == "0" :> 0 @@ "7890" :> 7890 @@ "8080" :> 8080 @@ "0100" :> 100
MCYamlNumber == "0" :> 0 @@ "7890" :> 7890 @@ "8080" :> 8080 @@ "0100" :> 64 @@ "0x1ed2" :> 7890
MCPath   == {<<"tun", k>> : k \in {"stack", "dns-hijack", "mtu", "inet6-address", "enable"}} \cup
            {<<"dns", "nameserver-policy", k>> : k \in DOMAIN MCSplit} \cup
            {<<k>> : k \in {"mixed-port", "port", "allow-lan", "authentication", "proxies", "tun", "dns"}} \cup
            {<<"dns", "nameserver-policy">>, <<"dns", "fake-ip-range">>, <<"tun", "mtu", "a.ts">>} \cup
            {<<"extension", k>> : k \in {"stack", "mtu"}}
=============================================================================
