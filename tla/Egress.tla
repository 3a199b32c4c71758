------------------------------ MODULE Egress ------------------------------
(***************************************************************************)
(* How a node gets out to the network: the launch plan of `pilotctl daemon *)
(* start`, the daemon's reading of flags, environment and config.json, the *)
(* decision of -transport=auto, the outbound proxy with its rotating       *)
(* credentials and loopback relay, the registry the daemon ends up on, and *)
(* the routes pilotctl takes to the same registry.                         *)
(*                                                                         *)
(* A scenario is one host: what its operator set and where, what its shell *)
(* exports, which pilot-daemon is installed and what the network lets out. *)
(* "" is a setting nobody made.  Addresses are names: "raw" is the         *)
(* compiled-in raw-TCP registry, "tls" its TLS host name on :443, "own" a  *)
(* private one.                                                            *)
(***************************************************************************)
EXTENDS Naturals, Sequences, TLC

CONSTANT Scenarios

VARIABLES
    sc,     \* the host
    left,   \* budgets of what the environment may still do
    step,   \* how far the launch has come
    plan,   \* the transport and proxy pilotctl settled on
    argv,   \* the settings on the daemon's command line
    penv,   \* the settings in the daemon's environment
    mode,   \* the daemon's transport
    final,  \* the daemon's registry settings
    via,    \* the daemon's proxy resolver
    relay,  \* the loopback relay: "none", "own" (plugins only) or "apps"
    cred,   \* the generation of credentials the proxy accepts
    dial,   \* a connection through the proxy being opened
    told    \* what pilotctl's own registry dial came to

vars == <<sc, left, step, plan, argv, penv, mode, final, via, relay, cred, dial, told>>

Setting == {"transport", "proxy", "registry", "beacon", "compat-beacon",
            "tls", "trust", "fp", "cmd"}

Unset == [s \in Setting |-> ""]

First(a, b) == IF a # "" THEN a ELSE b

NoResolver == [kind |-> "nil", cmd |-> FALSE, gen |-> 0]
NoRegistry == [addr |-> "", tls |-> FALSE, trust |-> ""]
Idle == [who |-> "none", gen |-> 0, retried |-> FALSE, moved |-> FALSE, res |-> ""]
Untold == [res |-> "", addr |-> "", tls |-> FALSE, proxied |-> FALSE, probe |-> FALSE]

Spend(k) == left[k] > 0 /\ left' = [left EXCEPT ![k] = @ - 1]

(***************************************************************************)
(* The launch by pilotctl                                                  *)
(***************************************************************************)

(* resolveDaemonTransport and resolveDaemonProxy: flag, environment, file. *)
Chosen(s) == First(sc.flag[s], First(sc.env[s], sc.cfg[s]))

(* flag, then config.json, then getRegistry / getBeacon. *)
Address(s, default) == First(sc.flag[s], First(sc.cfg[s], First(sc.env[s], default)))

compatSkipsDefault(transport, addr, default) == transport = "compat" /\ addr = default

(* What planDaemonLaunch puts on argv for the resolved transport and proxy:
   a proxy with credentials travels in the environment instead. *)
Args(t, p) ==
    [Unset EXCEPT
        !["transport"] = t,
        !["proxy"] = IF p = "cred" THEN "" ELSE p,
        !["registry"] = IF compatSkipsDefault(t, Address("registry", "raw"), "raw")
                        THEN "" ELSE Address("registry", "raw"),
        !["beacon"] = IF compatSkipsDefault(t, Address("beacon", "public"), "public")
                      THEN "" ELSE Address("beacon", "public"),
        !["compat-beacon"] = sc.flag["compat-beacon"],
        !["trust"] = sc.flag["trust"],
        !["fp"] = sc.flag["fp"]]

planDaemonLaunch ==
    /\ step = "launch" /\ sc.by = "pilotctl"
    /\ LET t == Chosen("transport")
           p == Chosen("proxy")
       IN IF "bad" \in {t, p}
          THEN /\ step' = "refused"
               /\ UNCHANGED <<plan, argv>>
          ELSE /\ step' = "planned"
               /\ plan' = [transport |-> t, proxy |-> p]
               /\ argv' = Args(t, p)
    /\ UNCHANGED <<sc, left, penv, mode, final, via, relay, cred, dial, told>>

(* daemonFlagUsage and daemonSupportsAutoTransport: what `-help` tells of
   the installed daemon; a failed probe tells nothing. *)
FlagsKnown == sc.known
HasFlag(f) == \/ sc.bin = "new"
              \/ sc.bin = "noauto" /\ f \notin {"proxy", "cmd"}
              \/ sc.bin = "old" /\ f \notin {"proxy", "cmd", "transport"}
SupportsAuto == FlagsKnown /\ sc.bin = "new"

adaptTransport(t) ==
    IF t = ""
    THEN IF SupportsAuto THEN "auto" ELSE ""
    ELSE IF FlagsKnown /\ ~HasFlag("transport") THEN ""
    ELSE IF t = "auto" /\ FlagsKnown /\ ~SupportsAuto THEN "udp"
    ELSE t

(* sandboxRefreshCmd and sandboxProxyCmdFor: the refresh command handed to a
   daemon in a sandbox whose proxy URL carries credentials. *)
sandboxRefreshCmd == IF sc.sandbox /\ sc.shell.proxy = "cred" THEN "fresh" ELSE ""

sandboxProxyCmdFor ==
    IF /\ plan.proxy \in {"", "auto"}
       /\ sc.flag["cmd"] = "" /\ sc.env["cmd"] = "" /\ sc.cfg["cmd"] = ""
       /\ FlagsKnown /\ HasFlag("cmd")
    THEN sandboxRefreshCmd ELSE ""

(* adaptDaemonArgs, daemonChildEnv and the two hand-overs of -proxy-cmd. *)
adaptDaemonArgs ==
    /\ step = "planned"
    /\ LET t == adaptTransport(plan.transport)
           noProxy == FlagsKnown /\ ~HasFlag("proxy")
           handed == IF plan.proxy = "cred" /\ ~noProxy THEN "cred" ELSE sc.env["proxy"]
           asked == IF FlagsKnown /\ ~HasFlag("cmd") THEN "" ELSE sc.flag["cmd"]
       IN /\ argv' = [argv EXCEPT !["transport"] = t,
                                  !["proxy"] = IF noProxy THEN "" ELSE @]
          /\ penv' = [sc.env EXCEPT
                         !["proxy"] = handed,
                         !["cmd"] = First(sandboxProxyCmdFor, First(asked, @)),
                         !["registry"] = IF compatSkipsDefault(t, @, "raw") THEN "" ELSE @]
    /\ step' = "started"
    /\ UNCHANGED <<sc, left, plan, mode, final, via, relay, cred, dial, told>>

(* A service manager starts the daemon with its own environment. *)
ServiceStarts ==
    /\ step = "launch" /\ sc.by = "service"
    /\ step' = "started"
    /\ argv' = sc.flag /\ penv' = sc.env
    /\ UNCHANGED <<sc, left, plan, mode, final, via, relay, cred, dial, told>>

(* `pilotctl update --pin` leaves a config.json the older daemon can read. *)
fitTransportToDaemon ==
    IF sc.cfg["transport"] = "auto" /\ sc.pinned /\ FlagsKnown /\ ~SupportsAuto
    THEN "udp" ELSE sc.cfg["transport"]

(* An older pilot-daemon aborts on a flag or value it does not define, the
   ones it reads from config.json included. *)
OlderStarts ==
    /\ step = "started" /\ sc.bin # "new"
    /\ LET t == First(argv["transport"], fitTransportToDaemon)
           unknown == \E s \in Setting : argv[s] # "" /\ ~HasFlag(s)
       IN step' = IF unknown \/ (HasFlag("transport") /\ t = "auto") THEN "aborted" ELSE "older"
    /\ UNCHANGED <<sc, left, plan, argv, penv, mode, final, via, relay, cred, dial, told>>

(***************************************************************************)
(* The daemon settles its network                                          *)
(***************************************************************************)

(* envOverConfig: command line, environment, config.json. *)
envOverConfig(s) == First(argv[s], First(penv[s], sc.cfg[s]))

(* A plain flag: command line, config.json; -registry and -beacon take their
   default from the environment. *)
Flag(s) == First(argv[s], sc.cfg[s])
FlagOrEnv(s) == First(argv[s], First(sc.cfg[s], penv[s]))
explicit(s) == FlagOrEnv(s) # ""

defaultTransport == First(sc.default, "udp")

(* NormalizeTransport of the setting: an unknown value in the environment is
   ignored, anywhere else it stops the daemon. *)
Requested ==
    LET t == envOverConfig("transport")
        u == IF t = "bad" /\ argv["transport"] = "" /\ penv["transport"] = "bad"
             THEN sc.cfg["transport"] ELSE t
    IN First(u, defaultTransport)

Settings == [addr |-> First(FlagOrEnv("registry"), "raw"),
             addrExplicit |-> explicit("registry"),
             tls |-> Flag("tls") = "on", tlsExplicit |-> Flag("tls") # "",
             trust |-> First(envOverConfig("trust"), "pinned"),
             trustExplicit |-> envOverConfig("trust") # "",
             fp |-> envOverConfig("fp")]

compatKeepsRegistry(r) ==
    \/ r.tlsExplicit /\ ~r.tls
    \/ r.addrExplicit /\ r.addr # "raw"

autoCompatBlocker(r) ==
    \/ compatKeepsRegistry(r) /\ r.addr # "tls" /\ ~(r.tlsExplicit /\ r.tls)
    \/ FlagOrEnv("beacon") = "own" /\ Flag("compat-beacon") = ""

(* ResolveProxy: auto is the environment's proxy, in compat mode only; a
   malformed environment costs the proxy, not the daemon.  A refresh command
   runs once at the start. *)
proxyCommandFor(p, t) ==
    envOverConfig("cmd") # "" /\ p # "off" /\ (p # "auto" \/ t = "compat")

resolveProxy(t) ==
    LET p == First(envOverConfig("proxy"), "auto")
        cmd == proxyCommandFor(p, t)
    IN IF p = "off" THEN [kind |-> "off", cmd |-> FALSE, gen |-> 0]
       ELSE IF p # "auto"
       THEN [kind |-> "url", cmd |-> cmd, gen |-> IF cmd THEN cred ELSE 0]
       ELSE IF t # "compat" \/ sc.shell.proxy \in {"none", "bad"} THEN NoResolver
       ELSE [kind |-> "env", cmd |-> cmd, gen |-> IF cmd THEN cred ELSE 0]

(* Proxies: does a dial of a public address go through resolver v? *)
Proxies(v) == v.kind = "url" \/ (v.kind = "env" /\ ~sc.shell.exempt)

(* checkCompatBeacon: opening the connection may fail at the proxy or, with
   none, at the network; then the beacon itself answers or does not. *)
checkCompatBeacon(v) ==
    IF IF Proxies(v) THEN sc.net.connect = "passes" ELSE sc.net.direct = "open"
    THEN IF sc.net.beacon THEN "answered" ELSE "silent"
    ELSE "dial"


SelectTransport(v) ==
    IF sc.net.udp \/ Flag("compat-beacon") = "unusable" THEN "udp"
    ELSE CASE checkCompatBeacon(v) = "answered" -> "compat"
           [] checkCompatBeacon(v) = "dial" /\ Proxies(v) -> "compat"
           [] OTHER -> "udp"

(* main's launch-time settings, and the probe of -transport=auto. *)
resolveAutoTransport ==
    /\ step = "started" /\ sc.bin = "new"
    /\ IF Requested = "bad" \/ envOverConfig("proxy") = "bad"
       THEN step' = "fatal" /\ UNCHANGED mode
       ELSE /\ step' = "settled"
            /\ mode' = IF Requested # "auto" THEN Requested
                       ELSE IF autoCompatBlocker(Settings) THEN "udp"
                       ELSE SelectTransport(resolveProxy("compat"))
    /\ UNCHANGED <<sc, left, plan, argv, penv, final, via, relay, cred, dial, told>>

applyRegistryDefaults(t, r, proxied) ==
    LET move == ~compatKeepsRegistry(r) /\ (t = "compat" \/ proxied)
        addr == IF move THEN "tls" ELSE r.addr
        tls == IF r.tlsExplicit THEN r.tls
               ELSE r.tls \/ move \/ t = "compat" \/ addr = "tls"
    IN [addr |-> addr, tls |-> tls,
        trust |-> IF tls /\ ~r.trustExplicit /\ (t = "compat" \/ addr = "tls")
                  THEN IF r.fp # "" THEN "pinned" ELSE "system"
                  ELSE r.trust]

(* applyDaemonSecurityProfile: the enterprise profile turns registry TLS on
   and refuses pinned trust without a fingerprint. *)
applyDaemonSecurityProfile(f) ==
    IF sc.enterprise THEN [f EXCEPT !.tls = TRUE] ELSE f

ProfileRefuses(f) == sc.enterprise /\ f.trust = "pinned" /\ Settings.fp = ""

(* startProxyRelay: a relay runs whenever the daemon proxies; with a refresh
   command the apps get it as their proxy (exportAppProxy). *)
startProxyRelay(v) ==
    IF v.kind \notin {"url", "env"} THEN "none"
    ELSE IF v.cmd THEN "apps" ELSE "own"

OutboundNetwork ==
    /\ step = "settled"
    /\ LET v == resolveProxy(mode)
           f == applyRegistryDefaults(mode, Settings, Proxies(v))
       IN IF ProfileRefuses(f)
          THEN step' = "fatal" /\ UNCHANGED <<final, via, relay>>
          ELSE /\ step' = "up"
               /\ via' = v
               /\ final' = applyDaemonSecurityProfile(f)
               /\ relay' = startProxyRelay(v)
    /\ UNCHANGED <<sc, left, plan, argv, penv, mode, cred, dial, told>>

(***************************************************************************)
(* Connections through a proxy whose credentials rotate                    *)
(***************************************************************************)

Rotate ==
    /\ step = "up" /\ Spend("rotate")
    /\ cred' = cred + 1
    /\ dial' = [dial EXCEPT !.moved = dial.who # "none"]
    /\ UNCHANGED <<sc, step, plan, argv, penv, mode, final, via, relay, told>>

(* The environment the refresh command runs in: the one the daemon was
   launched with, never the one exportAppProxy points at the relay. *)
commandEnv == "launch"

(* What the command prints: a fresh shell reads the current credentials. *)
CommandPrints(e) == IF e = "relay" THEN "relay" ELSE "current"

(* proxyRefreshSource: the relay's own URL is refused, and a refused or
   failed run keeps the last good URL. *)
proxyRefreshSource ==
    IF via.cmd /\ CommandPrints(commandEnv) # "relay" THEN cred ELSE via.gen

(* Resolver.Refresh, re-run after its interval too. *)
Refresh(g) == via' = [via EXCEPT !.gen = g]

RefreshTick ==
    /\ step = "up" /\ via.cmd
    /\ via.gen # proxyRefreshSource
    /\ Refresh(proxyRefreshSource)
    /\ UNCHANGED <<sc, left, step, plan, argv, penv, mode, final, relay, cred, dial, told>>

(* Who opens connections: the daemon's own dialer; plugins on
   DefaultTransport, tunnelled through the relay; apps, through the relay
   when it was exported to them and else with what they inherited. *)
Refreshing(who) ==
    \/ who = "daemon"
    \/ who = "plugin" /\ relay # "none"
    \/ who = "app" /\ relay = "apps"

DialBegins(who) ==
    /\ step = "up" /\ Proxies(via) /\ dial.who = "none" /\ Spend("dials")
    /\ dial' = [Idle EXCEPT !.who = who,
                            !.gen = IF Refreshing(who) THEN via.gen ELSE 0]
    /\ UNCHANGED <<sc, step, plan, argv, penv, mode, final, via, relay, cred, told>>

(* netproxy's dialer: credentials the proxy rejects are refreshed, and the
   connection is retried once when that brought different ones. *)
ProxyAnswers ==
    /\ dial.who # "none" /\ dial.res = ""
    /\ \/ /\ dial.gen = cred
          /\ dial' = [dial EXCEPT !.res = "open"]
          /\ UNCHANGED <<left, via>>
       \/ /\ dial.gen # cred /\ Refreshing(dial.who) /\ ~dial.retried
          /\ \/ /\ Refresh(proxyRefreshSource)
                /\ dial' = IF proxyRefreshSource # dial.gen
                           THEN [dial EXCEPT !.gen = proxyRefreshSource, !.retried = TRUE]
                           ELSE [dial EXCEPT !.res = "failed"]
                /\ UNCHANGED left
             \/ /\ via.cmd /\ Spend("fail")       \* the command fails
                /\ dial' = [dial EXCEPT !.res = "failed", !.moved = TRUE]
                /\ UNCHANGED via
       \/ /\ dial.gen # cred /\ (~Refreshing(dial.who) \/ dial.retried)
          /\ dial' = [dial EXCEPT !.res = "failed"]
          /\ UNCHANGED <<left, via>>
    /\ UNCHANGED <<sc, step, plan, argv, penv, mode, final, relay, cred, told>>

DialEnds ==
    /\ dial.res # "" /\ dial' = Idle
    /\ UNCHANGED <<sc, left, step, plan, argv, penv, mode, final, via, relay, cred, told>>

(***************************************************************************)
(* pilotctl's own way to the registry                                      *)
(***************************************************************************)

pilotctlProxySpec == First(sc.env["proxy"], First(sc.cfg["proxy"], "auto"))

pilotctlProxyCmd == First(sc.env["cmd"], First(sc.cfg["cmd"], sandboxRefreshCmd))

configuredTransport ==
    LET t == First(sc.env["transport"], sc.cfg["transport"])
    IN IF t = "bad" THEN "" ELSE t

(* The running daemon's transport, else a configured udp or compat. *)
effectiveTransportFor ==
    IF step = "up" THEN mode
    ELSE IF configuredTransport \in {"udp", "compat"} THEN configuredTransport ELSE ""

Route(addr, proxied, probe) ==
    [addr |-> addr, tls |-> addr = "tls", proxied |-> proxied, probe |-> probe]

(* The routes for a decided transport t and proxy policy p. *)
Routes(addr, t, p) ==
    LET again(a) == IF pilotctlProxySpec = "auto" /\ p THEN <<Route(a, FALSE, FALSE)>> ELSE <<>>
    IN IF addr # "raw" THEN <<Route(addr, p, FALSE)>> \o again(addr)
       ELSE IF t = "compat" \/ p THEN <<Route("tls", p, FALSE)>> \o again("tls")
       ELSE <<Route("raw", FALSE, FALSE), Route("tls", FALSE, FALSE)>>

planRegistryRoutes(addr) ==
    LET spec == pilotctlProxySpec
        plain == \/ spec = "off"
                 \/ spec = "auto" /\ sc.shell.proxy = "none" /\ pilotctlProxyCmd = ""
        t == effectiveTransportFor
    IN CASE spec = "bad" -> <<>>
         [] plain -> Routes(addr, configuredTransport, FALSE)
         [] spec \in {"url", "cred"} -> Routes(addr, configuredTransport, TRUE)
         [] ~plain /\ spec = "auto" ->
              IF t # "compat" /\ ~(t = "" /\ addr = "raw") THEN Routes(addr, t, FALSE)
              ELSE IF sc.shell.proxy = "bad" THEN <<>>
              ELSE IF t = "compat" THEN Routes(addr, t, ~sc.shell.exempt)
              ELSE IF sc.shell.exempt
              THEN <<Route("raw", FALSE, FALSE), Route("tls", FALSE, FALSE)>>
              ELSE <<Route("tls", TRUE, FALSE), Route("raw", FALSE, TRUE)>>

(* registryRoute.dial: a network guard accepts a direct connection and
   breaks the first request; probedDirectDial and TLS notice. *)
Dials(r) ==
    IF r.proxied THEN IF sc.net.connect = "passes" THEN "open" ELSE "failed"
    ELSE IF sc.net.direct = "guard" /\ ~r.tls /\ ~r.probe THEN "guard"
    ELSE IF sc.net.direct = "open" THEN "open" ELSE "failed"

(* The first route that works, else the first proxied one, else the first. *)
dialRegistry(routes) ==
    LET worked == {i \in DOMAIN routes : Dials(routes[i]) # "failed"}
        proxied == {i \in DOMAIN routes : routes[i].proxied}
        least(S) == CHOOSE i \in S : \A j \in S : i <= j
        at == IF worked # {} THEN least(worked) ELSE IF proxied # {} THEN least(proxied) ELSE 1
    IN [res |-> Dials(routes[at])] @@ routes[at]

connectRegistry ==
    /\ step = "up" \/ (step = "launch" /\ sc.by = "nobody")
    /\ Spend("lookups")
    /\ LET routes == planRegistryRoutes(First(sc.env["registry"], First(sc.cfg["registry"], "raw")))
       IN told' = IF routes = <<>> THEN [Untold EXCEPT !.res = "invalid"] ELSE dialRegistry(routes)
    /\ UNCHANGED <<sc, step, plan, argv, penv, mode, final, via, relay, cred, dial>>

Init ==
    /\ sc \in Scenarios /\ left = sc.budgets
    /\ step = "launch" /\ plan = [transport |-> "", proxy |-> ""]
    /\ argv = Unset /\ penv = Unset /\ mode = "" /\ final = NoRegistry
    /\ via = NoResolver /\ relay = "none" /\ cred = 0 /\ dial = Idle /\ told = Untold

Next ==
    \/ planDaemonLaunch \/ adaptDaemonArgs \/ ServiceStarts \/ OlderStarts
    \/ resolveAutoTransport \/ OutboundNetwork
    \/ Rotate \/ RefreshTick \/ ProxyAnswers \/ DialEnds
    \/ \E who \in {"daemon", "plugin", "app"} : DialBegins(who)
    \/ connectRegistry

Spec == Init /\ [][Next]_vars

(***************************************************************************)
(* Properties                                                              *)
(***************************************************************************)

Transport == {"", "udp", "compat"}
Addr == {"", "raw", "tls", "own"}

(* The state is well formed. *)
TypeOK ==
    /\ step \in {"launch", "refused", "planned", "started", "aborted", "older",
                 "fatal", "settled", "up"}
    /\ mode \in Transport /\ final.addr \in Addr /\ final.tls \in BOOLEAN
    /\ final.trust \in {"", "pinned", "system"}
    /\ via.kind \in {"nil", "off", "url", "env"} /\ via.gen \in 0..cred
    /\ relay \in {"none", "own", "apps"}
    /\ dial.res \in {"", "open", "failed"}
    /\ told.res \in {"", "open", "failed", "guard", "invalid"}

(* A node set up for a private network stays on it: its registry is never
   replaced, and -transport=auto never takes the public compat beacon in
   place of a private UDP beacon (autoCompatBlocker). *)
NetworkKept ==
    step = "up" =>
        /\ Address("registry", "raw") = "own" => final.addr = "own"
        /\ Requested = "auto" /\ FlagOrEnv("beacon") = "own" /\ Flag("compat-beacon") = ""
              => mode = "udp"

(* With -transport=auto and UDP silent, a proxy that refuses the compat
   check does not send the daemon past it: the registry is still dialled
   through the proxy (SelectTransport). *)
NotPastProxy ==
    step = "up" /\ Requested = "auto" /\ ~sc.net.udp /\ sc.net.connect = "refuses"
    /\ Proxies(resolveProxy("compat")) /\ ~autoCompatBlocker(Settings)
    /\ Flag("compat-beacon") # "unusable"
        => Proxies(via)

(* A daemon that pilotctl starts, or that `update --pin` installs, never
   gets a flag or value it does not define, as long as its flags could be
   probed (adaptDaemonArgs, fitTransportToDaemon). *)
NeverAborts ==
    sc.known /\ (sc.by = "pilotctl" \/ sc.pinned) => step # "aborted"

(* A registry dial that goes through a proxy goes to port 443, which is all
   an egress proxy tunnels to, unless the operator turned registry TLS off -
   also when pilotctl passes the compiled-in address on every start. *)
ConnectsTo443 ==
    step = "up" /\ Proxies(via) => final.addr # "raw" \/ Flag("tls") = "off"

(* With a refresh command in effect no connection of the daemon, its plugins
   or its apps fails for rotated credentials, unless they rotate again or
   the command fails while it is being opened. *)
CredentialsFollow ==
    dial.res = "failed" => ~via.cmd \/ dial.moved

(* pilotctl never mistakes a sandbox's network guard for the registry where
   the environment's proxy could be the way out. *)
GuardNotTaken ==
    told.res = "guard" =>
        \/ sc.shell.proxy \in {"none", "bad"} \/ sc.shell.exempt
        \/ pilotctlProxySpec = "off"
        \/ "udp" \in {mode, configuredTransport}
        \/ First(sc.env["registry"], sc.cfg["registry"]) \notin {"", "raw"}

(* The way the running daemon reaches the registry. *)
DaemonRoute(r) ==
    r.addr = final.addr /\ r.tls = final.tls /\ r.proxied = Proxies(via)

(* Where every setting is in the environment or config.json. *)
Persisted == sc.flag = Unset

Agrees ==
    LET routes == planRegistryRoutes(First(sc.env["registry"], First(sc.cfg["registry"], "raw")))
    IN \E i \in DOMAIN routes : DaemonRoute(routes[i])

(* The daemon's way to the public registry is among the routes pilotctl
   tries (planRegistryRoutes): same address, TLS and proxy.  (A malformed
   proxy variable costs the daemon its proxy and pilotctl its command.) *)
PilotctlAgrees ==
    step = "up" /\ Persisted /\ Settings.addr # "own" /\ Flag("tls") = "" /\ ~sc.enterprise
    /\ sc.shell.proxy # "bad" => Agrees
=============================================================================
