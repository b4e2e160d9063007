---------------------------- MODULE CommandLine -----------------------------
(* main of the proxy: the arguments, the assignment of IP addresses to the  *)
(* hosts and UEs, and the UE sockets the proxies then set up.  An IP        *)
(* address on the command line is its position among the addresses.         *)
EXTENDS Integers, Sequences

CONSTANTS
  Numbers,    \* values of numeric arguments
  MaxArgs     \* arguments on the command line

Modes == {"lte", "nr", "nsa"}
Loopback == 0     \* 127.0.0.1
Loopback2 == -1   \* 127.0.0.2

VARIABLES
  stage,          \* "arguments", "help", "died" or "started"
  count,          \* arguments so far
  ues, max_seconds, softmodem_mode,
  ipaddrs,        \* the IP addresses given
  hosts           \* enb, gnb, proxy and ue addresses once decided

vars == <<stage, count, ues, max_seconds, softmodem_mode, ipaddrs, hosts>>

Default == [enb |-> Loopback, gnb |-> Loopback2, proxy |-> Loopback, ue |-> <<>>]

Init ==
  /\ stage = "arguments" /\ count = 0
  /\ ues = 1 /\ max_seconds = 600 /\ softmodem_mode = "lte"
  /\ ipaddrs = <<>> /\ hosts = Default

Argument(width) == stage = "arguments" /\ count + width <= MaxArgs /\ count' = count + width

Stop(how) == stage' = how /\ UNCHANGED <<ues, max_seconds, softmodem_mode, ipaddrs, hosts>>

Help == Argument(1) /\ Stop("help")

Unexpected == Argument(1) /\ Stop("died")

NumberOfUes(n) ==
  /\ Argument(1)
  /\ IF n < 1
     THEN Stop("died")
     ELSE ues' = n /\ UNCHANGED <<stage, max_seconds, softmodem_mode, ipaddrs, hosts>>

Mode(m) ==
  /\ Argument(1)
  /\ softmodem_mode' = m
  /\ UNCHANGED <<stage, ues, max_seconds, ipaddrs, hosts>>

MaxSeconds(n) ==
  /\ Argument(2)
  /\ max_seconds' = n
  /\ UNCHANGED <<stage, ues, softmodem_mode, ipaddrs, hosts>>

MaxSecondsWithoutNumber == Argument(1) /\ Stop("died")

IpAddress ==
  /\ Argument(1)
  /\ ipaddrs' = Append(ipaddrs, Len(ipaddrs) + 1)
  /\ UNCHANGED <<stage, ues, max_seconds, softmodem_mode, hosts>>

-----------------------------------------------------------------------------
(* One base station: eNB and gNB are the same host.  NSA: both come first. *)
OneStation == [enb |-> ipaddrs[1], gnb |-> ipaddrs[1], proxy |-> ipaddrs[2],
               ue |-> SubSeq(ipaddrs, 3, Len(ipaddrs))]
TwoStations == [enb |-> ipaddrs[1], gnb |-> ipaddrs[2], proxy |-> ipaddrs[3],
                ue |-> SubSeq(ipaddrs, 4, Len(ipaddrs))]

(* Five or more: the test for the other modes asks for both at once, so the *)
(* addresses are not used at all.                                           *)
ManyAddresses ==
  IF softmodem_mode = "nr" /\ softmodem_mode = "lte" THEN OneStation
  ELSE IF softmodem_mode = "nsa" THEN TwoStations
  ELSE Default

Refused ==
  \/ Len(ipaddrs) \in {1, 2}
  \/ Len(ipaddrs) = 3 /\ softmodem_mode = "nsa"
  \/ Len(ipaddrs) = 4 /\ softmodem_mode # "nsa" /\ ues # 2

Assigned ==
  CASE Len(ipaddrs) = 0 -> [Default EXCEPT !.ue = [u \in 1 .. ues |-> Loopback]]
    [] Len(ipaddrs) = 3 -> OneStation
    [] Len(ipaddrs) = 4 -> IF softmodem_mode = "nsa" THEN TwoStations ELSE OneStation
    [] Len(ipaddrs) > 4 -> ManyAddresses

AssignAddresses ==
  /\ stage = "arguments"
  /\ ~Refused
  /\ stage' = "started"
  /\ hosts' = Assigned
  /\ UNCHANGED <<count, ues, max_seconds, softmodem_mode, ipaddrs>>

RefuseAddresses ==
  /\ stage = "arguments"
  /\ Refused
  /\ Stop("died") /\ UNCHANGED count

Next ==
  \/ Help \/ Unexpected \/ MaxSecondsWithoutNumber \/ IpAddress
  \/ \E n \in Numbers : NumberOfUes(n) \/ MaxSeconds(n)
  \/ \E m \in Modes : Mode(m)
  \/ AssignAddresses \/ RefuseAddresses

Spec == Init /\ [][Next]_vars

-----------------------------------------------------------------------------
(* configure in the LTE and NR proxies opens a pair of sockets for each UE  *)
(* at the UE's own entry of oai_ue_ipaddr.                                  *)
HasAddress(u) == u \in DOMAIN hosts.ue

(* The stations' and the proxy's addresses, then one for each UE. *)
Complete(stations) == Len(ipaddrs) = stations + 1 + ues

(* In the modes with one station a separate address is provided for each    *)
(* UE after those of station and proxy, so each UE has its own when the     *)
(* proxy starts, in whatever order the options come.                        *)
OneStationAddresses ==
  stage = "started" /\ softmodem_mode # "nsa" /\ Complete(1) =>
    \A u \in 1 .. ues : HasAddress(u) /\ hosts.ue[u] = 2 + u
=============================================================================
