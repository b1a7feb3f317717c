---------------------------- MODULE MCNetServer -----------------------------
(* Instances of NetServer for TLC. *)
EXTENDS NetServer

MCIp == <<"good", "bad", "good">>

Conf(safe, speed, concurrency) ==
    [safe_ip |-> safe, service_enabled |-> TRUE, service_speed |-> speed,
     service_concurrency |-> concurrency]

MCInitConf == Conf({}, 1, 1)

(* The limit of the speed is switched off for some clients, or on again    *)
(* with another limit on connections; one configuration is refused.        *)
MCConfs == {Conf({"good"}, 0, 1), Conf({}, 1, 2), Conf({}, -1, 1)}

(* The limit of the speed switched off and on again.                       *)
MCSwitched == {Conf({}, 0, 0), Conf({}, 1, 0)}
==============================================================================
