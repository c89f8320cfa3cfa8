------------------------------ MODULE MCDevice ------------------------------
EXTENDS Device, TLC
MCArgs == "max_portmap" :> {0, 1, 3} @@ "lock_password" :> {1} @@ "ap_watchdog" :> {-1, 1, 2}
  @@ "hw_reset" :> {0} @@ "automesh" :> {0, 1} @@ "ap_on" :> {0, 1}
  @@ "password" :> {1} @@ "ssid" :> {1} @@ "auto_connect" :> {1}
  @@ "ap_password" :> {1} @@ "max_clients" :> {4, 9} @@ "ap_open" :> {0}
  @@ "use_peap" :> {1} @@ "web_port" :> {0} @@ "vmin" :> {1}
  @@ "country" :> {1} @@ "phy_mode" :> {1, 4} @@ "tcp_timeout" :> {1}
  @@ "dns" :> {1} @@ "lease" :> {1} @@ "mqtt_qos" :> {2, 3}
  @@ "mqtt_host" :> {1} @@ "dhcps_entries" :> {1}
K(k, v) == [key |-> k, val |-> v]
MCRequests == {<<K("am", 1)>>, <<K("ssid", 1), K("password", 1)>>,
  <<K("lock", 1)>>, <<K("unlock_password", 1)>>,
  <<K("ap_ssid", 1), K("ap_password", 1), K("ap_open", 1)>>}
=============================================================================
