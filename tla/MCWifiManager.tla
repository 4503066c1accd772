--------------------------- MODULE MCWifiManager ----------------------------
(* Model checking of WifiManager: a primary network and one fallback; the  *)
(* modes of a device with a station, with and without fallback, preferred  *)
(* network and automatic access point.                                     *)
EXTENDS WifiManager

MCNetworks == {"garage", "hotspot"}

Setup(m, a, f, h, b) == [mode |-> m, auto |-> a, fallbacks |-> f, home |-> h, ble |-> b]

MCConfigs ==
    {Setup("APSTA", TRUE, <<"hotspot">>, "garage", FALSE),
     Setup("APSTA", TRUE, <<>>, NoNetwork, TRUE),
     Setup("STA", FALSE, <<>>, NoNetwork, TRUE)}

HomeIsBackup == {Setup("STA", FALSE, <<"hotspot">>, "hotspot", FALSE)}
=============================================================================
