------------------------------ MODULE MCDevice ------------------------------
(* Instances of DeviceApp with its station for TLC. *)
EXTENDS DeviceWifi

(* Every power mode with the device's backend and with the host's mock. *)
AllWirings ==
    [mode : {"STAY_AWAKE", "DRYRUN", "REAL"}, backend : {"esp", "mock"}]
=============================================================================
