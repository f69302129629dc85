---------------------------- MODULE MCSdoClient ----------------------------
(* SdoClient with the calls the driver and the tools make: the zero command, *)
(* a TPDO period written and the same period read back.                      *)
EXTENDS SdoClient

CONSTANTS zero, period

MCRequests ==
    { [obj |-> zero,   kind |-> "download"],
      [obj |-> period, kind |-> "download"],
      [obj |-> period, kind |-> "upload"] }
=============================================================================
