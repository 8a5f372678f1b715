---------------------------- MODULE MCSupervisor ----------------------------
(***************************************************************************)
(* Part of the suite: a service that health() asks and whose start needs a *)
(* file written first, one that it does not ask, and one it asks.          *)
(***************************************************************************)
EXTENDS Supervisor

Suite == <<"weftmark", "litestream", "gateway">>
SuiteAsked == <<"weftmark", "gateway">>

=============================================================================
