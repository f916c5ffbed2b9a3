-------------------------- MODULE MCMonitorLifecycle --------------------------
(***************************************************************************)
(* Small instances of MonitorLifecycle: one host, which is added without a *)
(* prefix as an HTTPS monitor, and deleted by its bare name, as the delete *)
(* test of server_test.go:181 does.                                        *)
(***************************************************************************)
EXTENDS MonitorLifecycle

CONSTANT h1

BareUrl == [scheme |-> "", host |-> h1]

HttpsPosts == {[type |-> "HTTPS", target |-> BareUrl]}

BareDeletes == {BareUrl}
=============================================================================
