---------------------------- MODULE TcpSessionMC ----------------------------
(* Small instances of TcpSession for TLC.                                  *)
EXTENDS TcpSession

CONSTANTS boss, guest, away, secret, wrong

(* boss comes from anywhere; guest may only read; away is not at home here.*)
Everyone == {boss, guest, away}
OnePassword == [u \in Everyone |-> secret]
ThreeRights == [u \in Everyone |-> IF u = guest THEN <<"driver">> ELSE <<"user", "admin">>]
Homes == [u \in Everyone |-> IF u = boss THEN {}
                             ELSE IF u = guest THEN {<<10, 0>>} ELSE {<<10, 0, 0, 2>>, <<11>>}]
Here == <<10, 0, 0, 1>>
=============================================================================
