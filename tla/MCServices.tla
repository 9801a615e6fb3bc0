---------------------------- MODULE MCServices ----------------------------
(* One or two servers, two or three applications and what they spawn. *)
EXTENDS Services

OneServer == <<"filesystem", "shell", "edit">>
ThreeApps == <<"filesystem", "shell", "edit", "uidemo">>
TwoServers == <<"graphics", "filesystem", "shell", "edit">>
MCServerNames == {"graphics", "filesystem"}
MCPrograms == {"edit"}

Responses1 == [error_code : {"NONE"}, value : Args]
BothWays == {{}, {"SEND_COMM_DATA", "RECV_COMM_DATA"}}
NoFlags == {{}}

MCNilPage == Page("nil", 0, 0)
MCNullPage == Page("null", 0, 0)
MCPages == [kind : {"request", "reply"}, of : 0 .. MaxPid, arg : Args \cup {0}] \cup {MCNilPage}
=============================================================================
