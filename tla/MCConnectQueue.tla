--------------------------- MODULE MCConnectQueue ---------------------------
(* Instances of ConnectQueue.  Jobs are numbers so that creation orders them. *)
EXTENDS ConnectQueue

TwoJobs == 1..2
AnyMode == {"pump", "fresh", "joined", "again"}
PumpAndJoin == {"pump", "joined"}
PumpOnly == {"pump"}
AnyOrigin == BOOLEAN
Interactive == {FALSE}
AnyLicence == {"both", "connect", "none"}
Licensed == {"both"}
Same == {"same"}
RemoveOrForget == {"remove", "forget"}
Remove == {"remove"}
Forget == {"forget"}
Nothing == {}
AnyManifest == {"same", "drifted", "narrow"}
=============================================================================
